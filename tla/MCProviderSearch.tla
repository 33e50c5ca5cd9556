-------------------------- MODULE MCProviderSearch --------------------------
(* Two episodes of a season, and settings with no source, or two or three of the four. *)
EXTENDS ProviderSearchProperties

EpisodeRequest(n) ==
    [type |-> "episode", title |-> "show", original |-> "show", year |-> 0, season |-> 1,
     episode |-> n, series |-> "series", tmdb |-> "none", imdb |-> "none"]

MCRequests == {EpisodeRequest(1), EpisodeRequest(2)}

Settings(order, seconds, keys) ==
    [order |-> order, interval |-> [p \in Sources |-> seconds], keys |-> keys]

MCConfigs ==
    {Settings(<<>>, 1, {}),
     Settings(<<"zimuku", "subdl">>, 1, {}),
     Settings(<<"assrt", "subliminal", "subdl">>, 1, {"assrt", "subdl"})}

MCSubproviders == <<"podnapisi">>
MCSolvers == <<"moviepilot_ocr", "anti_captcha">>
=============================================================================
