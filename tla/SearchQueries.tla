--------------------------- MODULE SearchQueries ---------------------------
(***************************************************************************)
(* What each subtitle source is asked for a request, in the order of its   *)
(* fallbacks: _search_queries of zimuku_adapter.py, assrt_adapter.py and   *)
(* subdl_adapter.py, and the keys under which ASSRT remembers that a query *)
(* found nothing.                                                          *)
(*                                                                         *)
(* A request names a title, an original title (NoTitle when there is       *)
(* none), a year, a season and an episode (0 when unknown) and identifiers *)
(* (NoId when unknown); titles are long enough to be asked for.  A query   *)
(* is its strategy with the data its text is put together from: two        *)
(* queries are the same text exactly when they are equal.                  *)
(***************************************************************************)
EXTENDS Naturals, Sequences, SequencesExt

CONSTANTS NoTitle, NoId

Query(strategy, title, year, season, episode) ==
    [strategy |-> strategy, title |-> title, year |-> year,
     season |-> season, episode |-> episode]

IsEpisode(r) == r.type = "episode"

\* The titles that are there, the localised one first, each once.
Titles(r) ==
    IF r.original \in {NoTitle, r.title} THEN <<r.title>> ELSE <<r.title, r.original>>

\* One query per title, in the order of the titles.
PerTitle(r, MakeQuery(_)) ==
    [i \in 1..Len(Titles(r)) |-> MakeQuery(Titles(r)[i])]

When(condition, queries) == IF condition THEN queries ELSE <<>>

Bare(t) == Query("title", t, 0, 0, 0)
TitleYear(r, t) == Query("title_year", t, r.year, 0, 0)
SeasonPack(r, t) == Query("season_pack", t, 0, r.season, 0)
Exact(r, t) == Query("episode_exact", t, 0, r.season, r.episode)

(***************************************************************************)
(* Zimuku: season packs before episodes, and every localised title before  *)
(* the original one.                                                       *)
(***************************************************************************)
ZimukuQueries(r) ==
    IF IsEpisode(r) /\ r.season # 0
    THEN PerTitle(r, LAMBDA t : Query("season_pack_localized", t, 0, r.season, 0))
         \o PerTitle(r, LAMBDA t : SeasonPack(r, t))
         \o When(r.episode # 0,
                 PerTitle(r, LAMBDA t :
                     Query("episode_localized", t, 0, r.season, r.episode))
                 \o PerTitle(r, LAMBDA t : Exact(r, t)))
         \o PerTitle(r, Bare)
    ELSE When(~IsEpisode(r) /\ r.year # 0, PerTitle(r, LAMBDA t : TitleYear(r, t)))
         \o PerTitle(r, Bare)

(***************************************************************************)
(* ASSRT: the season pack under each title, then the episode under the     *)
(* localised one; a film with its year, then without.                      *)
(***************************************************************************)
AssrtQueries(r) ==
    IF IsEpisode(r)
    THEN PerTitle(r, LAMBDA t : IF r.season # 0 THEN SeasonPack(r, t) ELSE Bare(t))
         \o When(r.season # 0,
                 IF r.episode # 0 THEN <<Exact(r, r.title)>> ELSE <<Bare(r.title)>>)
    ELSE When(r.year # 0, PerTitle(r, LAMBDA t : TitleYear(r, t)))
         \o PerTitle(r, Bare)

\* SubDL: identifiers before titles, the original title before the localised one.
SubdlQueries(r) ==
    When(r.imdb # NoId, <<Query("imdb_id", r.imdb, 0, 0, 0)>>)
    \o When(r.tmdb # NoId, <<Query("tmdb_id", r.tmdb, 0, 0, 0)>>)
    \o When(r.original # NoTitle, <<Bare(r.original)>>)
    \o When(r.title # r.original, <<Bare(r.title)>>)
    \o <<Query("file_name", r.title, 0, r.season, r.episode)>>

(***************************************************************************)
(* _negative_cache_key: a season's miss is shared by its episodes, an      *)
(* episode's is its own.                                                   *)
(***************************************************************************)
MediaIdentity(r) ==
    LET known == SelectSeq(<<IF IsEpisode(r) THEN r.series ELSE NoId, r.tmdb, r.imdb>>,
                           LAMBDA id : id # NoId)
    IN  Head(Append(known, r.title))

\* (mutant) A miss is remembered for the work, whatever was asked.
NegativeKeyOfWork(r, query) ==
    [strategy |-> query.strategy, media |-> MediaIdentity(r),
     query |-> Bare(query.title), year |-> 0]

NegativeKey(r, query) ==
    [strategy |-> query.strategy, media |-> MediaIdentity(r), query |-> query,
     year |-> IF IsEpisode(r) THEN 0 ELSE r.year]
=============================================================================
