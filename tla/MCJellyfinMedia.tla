--------------------------- MODULE MCJellyfinMedia ---------------------------
(***************************************************************************)
(* A series with two episodes, one on a path that is shared with Jellyfin  *)
(* and one on a path that is mapped, in a library of two pages.            *)
(***************************************************************************)
EXTENDS JellyfinMediaProperties, TLC

CONSTANTS show, e1, e2

MCOrder == <<e1, show, e2>>
MCSeriesOf == (e1 :> show) @@ (e2 :> show)
MCPath == (e1 :> "shared") @@ (e2 :> "mapped")
=============================================================================
