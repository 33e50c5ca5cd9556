--------------------------- MODULE MCSubtitleFiles ---------------------------
(***************************************************************************)
(* Two episodes of a season and two candidates: a pack that has a file for *)
(* both, and a single file that fits either.                               *)
(***************************************************************************)
EXTENDS SubtitleFilesProperties, TLC

CONSTANTS v1, v2, pack, single, p1, p2, s

MCVideos == {v1, v2}
MCMember == (pack :> (v1 :> p1 @@ v2 :> p2)) @@ (single :> (v1 :> s @@ v2 :> s))

\* A backup is kept; a subtitle that is there is replaced, or it is left, and then one
\* that could not be synchronised may be used, and one candidate is all that is tried.
MCSettings == {[overwrite |-> TRUE, keepBackup |-> TRUE, saveUnsynced |-> FALSE, attempts |-> 2],
               [overwrite |-> FALSE, keepBackup |-> TRUE, saveUnsynced |-> TRUE, attempts |-> 1]}

\* The episodes, with the pack's files for them, may change places.
MCSymmetry == {v1 :> v1 @@ v2 :> v2 @@ p1 :> p1 @@ p2 :> p2,
               v1 :> v2 @@ v2 :> v1 @@ p1 :> p2 @@ p2 :> p1}
=============================================================================
