------------------------------- MODULE TaskIds -------------------------------
(***************************************************************************)
(* Task identifiers.  The key of video_tasks is a plain INTEGER PRIMARY    *)
(* KEY, so SQLite gives a new row the largest identifier in use plus one:  *)
(* the identifiers of rows deleted from the end are used again.  A table   *)
(* is a function from identifiers to rows; one without a row has the       *)
(* status "absent".                                                        *)
(***************************************************************************)
EXTENDS Naturals

CONSTANT MaxTaskId    \* bound on the identifiers a run may use

ASSUME IdsAssumption == MaxTaskId \in Nat \ {0}

Ids == 1..MaxTaskId
NoId == 0

Exists(db, i) == db[i].status # "absent"

\* (mutant) The lowest identifier without a row.
IsLowestFreeId(db, i) ==
    /\ ~Exists(db, i)
    /\ \A j \in Ids : j < i => Exists(db, j)

\* The identifier SQLite gives the next row.
IsNextId(db, i) ==
    /\ \A j \in Ids : j >= i => ~Exists(db, j)
    /\ i > 1 => Exists(db, i - 1)
=============================================================================
