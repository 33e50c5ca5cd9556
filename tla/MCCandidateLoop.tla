---------------------------- MODULE MCCandidateLoop ----------------------------
(***************************************************************************)
(* Small instances of CandidateLoop: a pack with a text for each of two    *)
(* episodes, a subtitle with the pack's text for the first episode, and a  *)
(* subtitle that by mistake has each episode's text for the other.         *)
(***************************************************************************)
EXTENDS CandidateLoopProperties

CONSTANTS e1, e2, pack, single, swapped, p1, p2, x, y, none

MCText ==
    [c \in Candidates |->
        [v \in Videos |-> CASE c = pack    -> IF v = e1 THEN x ELSE y
                            [] c = single  -> IF v = e1 THEN x ELSE none
                            [] c = swapped -> IF v = e1 THEN y ELSE x]]

\* The providers identify a subtitle by a number, the cache by its page.
MCKey == [c \in Candidates |-> ToString(c)]
MCCacheKey == [c \in Candidates |-> "page of " \o ToString(c)]

MCOffers == [p \in Providers |-> IF p = p1 THEN {pack} ELSE Candidates \ {pack}]
=============================================================================
