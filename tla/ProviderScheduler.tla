------------------------- MODULE ProviderScheduler -------------------------
(***************************************************************************)
(* ProviderSearchScheduler (providers/scheduler.py): who may be searched   *)
(* now.  A source that is searched is reserved for its interval, and kept  *)
(* for the whole interval again when its search has ended.                 *)
(*                                                                         *)
(* The scheduler keeps the time at which a source becomes ready; here it   *)
(* is the time left until then, which Elapse lets pass, so that no clock   *)
(* grows without bound.                                                    *)
(***************************************************************************)
EXTENDS Naturals, Sequences, SequencesExt, FiniteSetsExt

\* A scheduler: the interval of each source and the time until it is ready.
Scheduler(interval, cooldown) == [interval |-> interval, cooldown |-> cooldown]

Ready(sched, p) == sched.interval[p] = 0 \/ sched.cooldown[p] = 0

\* acquire: the i-th of the given order is the first that is ready, ...
FirstReady(sched, order, i) ==
    Ready(sched, order[i]) /\ \A j \in 1..(i - 1) : ~Ready(sched, order[j])

\* ... and is reserved.
Reserve(sched, p) == [sched EXCEPT !.cooldown[p] = sched.interval[p]]

\* acquire, when none is ready: how long it sleeps, until the first to be so.
WaitTime(sched, order) == Min({sched.cooldown[p] : p \in ToSet(order)})

\* (mutant) The reservation at the start of the search is all there is.
MarkNothing(sched, p) == sched

\* mark_completed never shortens a reservation.
MarkCompleted(sched, p) ==
    [sched EXCEPT !.cooldown[p] =
        IF sched.interval[p] = 0 THEN @ ELSE Max({@, sched.interval[p]})]

\* New intervals hold from the next reservation on.
UpdateIntervals(sched, interval) == [sched EXCEPT !.interval = interval]

Less(n) == IF n = 0 THEN 0 ELSE n - 1

Elapse(sched) ==
    [sched EXCEPT !.cooldown = [p \in DOMAIN sched.cooldown |-> Less(sched.cooldown[p])]]
=============================================================================
