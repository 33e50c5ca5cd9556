--------------------------- MODULE TaskLifecycle ---------------------------
(***************************************************************************)
(* What the queue promises about a task, whatever happens around it: who   *)
(* may change its status, and to what.  A task belongs to a runner from    *)
(* the moment the runner finds it queued until the runner has recorded its *)
(* outcome.  A task that no runner has only moves from waiting to queued,  *)
(* from pending to cancelled, from a stage left behind by a dead process   *)
(* to interrupted, or out of the table.                                    *)
(***************************************************************************)
EXTENDS TaskStatus

CONSTANT Tasks

VARIABLES
    status,   \* of each task, "absent" for none
    taken     \* the tasks a runner has

lifecycleVars == <<status, taken>>

Init ==
    /\ status = [t \in Tasks |-> "absent"]
    /\ taken = {}

Created(t) == status[t] = "absent" /\ status'[t] \in PendingTaskStatuses

Deleted(t) == status'[t] = "absent"

Activated(t) == status[t] = "retry_wait" /\ status'[t] = "queued"

Cancelled(t) ==
    /\ status[t] \in PendingTaskStatuses
    /\ status'[t] = "skipped_existing_subtitle"

\* Only when no runner is left: the process has just been started.
Interrupted(t) ==
    /\ taken = {}
    /\ status[t] \in ActiveTaskStatuses
    /\ status'[t] = "interrupted"

WrittenByRunner(t) ==
    /\ t \in taken
    /\ status[t] # "absent"
    /\ status'[t] \in TaskStatuses \ {"retry_wait"}

MayChange(t) ==
    \/ Created(t) \/ Deleted(t) \/ Activated(t)
    \/ Cancelled(t) \/ Interrupted(t) \/ WrittenByRunner(t)

\* A runner takes queued tasks only.
MayTake(t) == status[t] = "queued"

Next ==
    /\ \A t \in Tasks : status'[t] # status[t] => MayChange(t)
    /\ \A t \in taken' : t \notin taken => MayTake(t)
    /\ taken' \subseteq Tasks

Spec == Init /\ [][Next]_lifecycleVars
=============================================================================
