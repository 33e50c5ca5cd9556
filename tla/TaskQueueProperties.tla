------------------------ MODULE TaskQueueProperties ------------------------
(***************************************************************************)
(* What must be true of the task queue.                                    *)
(***************************************************************************)
EXTENDS TaskQueue

HolderType(pcs) == [pc : pcs, task : Ids \cup {NoId}]

(* Every variable has its type. *)
TypeOK ==
    /\ db \in [Ids -> RowType]
    /\ preflightQ \in Seq(Ids)
    /\ workQ \in [Priorities -> Seq(Ids)]
    /\ queuedIds \subseteq Ids
    /\ preflight \in HolderType(PreflightPcs)
    /\ worker \in HolderType(WorkerPcs)
    /\ preflight.task = NoId <=> preflight.pc \in {"idle", "dead"}
    /\ worker.task = NoId <=> worker.pc \in {"idle", "dead"}
    /\ apiPending \subseteq Ids
    /\ mode \in {"running", "stopping", "down"}
    /\ budget \in [{"adds", "retries", "deletes", "crashes", "stops"} -> Nat]

InLanes == Elements(workQ[0]) \cup Elements(workQ[1])

Distinct(s) == \A j, k \in DOMAIN s : s[j] = s[k] => j = k

(***************************************************************************)
(* At most one task is in an active stage, and while the process is up it  *)
(* is the one the processing worker is running: nothing else commits an    *)
(* active stage, and every way out of a run, an exception and a restart    *)
(* included, leaves it.  (So the loop of recover() over the interrupted    *)
(* tasks has one turn at most.)                                            *)
(***************************************************************************)
ActiveIsHeld ==
    RecoverOnStart =>
        \A i \in WithStatus(db, ActiveTaskStatuses) :
            /\ \A j \in WithStatus(db, ActiveTaskStatuses) : i = j
            /\ mode # "down" => worker.task = i /\ worker.pc \in {"run", "raised"}

(***************************************************************************)
(* _queued_task_ids agrees with the two queues: a task is in one place at  *)
(* a time (a queue, a lane, or the hands of the preflight worker), once,   *)
(* so that it is never run twice for one enqueue; and an identifier that   *)
(* enqueue() refuses really is in one of them.                             *)
(***************************************************************************)
QueuedOnce ==
    /\ Distinct(preflightQ) /\ Distinct(workQ[0]) /\ Distinct(workQ[1])
    /\ Elements(preflightQ) \cap InLanes = {}
    /\ Elements(workQ[0]) \cap Elements(workQ[1]) = {}
    /\ preflight.task \notin Elements(preflightQ) \cup InLanes
    /\ Elements(preflightQ) \cup InLanes \subseteq queuedIds
    /\ preflight.pc # "dead" =>
         queuedIds \subseteq Elements(preflightQ) \cup InLanes \cup {preflight.task}

(***************************************************************************)
(* No queued task is forgotten: while the service runs, whatever is queued *)
(* in the database is on its way in memory too, after any history of       *)
(* crashes, stops, retries and cancellations.                              *)
(***************************************************************************)
NoQueuedTaskForgotten ==
    mode = "running" =>
        \A i \in WithStatus(db, {"queued"}) :
            \/ i \in Elements(preflightQ) \cup InLanes \cup apiPending
            \/ i \in {preflight.task, worker.task}

(* A task is never preflighted and processed at the same time. *)
NoConcurrentRun == preflight.task = worker.task => preflight.task = NoId

(***************************************************************************)
(* A failed task leads to one automatic retry at most, however often its   *)
(* end is looked at (preflight, processor, failure record, restart).       *)
(***************************************************************************)
OneAutoRetryPerTask ==
    \A b, c \in Ids :
        /\ db[b].source = "auto-retry" /\ db[c].source = "auto-retry"
        /\ Exists(db, b) /\ Exists(db, c)
        /\ db[b].parent = db[c].parent
        => b = c

(***************************************************************************)
(* Although identifiers are used again, a retry's parent is the task it    *)
(* was made from, or gone: the parent's identifier stays out of use while  *)
(* the retry is there.  So the count of automatic retries is the length of *)
(* the chain, and the path is that of the chain.                           *)
(***************************************************************************)
RetryLineage ==
    \A c \in Ids :
        LET p == db[c].parent
        IN  Exists(db, c) /\ p # NoId =>
              /\ p < c
              /\ Exists(db, p) => db[p].path = db[c].path
              /\ Exists(db, p) /\ db[c].source = "auto-retry" =>
                   db[p].scheduled /\ db[c].count = db[p].count + 1

(***************************************************************************)
(* A failure that the policy retries is not dropped: once the worker that  *)
(* met it has moved on, the task has its retry_schedule event.             *)
(***************************************************************************)
RetryableFailureIsScheduled ==
    mode = "running" =>
        \A i \in WithStatus(db, FailedTaskStatuses) :
            \/ db[i].scheduled
            \/ ~IsRetryable(db[i].status, db[i].error)
            \/ i \in {preflight.task, worker.task}

(* A coroutine of the queue never ends with an exception. *)
WorkersAlive == "dead" \notin {preflight.pc, worker.pc}

(***************************************************************************)
(* A task that has ended keeps its status, a cancelled automatic retry     *)
(* included.                                                               *)
(***************************************************************************)
TerminalIsFinal ==
    [][\A i \in WithStatus(db, TerminalTaskStatuses) :
          db'[i].status \in {db[i].status, "absent"}]_vars

(***************************************************************************)
(* A manual retry takes the place of the automatic ones: when it is made,  *)
(* no other automatic retry of its path is left waiting.  (The retried     *)
(* task itself may be one: cancel_pending_auto_retries_for_path leaves it  *)
(* out, and it then runs beside its manual retry.)                         *)
(***************************************************************************)
ManualRetryReplacesAutomatic ==
    [][\A c \in Ids :
          ~Exists(db, c) /\ Exists(db', c) /\ db'[c].source = "manual-retry" =>
              PendingAutoRetries(db', db'[c].path, db'[c].parent) = {}]_vars

(***************************************************************************)
(* The lifecycle every task keeps to, with the runners' tasks as `taken'.  *)
(***************************************************************************)
Taken ==
    {i \in Ids : \/ preflight.task = i /\ preflight.pc \in {"run", "raised"}
                 \/ worker.task = i /\ worker.pc \in {"run", "raised"}}

Lifecycle == INSTANCE TaskLifecycle
    WITH Tasks <- Ids, status <- [i \in Ids |-> db[i].status], taken <- Taken

LifecycleSpec == Lifecycle!Spec

(***************************************************************************)
(* Every task comes to an end: nothing the service does, a crash and a     *)
(* restart included, leaves a task queued, waiting or active for ever.     *)
(***************************************************************************)
EveryTaskEnds ==
    \A i \in Ids :
        db[i].status \in InFlightTaskStatuses ~> db[i].status \notin InFlightTaskStatuses

(* stop() returns: the queues drain, whatever was in them. *)
StopReturns == mode = "stopping" ~> mode = "down"
=============================================================================
