------------------------------ MODULE TaskQueue ------------------------------
(***************************************************************************)
(* The task queue of the service (queue.py) with everything that meets in  *)
(* it: the video_tasks table, the two in-memory queues, the preflight and  *)
(* the processing worker, the retry-wait worker, the API handlers that     *)
(* add, retry and delete tasks, and a process that stops, crashes and      *)
(* starts again.                                                           *)
(*                                                                         *)
(* The queue is the one main.py builds: a preflight processor, a cache     *)
(* probe and an interval of zero.  The workers are coroutines of one event *)
(* loop, so what they do between two awaits is one action; processors run  *)
(* in threads of their own and the API handlers in those of a pool, so     *)
(* each of their transactions is an action that anything may separate from *)
(* the next.  Only the database survives a crash.                          *)
(***************************************************************************)
EXTENDS TaskStore, FiniteSets

CONSTANTS
    JobSources,       \* the sources new jobs come from
    Stages,           \* the active statuses the processor commits
    SkipReasons,      \* the successful statuses of a skipped task
    FailureErrors,    \* what a processor or a preflight fails with
    RecoverOnStart,   \* settings.queue.recover_interrupted_tasks
    MaxAdds, MaxManualRetries, MaxDeletes, MaxCrashes, MaxStops
                      \* bounds on what the environment does

ASSUME QueueAssumption ==
    /\ JobSources \subseteq EntrySources
    /\ Stages \subseteq ActiveTaskStatuses
    /\ SkipReasons \subseteq SkippedTaskStatuses
    /\ FailureErrors \subseteq Errors
    /\ RecoverOnStart \in BOOLEAN
    /\ {MaxAdds, MaxManualRetries, MaxDeletes, MaxCrashes, MaxStops} \subseteq Nat

VARIABLES
    db,           \* the video_tasks table
    preflightQ,   \* _preflight_queue
    workQ,        \* _queue: one FIFO lane per priority
    queuedIds,    \* _queued_task_ids
    preflight,    \* the preflight worker and the task it holds
    worker,       \* the processing worker and the task it holds
    apiPending,   \* tasks committed by a handler that has yet to enqueue them
    mode,         \* the process: running, stopping (lifespan exit) or down
    budget        \* what is left of the bounds on the environment

memory == <<preflightQ, workQ, queuedIds, preflight, worker, apiPending>>
vars == <<db, memory, mode, budget>>

Priorities == 0..1      \* 0: cached or manual work, 1: the rest
EmptyLanes == [p \in Priorities |-> <<>>]

(***************************************************************************)
(* Where a worker is.  "run": its thread executes; "raised": the thread    *)
(* ended with an exception; "passed", "ended", "pending": how a preflight  *)
(* returned; "done": the processor returned; "dead": the coroutine ended   *)
(* with an exception of its own.                                           *)
(***************************************************************************)
PreflightPcs == {"idle", "run", "passed", "ended", "pending", "raised", "dead"}
WorkerPcs == {"idle", "run", "done", "raised", "dead"}

At(pc, i) == [pc |-> pc, task |-> i]
Idle == At("idle", NoId)
Dead == At("dead", NoId)

Elements(s) == {s[k] : k \in DOMAIN s}

EmptyMemory ==
    /\ preflightQ' = <<>>
    /\ workQ' = EmptyLanes
    /\ queuedIds' = {}
    /\ preflight' = Idle
    /\ worker' = Idle
    /\ apiPending' = {}

Init ==
    /\ db = [i \in Ids |-> NoRow]
    /\ preflightQ = <<>>
    /\ workQ = EmptyLanes
    /\ queuedIds = {}
    /\ preflight = Idle
    /\ worker = Idle
    /\ apiPending = {}
    /\ mode = "running"
    /\ budget = [adds |-> MaxAdds, retries |-> MaxManualRetries,
                 deletes |-> MaxDeletes, crashes |-> MaxCrashes, stops |-> MaxStops]

Spend(what) ==
    /\ budget[what] > 0
    /\ budget' = [budget EXCEPT ![what] = @ - 1]

-----------------------------------------------------------------------------
(* Entering the queue.                                                     *)

\* (mutant) enqueue without looking at _queued_task_ids.
EnqueueUnchecked(i, tracked) ==
    queuedIds' = tracked \cup {i} /\ preflightQ' = Append(preflightQ, i)

(***************************************************************************)
(* enqueue(i), `tracked' being the value of _queued_task_ids it finds.     *)
(***************************************************************************)
EnqueueInto(i, tracked) ==
    IF i \in tracked
    THEN queuedIds' = tracked /\ UNCHANGED preflightQ
    ELSE queuedIds' = tracked \cup {i} /\ preflightQ' = Append(preflightQ, i)

(***************************************************************************)
(* _is_cache_hit: a manual retry always counts as one; otherwise it is the *)
(* state of the bundle cache, which changes between any two probes.        *)
(***************************************************************************)
PriorityOf(i) ==
    IF Exists(db, i) /\ db[i].source = "manual-retry" THEN {0} ELSE Priorities

Put(i, priority) == workQ' = [workQ EXCEPT ![priority] = Append(@, i)]

(***************************************************************************)
(* _schedule_retry_after_terminal(i): a success cancels the automatic      *)
(* retries still waiting for its path, a failure may create the next one;  *)
(* a task in any other status, or deleted, is left alone.                  *)
(***************************************************************************)
ScheduleRetryAfterTerminal(i, tracked) ==
    \/ /\ db[i].status \in SuccessTaskStatuses
       /\ db' = CancelPendingAutoRetries(db, db[i].path, i)
       /\ queuedIds' = tracked
       /\ UNCHANGED preflightQ
    \/ /\ db[i].status \in FailedTaskStatuses
       /\ \E child \in Ids \cup {NoId} :
             /\ CreateAutoRetryChild(db, i, db', child)
             /\ IF child # NoId /\ db'[child].status = "queued"
                THEN EnqueueInto(child, tracked)
                ELSE queuedIds' = tracked /\ UNCHANGED preflightQ
    \/ /\ db[i].status \notin TerminalTaskStatuses
       /\ queuedIds' = tracked
       /\ UNCHANGED <<db, preflightQ>>

-----------------------------------------------------------------------------
(* The preflight worker (_run_preflight) and its thread.                   *)

PreflightTake ==
    /\ mode # "down"
    /\ preflight.pc = "idle"
    /\ preflightQ # <<>>
    /\ preflightQ' = Tail(preflightQ)
    /\ LET i == Head(preflightQ)
       IN  IF db[i].status = "queued"
           THEN preflight' = At("run", i) /\ UNCHANGED queuedIds
           ELSE queuedIds' = queuedIds \ {i} /\ UNCHANGED preflight
    /\ UNCHANGED <<db, workQ, worker, apiPending, mode, budget>>

(***************************************************************************)
(* preflight_video_task: one transaction, so the stages it passes through  *)
(* are never seen.  It does not look at the status the task has by then.   *)
(***************************************************************************)
PreflightCommits(i, status, error, pc) ==
    /\ mode # "down"
    /\ preflight = At("run", i)
    /\ Exists(db, i)
    /\ db' = [SetStatus(db, i, status, error) EXCEPT ![i].resolved = (pc = "passed") \/ @]
    /\ preflight' = At(pc, i)
    /\ UNCHANGED <<preflightQ, workQ, queuedIds, worker, apiPending, mode, budget>>

PreflightPasses(i) == PreflightCommits(i, "queued", "none", "passed")

PreflightFails(i) == PreflightCommits(i, "failed", "identity", "ended")

PreflightSkips(i) ==
    /\ db[i].source \notin SupplementalSources
    /\ \E s \in SkipReasons : PreflightCommits(i, s, "none", "ended")

\* An exception leaves nothing behind, not even the metadata_wait event.
PreflightRollsBack(i, pc) ==
    /\ mode # "down"
    /\ preflight = At("run", i)
    /\ preflight' = At(pc, i)
    /\ UNCHANGED <<db, preflightQ, workQ, queuedIds, worker, apiPending, mode, budget>>

PreflightAwaitsNfo(i) ==
    Exists(db, i) /\ db[i].nfoOpen /\ PreflightRollsBack(i, "pending")

PreflightRaises(i) == PreflightRollsBack(i, "raised")

PreflightRun(i) ==
    \/ PreflightPasses(i) \/ PreflightFails(i) \/ PreflightSkips(i)
    \/ PreflightAwaitsNfo(i) \/ PreflightRaises(i)

\* (mutant) The forwarded task is put back for another preflight.
PreflightForwardsTwice ==
    /\ preflight.pc = "passed"
    /\ \E p \in PriorityOf(preflight.task) : Put(preflight.task, p)
    /\ preflightQ' = Append(preflightQ, preflight.task)
    /\ preflight' = Idle
    /\ UNCHANGED <<db, queuedIds>>

PreflightForwards ==
    /\ preflight.pc = "passed"
    /\ \E p \in PriorityOf(preflight.task) : Put(preflight.task, p)
    /\ preflight' = Idle
    /\ UNCHANGED <<db, preflightQ, queuedIds>>

PreflightEnds ==
    /\ preflight.pc = "ended"
    /\ ScheduleRetryAfterTerminal(preflight.task, queuedIds \ {preflight.task})
    /\ preflight' = Idle
    /\ UNCHANGED workQ

\* (mutant) The task is dropped whether or not the service is stopping.
PreflightGivesUp ==
    /\ preflight.pc = "pending"
    /\ queuedIds' = queuedIds \ {preflight.task}
    /\ preflight' = Idle
    /\ UNCHANGED <<db, preflightQ, workQ>>

\* After at most thirty seconds asleep, in which no other task is preflighted.
PreflightTriesAgain ==
    /\ preflight.pc = "pending"
    /\ IF mode = "stopping"
       THEN queuedIds' = queuedIds \ {preflight.task} /\ UNCHANGED preflightQ
       ELSE preflightQ' = Append(preflightQ, preflight.task) /\ UNCHANGED queuedIds
    /\ preflight' = Idle
    /\ UNCHANGED <<db, workQ>>

\* _record_processor_failure raises when the task is gone.
PreflightRecordsFailure ==
    /\ preflight.pc = "raised"
    /\ IF Exists(db, preflight.task)
       THEN /\ \E e \in FailureErrors : db' = SetStatus(db, preflight.task, "failed", e)
            /\ preflight' = [preflight EXCEPT !.pc = "ended"]
       ELSE preflight' = Dead /\ UNCHANGED db
    /\ UNCHANGED <<preflightQ, workQ, queuedIds>>

PreflightReturns ==
    /\ mode # "down"
    /\ \/ PreflightForwards \/ PreflightEnds
       \/ PreflightTriesAgain \/ PreflightRecordsFailure
    /\ UNCHANGED <<worker, apiPending, mode, budget>>

-----------------------------------------------------------------------------
(* The processing worker (_run, _process_one) and its thread.              *)

\* (mutant) The status of the task is not looked at again.
WorkerTakeUnchecked ==
    /\ mode # "down"
    /\ worker.pc = "idle"
    /\ \E p \in Priorities :
          /\ workQ[p] # <<>>
          /\ workQ' = [workQ EXCEPT ![p] = Tail(@)]
          /\ queuedIds' = queuedIds \ {Head(workQ[p])}
          /\ worker' = At("run", Head(workQ[p]))
    /\ UNCHANGED <<db, preflightQ, preflight, apiPending, mode, budget>>

WorkerTake ==
    /\ mode # "down"
    /\ worker.pc = "idle"
    /\ \E p \in Priorities :
          /\ workQ[p] # <<>>
          /\ \A q \in Priorities : q < p => workQ[q] = <<>>
          /\ workQ' = [workQ EXCEPT ![p] = Tail(@)]
          /\ LET i == Head(workQ[p])
             IN  /\ queuedIds' = queuedIds \ {i}
                 /\ worker' = IF db[i].status = "queued" THEN At("run", i) ELSE Idle
    /\ UNCHANGED <<db, preflightQ, preflight, apiPending, mode, budget>>

(***************************************************************************)
(* process_video_task commits the stage it has reached whenever it         *)
(* releases the database lock, and its outcome at the end.  Like the       *)
(* preflight it never looks at the status it overwrites.                   *)
(***************************************************************************)
ProcessorStep(i, new, pc) ==
    /\ mode # "down"
    /\ worker = At("run", i)
    /\ db' = new
    /\ worker' = At(pc, i)
    /\ UNCHANGED <<preflightQ, workQ, queuedIds, preflight, apiPending, mode, budget>>

ProcessorCommits(i) ==
    /\ Exists(db, i)
    /\ \E s \in Stages :
          ProcessorStep(i, [SetStatus(db, i, s, "none") EXCEPT ![i].resolved = TRUE], "run")

ProcessorCompletes(i) ==
    /\ Exists(db, i)
    /\ ProcessorStep(i, SetStatus(db, i, "completed", "none"), "done")

ProcessorFails(i) ==
    /\ Exists(db, i)
    /\ \E e \in FailureErrors : ProcessorStep(i, SetStatus(db, i, "failed", e), "done")

\* Only a task that has not been preflighted is checked for existing subtitles.
ProcessorSkips(i) ==
    /\ Exists(db, i) /\ ~db[i].resolved /\ db[i].source \notin SupplementalSources
    /\ \E s \in SkipReasons : ProcessorStep(i, SetStatus(db, i, s, "none"), "done")

ProcessorRaises(i) == ProcessorStep(i, db, "raised")

ProcessorReturns(i) ==
    \/ ProcessorCompletes(i) \/ ProcessorFails(i)
    \/ ProcessorSkips(i) \/ ProcessorRaises(i)

WorkerSchedules ==
    /\ mode # "down"
    /\ worker.pc = "done"
    /\ ScheduleRetryAfterTerminal(worker.task, queuedIds)
    /\ worker' = Idle
    /\ UNCHANGED <<workQ, preflight, apiPending, mode, budget>>

\* (mutant) The failure is recorded and no retry is considered.
WorkerOnlyRecordsFailure ==
    /\ mode # "down"
    /\ worker.pc = "raised"
    /\ Exists(db, worker.task)
    /\ \E e \in FailureErrors : db' = SetStatus(db, worker.task, "failed", e)
    /\ worker' = Idle
    /\ UNCHANGED <<preflightQ, workQ, queuedIds, preflight, apiPending, mode, budget>>

\* (mutant) The exception of a processor is not caught.
WorkerLetsExceptionEscape ==
    /\ mode # "down"
    /\ worker.pc = "raised"
    /\ worker' = Dead
    /\ UNCHANGED <<db, preflightQ, workQ, queuedIds, preflight, apiPending, mode, budget>>

\* _record_processor_failure; the coroutine dies with the task still counted
\* as unfinished when the task is gone.
WorkerRecordsFailure ==
    /\ mode # "down"
    /\ worker.pc = "raised"
    /\ IF Exists(db, worker.task)
       THEN /\ \E e \in FailureErrors : db' = SetStatus(db, worker.task, "failed", e)
            /\ worker' = [worker EXCEPT !.pc = "done"]
       ELSE worker' = Dead /\ UNCHANGED db
    /\ UNCHANGED <<preflightQ, workQ, queuedIds, preflight, apiPending, mode, budget>>

-----------------------------------------------------------------------------
(* The retry-wait worker (_run_retry_wait) and the passing of time.        *)

(***************************************************************************)
(* One turn of the loop for one due retry.  A turn that finds several due  *)
(* is this action several times: nothing reads the states in between.      *)
(***************************************************************************)
ActivateRetry(i) ==
    /\ mode = "running"
    /\ i \in DueRetries(db)
    /\ db' = Activate(db, {i})
    /\ EnqueueInto(i, queuedIds)
    /\ UNCHANGED <<workQ, preflight, worker, apiPending, mode, budget>>

\* A turn that finds nothing due, woken by the event or by the timeout.
RetryPoll ==
    /\ mode = "running"
    /\ DueRetries(db) = {}
    /\ UNCHANGED vars

RetryComesDue(i) ==
    /\ db[i].status = "retry_wait" /\ ~db[i].due
    /\ db' = [db EXCEPT ![i].due = TRUE]
    /\ UNCHANGED <<memory, mode, budget>>

\* The 90 or 120 seconds after a MoviePilot job's creation are over; only a
\* queued task's window is ever looked at.
NfoWindowCloses(i) ==
    /\ db[i].status = "queued" /\ db[i].nfoOpen
    /\ db' = [db EXCEPT ![i].nfoOpen = FALSE]
    /\ UNCHANGED <<memory, mode, budget>>

-----------------------------------------------------------------------------
(* The API handlers, each with one database session.                       *)

ApiCommits(new, created, cost) ==
    /\ mode = "running"
    /\ Spend(cost)
    /\ db' = new
    /\ apiPending' = apiPending \cup created
    /\ UNCHANGED <<preflightQ, workQ, queuedIds, preflight, worker, mode>>

\* add_job and create_tasks_from_jellyfin_items: neither looks for a task of
\* the same path.
AddJob(path, source) ==
    \E i \in Ids :
        /\ IsNextId(db, i)
        /\ ApiCommits([db EXCEPT ![i] = NewRow("queued", path, source, 0, NoId,
                                               source = "moviepilot-csf")],
                      {i}, "adds")

(***************************************************************************)
(* _create_retry_task(o).  A terminal task does not count as its own       *)
(* rival, a pending one does.  The newest task in flight for the path is   *)
(* the answer unless it is an automatic retry that has not begun, which is *)
(* cancelled for the manual one, with the others of the path but for o.    *)
(***************************************************************************)
RetryRivals(o) ==
    InFlightForPath(db, db[o].path,
                    IF db[o].status \in TerminalTaskStatuses THEN o ELSE NoId)

Newest(ids) == CHOOSE j \in ids : \A k \in ids : k <= j

RetryReplaces(o) ==
    /\ RetryRivals(o) # {}
    /\ db[Newest(RetryRivals(o))].source = "auto-retry"
    /\ db[Newest(RetryRivals(o))].status \in PendingTaskStatuses

ManualRetryChild(o) == RetryChild(o, db[o], "manual-retry", "queued", 0)

RetryTask(o) ==
    /\ Exists(db, o)
    /\ \E i \in Ids :
        /\ IsNextId(db, i)
        /\ \/ /\ RetryRivals(o) = {}
              /\ ApiCommits([db EXCEPT ![i] = ManualRetryChild(o)], {i}, "retries")
           \/ /\ RetryReplaces(o)
              /\ ApiCommits([CancelPendingAutoRetries(db, db[o].path, o)
                               EXCEPT ![i] = ManualRetryChild(o)], {i}, "retries")

\* delete_task, of a task in any status.
DeleteTask(i) ==
    /\ Exists(db, i)
    /\ ApiCommits([db EXCEPT ![i] = NoRow], {}, "deletes")

DeleteAllTasks ==
    /\ \E i \in Ids : Exists(db, i)
    /\ ApiCommits([i \in Ids |-> NoRow], {}, "deletes")

\* The handler's enqueue call, after its session has been committed.
ApiEnqueue(i) ==
    /\ mode = "running"
    /\ i \in apiPending
    /\ apiPending' = apiPending \ {i}
    /\ EnqueueInto(i, queuedIds)
    /\ UNCHANGED <<db, workQ, preflight, worker, mode, budget>>

-----------------------------------------------------------------------------
(* The life of the process.                                                *)

Crash ==
    /\ mode # "down"
    /\ Spend("crashes")
    /\ mode' = "down"
    /\ EmptyMemory
    /\ UNCHANGED db

\* stop(): the server has finished its requests, the retry worker has ended.
Stop ==
    /\ mode = "running"
    /\ apiPending = {}
    /\ Spend("stops")
    /\ mode' = "stopping"
    /\ UNCHANGED <<db, memory>>

\* join() returns; a dead processing worker has left an item it never counted.
StopCompletes ==
    /\ mode = "stopping"
    /\ preflightQ = <<>> /\ workQ = EmptyLanes
    /\ preflight.pc \in {"idle", "dead"} /\ worker.pc = "idle"
    /\ mode' = "down"
    /\ EmptyMemory
    /\ UNCHANGED <<db, budget>>

(***************************************************************************)
(* The orders in which recover() may enqueue a set of tasks: cache hits    *)
(* first, by identifier among equals.                                      *)
(***************************************************************************)
RecoveryOrders(ids) ==
    {s \in [1..Cardinality(ids) -> ids] :
        /\ Elements(s) = ids
        /\ \E hits \in SUBSET ids :
             /\ \A i \in ids : 1 \notin PriorityOf(i) => i \in hits
             /\ \A j, k \in DOMAIN s :
                  j < k => \/ s[j] \in hits /\ s[k] \notin hits
                           \/ (s[j] \in hits <=> s[k] \in hits) /\ s[j] < s[k]}

\* (mutant) The queued tasks are listed before the due retries are activated.
RecoverListedEarly ==
    LET active == WithStatus(db, ActiveTaskStatuses)
        settled == Activate(MarkActiveInterrupted(db), DueRetries(db))
    IN  /\ \/ active = {} /\ db' = settled
           \/ \E i \in active, child \in Ids \cup {NoId} :
                 CreateAutoRetryChild(settled, i, db', child)
        /\ preflightQ' \in RecoveryOrders(WithStatus(db, {"queued"}))
        /\ queuedIds' = WithStatus(db, {"queued"})

(***************************************************************************)
(* start() with recover(), before the first request.  The loop over the    *)
(* interrupted tasks has at most one turn: ActiveIsHeld below.             *)
(***************************************************************************)
Recover ==
    LET active == WithStatus(db, ActiveTaskStatuses)
        settled == Activate(MarkActiveInterrupted(db), DueRetries(db))
    IN  /\ \/ active = {} /\ db' = settled
           \/ \E i \in active, child \in Ids \cup {NoId} :
                 CreateAutoRetryChild(settled, i, db', child)
        /\ preflightQ' \in RecoveryOrders(WithStatus(db', {"queued"}))
        /\ queuedIds' = WithStatus(db', {"queued"})

Start ==
    /\ mode = "down"
    /\ mode' = "running"
    /\ IF RecoverOnStart THEN Recover ELSE UNCHANGED <<db, preflightQ, queuedIds>>
    /\ UNCHANGED <<workQ, preflight, worker, apiPending, budget>>

-----------------------------------------------------------------------------
Preflight == PreflightTake \/ PreflightReturns \/ \E i \in Ids : PreflightRun(i)

Worker ==
    \/ WorkerTake \/ WorkerSchedules \/ WorkerRecordsFailure
    \/ \E i \in Ids : ProcessorCommits(i) \/ ProcessorReturns(i)

RetryWait == RetryPoll \/ \E i \in Ids : ActivateRetry(i)

Time == \E i \in Ids : RetryComesDue(i) \/ NfoWindowCloses(i)

Api ==
    \/ \E path \in Paths, source \in JobSources : AddJob(path, source)
    \/ \E i \in Ids : RetryTask(i) \/ DeleteTask(i) \/ ApiEnqueue(i)
    \/ DeleteAllTasks

Process == Crash \/ Stop \/ StopCompletes \/ Start

Next == Preflight \/ Worker \/ RetryWait \/ Time \/ Api \/ Process

Spec == Init /\ [][Next]_vars

(***************************************************************************)
(* Fairness.  The event loop runs every coroutine that can run; a thread   *)
(* ends, since every wait in it has a timeout; time passes; a handler that *)
(* has committed returns; and a supervisor starts a process that is down.  *)
(* Nothing is assumed of what users and failures do.                       *)
(***************************************************************************)
Fairness ==
    /\ WF_vars(PreflightTake)
    /\ WF_vars(PreflightReturns)
    /\ WF_vars(\E i \in Ids : PreflightRun(i))
    /\ WF_vars(WorkerTake)
    /\ WF_vars(WorkerSchedules)
    /\ WF_vars(WorkerRecordsFailure)
    /\ WF_vars(\E i \in Ids : ProcessorReturns(i))
    /\ \A i \in Ids : WF_vars(ActivateRetry(i))
    /\ \A i \in Ids : WF_vars(RetryComesDue(i)) /\ WF_vars(NfoWindowCloses(i))
    /\ \A i \in Ids : WF_vars(ApiEnqueue(i))
    /\ WF_vars(StopCompletes)
    /\ WF_vars(Start)

FairSpec == Spec /\ Fairness
=============================================================================
