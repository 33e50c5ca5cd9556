-------------------------- MODULE TaskQueueProofs --------------------------
(***************************************************************************)
(* Proofs about the task queue, for every value of the constants.          *)
(***************************************************************************)
EXTENDS TaskQueueProperties, FiniteSetTheorems, TLAPS

DbType == [Ids -> RowType]

-----------------------------------------------------------------------------
(* The types of the table's operations.                                    *)

LEMMA NewRowType ==
    ASSUME NEW s \in TaskStatuses \cup {"absent"}, NEW p \in Paths,
           NEW src \in EntrySources \cup RetrySources,
           NEW n \in 0..MaxAutoRetries, NEW par \in Ids \cup {NoId},
           NEW o \in BOOLEAN
    PROVE  NewRow(s, p, src, n, par, o) \in RowType
BY DEF NewRow, RowType, Errors

LEMMA NoRowType == NoRow \in RowType
<1>1. (CHOOSE p \in Paths : TRUE) \in Paths
  BY StoreAssumption
<1>2. /\ "auto-retry" \in EntrySources \cup RetrySources
      /\ 0 \in 0..MaxAutoRetries
      /\ NoId \in Ids \cup {NoId}
  BY MaxAutoRetriesAssumption DEF RetrySources
<1> QED
  BY <1>1, <1>2, NewRowType DEF NoRow

LEMMA InsertType ==
    ASSUME NEW d \in DbType, NEW i \in Ids, NEW r \in RowType
    PROVE  [d EXCEPT ![i] = r] \in DbType
BY DEF DbType

LEMMA SetStatusType ==
    ASSUME NEW d \in DbType, NEW i \in Ids, NEW s \in TaskStatuses, NEW e \in Errors
    PROVE  SetStatus(d, i, s, e) \in DbType
<1>1. d[i] \in RowType
  BY DEF DbType
<1>2. [d[i] EXCEPT !.status = s] \in RowType
  BY <1>1 DEF RowType
<1>3. [d EXCEPT ![i].status = s] \in DbType
  BY <1>2, InsertType
<1>4. [d EXCEPT ![i].status = s][i] \in RowType
  BY <1>3 DEF DbType
<1>5. [[d EXCEPT ![i].status = s][i] EXCEPT !.error = e] \in RowType
  BY <1>4 DEF RowType
<1>6. [[d EXCEPT ![i].status = s] EXCEPT ![i].error = e] \in DbType
  BY <1>3, <1>5, InsertType
<1> QED
  BY <1>6 DEF SetStatus

LEMMA FlagType ==
    ASSUME NEW d \in DbType, NEW i \in Ids, NEW b \in BOOLEAN
    PROVE  /\ [d EXCEPT ![i].resolved = b] \in DbType
           /\ [d EXCEPT ![i].due = b] \in DbType
           /\ [d EXCEPT ![i].nfoOpen = b] \in DbType
BY DEF DbType, RowType

\* What it is to mark a task as one whose retry was scheduled.
LEMMA MarkedRow ==
    ASSUME NEW d \in DbType, NEW i \in Ids
    PROVE  LET marked == [d EXCEPT ![i].scheduled = TRUE]
           IN  /\ marked \in DbType /\ marked[i].scheduled = TRUE
               /\ \A j \in Ids : j # i => marked[j] = d[j]
               /\ \A j \in Ids : marked[j].status = d[j].status
<1> DEFINE old == d[i]
           row == [old EXCEPT !.scheduled = TRUE]
           marked == [d EXCEPT ![i] = row]
<1>1. old \in RowType
  BY DEF DbType
<1>2. row \in RowType /\ row.scheduled = TRUE /\ row.status = old.status
  <2> HIDE DEF old
  <2> QED
    BY <1>1 DEF RowType
<1>3. [d EXCEPT ![i].scheduled = TRUE] = marked
  OBVIOUS
<1> HIDE DEF row
<1>4. /\ marked \in DbType /\ marked[i] = row
      /\ \A j \in Ids : j # i => marked[j] = d[j]
  BY <1>2 DEF DbType
<1> HIDE DEF marked
<1> QED
  BY <1>2, <1>3, <1>4

LEMMA ActivateType ==
    ASSUME NEW d \in DbType, NEW S
    PROVE  Activate(d, S) \in DbType
<1>1. "queued" \in TaskStatuses /\ "none" \in Errors
  BY DEF TaskStatuses, InFlightTaskStatuses, PendingTaskStatuses, Errors
<1>2. ASSUME NEW j \in Ids
      PROVE  [d[j] EXCEPT !.status = "queued", !.error = "none", !.due = FALSE] \in RowType
  <2>1. d[j] \in RowType
    BY DEF DbType
  <2> QED
    BY <1>1, <2>1 DEF RowType
<1> QED
  BY <1>2 DEF Activate, DbType

LEMMA CancelType ==
    ASSUME NEW d \in DbType, NEW p, NEW x
    PROVE  CancelPendingAutoRetries(d, p, x) \in DbType
<1>1. "skipped_existing_subtitle" \in TaskStatuses /\ "none" \in Errors
  BY DEF TaskStatuses, TerminalTaskStatuses, SuccessTaskStatuses, SkippedTaskStatuses, Errors
<1>2. ASSUME NEW j \in Ids
      PROVE  [d[j] EXCEPT !.status = "skipped_existing_subtitle",
                          !.error = "none", !.due = FALSE] \in RowType
  <2>1. d[j] \in RowType
    BY DEF DbType
  <2> QED
    BY <1>1, <2>1 DEF RowType
<1> QED
  BY <1>2 DEF CancelPendingAutoRetries, DbType

LEMMA MarkType ==
    ASSUME NEW d \in DbType
    PROVE  MarkActiveInterrupted(d) \in DbType
<1>1. "interrupted" \in TaskStatuses /\ "interrupted" \in Errors
  BY DEF TaskStatuses, TerminalTaskStatuses, FailedTaskStatuses, Errors, RetryCategories
<1>2. ASSUME NEW j \in Ids
      PROVE  [d[j] EXCEPT !.status = "interrupted", !.error = "interrupted"] \in RowType
  <2>1. d[j] \in RowType
    BY DEF DbType
  <2> QED
    BY <1>1, <2>1 DEF RowType
<1> QED
  BY <1>2 DEF MarkActiveInterrupted, DbType

LEMMA RetryChildType ==
    ASSUME NEW r \in RowType, NEW par \in Ids,
           NEW src \in RetrySources, NEW s \in TaskStatuses, NEW n \in 0..MaxAutoRetries
    PROVE  RetryChild(par, r, src, s, n) \in RowType
<1>1. r.path \in Paths
  BY DEF RowType
<1> QED
  BY <1>1, NewRowType DEF RetryChild

LEMMA AutoRetryChildType ==
    ASSUME NEW r \in RowType, NEW par \in Ids,
           RetryAllowed(r.status, r.error, r.count)
    PROVE  AutoRetryChild(par, r) \in RowType
<1>1. r.count + 1 \in 0..MaxAutoRetries
  BY MaxAutoRetriesAssumption DEF RetryAllowed, RowType
<1>2. /\ "auto-retry" \in RetrySources
      /\ "queued" \in TaskStatuses
      /\ "retry_wait" \in TaskStatuses
  BY DEF RetrySources, TaskStatuses, InFlightTaskStatuses, PendingTaskStatuses
<1> QED
  BY <1>1, <1>2, RetryChildType DEF AutoRetryChild

LEMMA CreateAutoRetryChildType ==
    ASSUME NEW d \in DbType, NEW i \in Ids, NEW new, NEW child,
           CreateAutoRetryChild(d, i, new, child)
    PROVE  new \in DbType /\ child \in Ids \cup {NoId}
<1>1. [d EXCEPT ![i].scheduled = TRUE] \in DbType
  <2>1. d[i] \in RowType
    BY DEF DbType
  <2>2. [d[i] EXCEPT !.scheduled = TRUE] \in RowType
    BY <2>1 DEF RowType
  <2> QED
    BY <2>2, InsertType
<1>2. CASE new = d /\ child = NoId
  BY <1>2
<1>3. CASE new = [d EXCEPT ![i].scheduled = TRUE] /\ child = NoId
  BY <1>1, <1>3
<1>4. CASE /\ child \in Ids
           /\ RetryAllowed(d[i].status, d[i].error, d[i].count)
           /\ new = [d EXCEPT ![i].scheduled = TRUE, ![child] = AutoRetryChild(i, d[i])]
  <2>1. AutoRetryChild(i, d[i]) \in RowType
    BY <1>4, AutoRetryChildType DEF DbType
  <2>2. new = [[d EXCEPT ![i].scheduled = TRUE] EXCEPT ![child] = AutoRetryChild(i, d[i])]
    BY <1>4, Zenon
  <2>3. child \in Ids
    BY <1>4
  <2>4. ASSUME NEW m \in DbType
        PROVE  [m EXCEPT ![child] = AutoRetryChild(i, d[i])] \in DbType
    BY <2>1, <2>3, InsertType
  <2> QED
    BY <1>1, <2>2, <2>3, <2>4, Zenon
<1>5. \/ new = d /\ child = NoId
      \/ new = [d EXCEPT ![i].scheduled = TRUE] /\ child = NoId
      \/ /\ child \in Ids
         /\ RetryAllowed(d[i].status, d[i].error, d[i].count)
         /\ new = [d EXCEPT ![i].scheduled = TRUE, ![child] = AutoRetryChild(i, d[i])]
  BY Zenon DEF CreateAutoRetryChild
<1> QED
  BY <1>2, <1>3, <1>4, <1>5

-----------------------------------------------------------------------------
(* Type correctness.                                                       *)

LEMMA TypeInit == Init => TypeOK
<1> SUFFICES ASSUME Init PROVE TypeOK
  OBVIOUS
<1>1. db \in [Ids -> RowType]
  BY NoRowType DEF Init
<1>2. /\ preflightQ \in Seq(Ids)
      /\ workQ \in [Priorities -> Seq(Ids)]
  BY DEF Init, EmptyLanes
<1>3. /\ preflight \in HolderType(PreflightPcs)
      /\ worker \in HolderType(WorkerPcs)
      /\ preflight.task = NoId <=> preflight.pc \in {"idle", "dead"}
      /\ worker.task = NoId <=> worker.pc \in {"idle", "dead"}
  BY DEF Init, Idle, At, HolderType, PreflightPcs, WorkerPcs
<1>4. budget \in [{"adds", "retries", "deletes", "crashes", "stops"} -> Nat]
  BY QueueAssumption DEF Init
<1> QED
  BY <1>1, <1>2, <1>3, <1>4 DEF Init, TypeOK

LEMMA EnqueueType ==
    ASSUME TypeOK, NEW i \in Ids, NEW T \in SUBSET Ids, EnqueueInto(i, T)
    PROVE  preflightQ' \in Seq(Ids) /\ queuedIds' \subseteq Ids
<1>1. Append(preflightQ, i) \in Seq(Ids)
  BY DEF TypeOK
<1> QED
  BY <1>1 DEF TypeOK, EnqueueInto

LEMMA ScheduleType ==
    ASSUME TypeOK, NEW i \in Ids, NEW T \in SUBSET Ids,
           ScheduleRetryAfterTerminal(i, T)
    PROVE  /\ db' \in [Ids -> RowType]
           /\ preflightQ' \in Seq(Ids)
           /\ queuedIds' \subseteq Ids
<1> USE DEF DbType
<1>1. CASE /\ db' = CancelPendingAutoRetries(db, db[i].path, i)
           /\ queuedIds' = T
           /\ UNCHANGED preflightQ
  BY <1>1, CancelType DEF TypeOK
<1>2. CASE \E child \in Ids \cup {NoId} :
             /\ CreateAutoRetryChild(db, i, db', child)
             /\ IF child # NoId /\ db'[child].status = "queued"
                THEN EnqueueInto(child, T)
                ELSE queuedIds' = T /\ UNCHANGED preflightQ
  <2>1. PICK child \in Ids \cup {NoId} :
             /\ CreateAutoRetryChild(db, i, db', child)
             /\ IF child # NoId /\ db'[child].status = "queued"
                THEN EnqueueInto(child, T)
                ELSE queuedIds' = T /\ UNCHANGED preflightQ
    BY <1>2
  <2>2. db' \in [Ids -> RowType]
    BY <2>1, CreateAutoRetryChildType DEF TypeOK
  <2>3. preflightQ' \in Seq(Ids) /\ queuedIds' \subseteq Ids
    BY <2>1, EnqueueType DEF TypeOK
  <2> QED
    BY <2>2, <2>3
<1>3. CASE queuedIds' = T /\ UNCHANGED <<db, preflightQ>>
  BY <1>3 DEF TypeOK
<1> QED
  BY <1>1, <1>2, <1>3 DEF ScheduleRetryAfterTerminal

LEMMA TypePreflight == TypeOK /\ Preflight => TypeOK'
<1> SUFFICES ASSUME TypeOK, Preflight PROVE TypeOK'
  OBVIOUS
<1> USE DEF TypeOK, HolderType
<1>1. CASE PreflightTake
  <2>1. Head(preflightQ) \in Ids /\ Tail(preflightQ) \in Seq(Ids)
    BY <1>1 DEF PreflightTake
  <2>2. preflight' \in HolderType(PreflightPcs)
        /\ (preflight'.task = NoId <=> preflight'.pc \in {"idle", "dead"})
    BY <1>1, <2>1 DEF PreflightTake, At, PreflightPcs, NoId, Ids
  <2> QED
    BY <1>1, <2>1, <2>2 DEF PreflightTake
<1>2. ASSUME NEW i \in Ids, NEW st \in TaskStatuses, NEW e \in Errors,
             NEW pc \in {"passed", "ended"}, PreflightCommits(i, st, e, pc)
      PROVE  TypeOK'
  <2>1. db' \in [Ids -> RowType]
    <3>1. SetStatus(db, i, st, e) \in DbType
      BY <1>2, SetStatusType DEF DbType
    <3>2. (pc = "passed" \/ SetStatus(db, i, st, e)[i].resolved) \in BOOLEAN
      BY <3>1 DEF DbType, RowType
    <3> QED
      BY <1>2, <3>1, <3>2, FlagType DEF PreflightCommits, DbType
  <2>2. preflight' \in HolderType(PreflightPcs)
        /\ (preflight'.task = NoId <=> preflight'.pc \in {"idle", "dead"})
    BY <1>2 DEF PreflightCommits, At, PreflightPcs, NoId, Ids
  <2> QED
    BY <1>2, <2>1, <2>2 DEF PreflightCommits
<1>3. ASSUME NEW i \in Ids, NEW pc \in {"pending", "raised"}, PreflightRollsBack(i, pc)
      PROVE  TypeOK'
  BY <1>3 DEF PreflightRollsBack, At, PreflightPcs, NoId, Ids
<1>4. ASSUME NEW i \in Ids, PreflightRun(i) PROVE TypeOK'
  <2>1. /\ "queued" \in TaskStatuses /\ "failed" \in TaskStatuses
        /\ SkipReasons \subseteq TaskStatuses
        /\ "none" \in Errors /\ "identity" \in Errors
    BY QueueAssumption DEF TaskStatuses, InFlightTaskStatuses, PendingTaskStatuses,
       TerminalTaskStatuses, FailedTaskStatuses, SuccessTaskStatuses, Errors, RetryCategories
  <2> QED
    BY <1>2, <1>3, <1>4, <2>1 DEF PreflightRun, PreflightPasses, PreflightFails,
       PreflightSkips, PreflightAwaitsNfo, PreflightRaises
<1>5. CASE PreflightReturns
  <2>1. CASE PreflightForwards
    <3>1. preflight.task \in Ids
      BY <2>1 DEF PreflightForwards, PreflightPcs, NoId
    <3>2. workQ' \in [Priorities -> Seq(Ids)]
      <4>1. PICK p \in PriorityOf(preflight.task) : Put(preflight.task, p)
        BY <2>1 DEF PreflightForwards
      <4>2. p \in Priorities
        BY DEF PriorityOf, Priorities
      <4> QED
        BY <3>1, <4>1, <4>2 DEF Put
    <3> QED
      BY <1>5, <2>1, <3>2 DEF PreflightReturns, PreflightForwards, Idle, At, PreflightPcs, NoId
  <2>2. CASE PreflightEnds
    <3>1. preflight.task \in Ids
      BY <2>2 DEF PreflightEnds, PreflightPcs, NoId
    <3>2. db' \in [Ids -> RowType] /\ preflightQ' \in Seq(Ids) /\ queuedIds' \subseteq Ids
      BY <2>2, <3>1, ScheduleType DEF PreflightEnds
    <3> QED
      BY <1>5, <2>2, <3>2 DEF PreflightReturns, PreflightEnds, Idle, At, PreflightPcs, NoId
  <2>3. CASE PreflightTriesAgain
    <3>1. preflight.task \in Ids
      BY <2>3 DEF PreflightTriesAgain, PreflightPcs, NoId
    <3>2. preflightQ' \in Seq(Ids) /\ queuedIds' \subseteq Ids
      <4>1. Append(preflightQ, preflight.task) \in Seq(Ids)
        BY <3>1
      <4> QED
        BY <2>3, <4>1 DEF PreflightTriesAgain
    <3> QED
      BY <1>5, <2>3, <3>2 DEF PreflightReturns, PreflightTriesAgain, Idle, At, PreflightPcs, NoId
  <2>4. CASE PreflightRecordsFailure
    <3>1. preflight.task \in Ids
      BY <2>4 DEF PreflightRecordsFailure, PreflightPcs, NoId
    <3>2. "failed" \in TaskStatuses /\ FailureErrors \subseteq Errors
      BY QueueAssumption DEF TaskStatuses, TerminalTaskStatuses, FailedTaskStatuses
    <3>3. db' \in [Ids -> RowType]
      BY <2>4, <3>1, <3>2, SetStatusType DEF PreflightRecordsFailure, DbType
    <3> QED
      BY <1>5, <2>4, <3>1, <3>3
         DEF PreflightReturns, PreflightRecordsFailure, Dead, At, PreflightPcs, NoId, Ids
  <2> QED
    BY <1>5, <2>1, <2>2, <2>3, <2>4 DEF PreflightReturns
<1> QED
  BY <1>1, <1>4, <1>5 DEF Preflight

LEMMA FailureTypes ==
    /\ "failed" \in TaskStatuses /\ "completed" \in TaskStatuses
    /\ FailureErrors \subseteq Errors /\ "none" \in Errors
    /\ Stages \subseteq TaskStatuses /\ SkipReasons \subseteq TaskStatuses
BY QueueAssumption DEF TaskStatuses, InFlightTaskStatuses, TerminalTaskStatuses,
   FailedTaskStatuses, SuccessTaskStatuses, Errors

LEMMA TypeWorker == TypeOK /\ Worker => TypeOK'
<1> SUFFICES ASSUME TypeOK, Worker PROVE TypeOK'
  OBVIOUS
<1> USE DEF TypeOK, HolderType
<1>1. CASE WorkerTake
  <2>1. PICK p \in Priorities :
          /\ workQ[p] # <<>>
          /\ workQ' = [workQ EXCEPT ![p] = Tail(@)]
          /\ queuedIds' = queuedIds \ {Head(workQ[p])}
          /\ worker' = IF db[Head(workQ[p])].status = "queued"
                       THEN At("run", Head(workQ[p])) ELSE Idle
    BY <1>1 DEF WorkerTake
  <2>2. workQ[p] \in Seq(Ids) /\ workQ[p] # <<>>
    BY <2>1
  <2>3. Head(workQ[p]) \in Ids /\ Tail(workQ[p]) \in Seq(Ids)
    BY <2>2
  <2>4. workQ' \in [Priorities -> Seq(Ids)]
    BY <2>1, <2>3
  <2>5. /\ worker' \in HolderType(WorkerPcs)
        /\ worker'.task = NoId <=> worker'.pc \in {"idle", "dead"}
    BY <2>1, <2>3 DEF At, Idle, WorkerPcs, NoId, Ids
  <2> QED
    BY <1>1, <2>1, <2>4, <2>5 DEF WorkerTake
<1>2. ASSUME NEW i \in Ids, NEW new \in [Ids -> RowType], NEW pc \in {"run", "done", "raised"},
             ProcessorStep(i, new, pc)
      PROVE  TypeOK'
  BY <1>2 DEF ProcessorStep, At, WorkerPcs, NoId, Ids
<1>3. ASSUME NEW i \in Ids, ProcessorCommits(i) \/ ProcessorReturns(i) PROVE TypeOK'
  <2>1. \A s \in TaskStatuses, e \in Errors : SetStatus(db, i, s, e) \in [Ids -> RowType]
    BY SetStatusType DEF DbType
  <2>2. CASE ProcessorCommits(i)
    <3>1. PICK s \in Stages :
            ProcessorStep(i, [SetStatus(db, i, s, "none") EXCEPT ![i].resolved = TRUE], "run")
      BY <2>2 DEF ProcessorCommits
    <3>2. [SetStatus(db, i, s, "none") EXCEPT ![i].resolved = TRUE] \in [Ids -> RowType]
      BY <2>1, FailureTypes, FlagType DEF DbType
    <3> QED
      BY <1>2, <3>1, <3>2
  <2>3. CASE ProcessorReturns(i)
    BY <1>2, <2>1, <2>3, FailureTypes DEF ProcessorReturns, ProcessorCompletes, ProcessorFails,
       ProcessorSkips, ProcessorRaises
  <2> QED
    BY <1>3, <2>2, <2>3
<1>4. CASE WorkerSchedules
  <2>1. worker.task \in Ids
    BY <1>4 DEF WorkerSchedules, WorkerPcs, NoId
  <2>2. db' \in [Ids -> RowType] /\ preflightQ' \in Seq(Ids) /\ queuedIds' \subseteq Ids
    BY <1>4, <2>1, ScheduleType DEF WorkerSchedules
  <2> QED
    BY <1>4, <2>2 DEF WorkerSchedules, Idle, At, WorkerPcs, NoId
<1>5. CASE WorkerRecordsFailure
  <2>1. worker.task \in Ids
    BY <1>5 DEF WorkerRecordsFailure, WorkerPcs, NoId
  <2>2. db' \in [Ids -> RowType]
    BY <1>5, <2>1, FailureTypes, SetStatusType DEF WorkerRecordsFailure, DbType
  <2>3. worker' \in {At("done", worker.task), Dead}
    BY <1>5 DEF WorkerRecordsFailure, At
  <2>4. /\ worker' \in HolderType(WorkerPcs)
        /\ worker'.task = NoId <=> worker'.pc \in {"idle", "dead"}
    BY <2>1, <2>3 DEF Dead, At, WorkerPcs, NoId, Ids
  <2> QED
    BY <1>5, <2>2, <2>4 DEF WorkerRecordsFailure
<1> QED
  BY <1>1, <1>3, <1>4, <1>5 DEF Worker

LEMMA TypeRetryWait == TypeOK /\ (RetryWait \/ Time) => TypeOK'
<1> SUFFICES ASSUME TypeOK, RetryWait \/ Time PROVE TypeOK'
  OBVIOUS
<1> USE DEF TypeOK
<1>1. ASSUME NEW i \in Ids, ActivateRetry(i) PROVE TypeOK'
  <2>1. db' \in [Ids -> RowType]
    BY <1>1, ActivateType DEF ActivateRetry, DbType
  <2>2. preflightQ' \in Seq(Ids) /\ queuedIds' \subseteq Ids
    BY <1>1, EnqueueType DEF ActivateRetry
  <2> QED
    BY <1>1, <2>1, <2>2 DEF ActivateRetry
<1>2. CASE RetryPoll
  BY <1>2 DEF RetryPoll, vars, memory
<1>3. ASSUME NEW i \in Ids, RetryComesDue(i) \/ NfoWindowCloses(i) PROVE TypeOK'
  <2>1. /\ [db EXCEPT ![i].due = TRUE] \in [Ids -> RowType]
        /\ [db EXCEPT ![i].nfoOpen = FALSE] \in [Ids -> RowType]
    BY FlagType DEF DbType
  <2> QED
    BY <1>3, <2>1 DEF RetryComesDue, NfoWindowCloses, memory
<1> QED
  BY <1>1, <1>2, <1>3 DEF RetryWait, Time

LEMMA ApiType ==
    ASSUME TypeOK, NEW new \in DbType, NEW created \in SUBSET Ids,
           NEW cost \in {"adds", "retries", "deletes"}, ApiCommits(new, created, cost)
    PROVE  TypeOK'
<1>1. budget' \in [{"adds", "retries", "deletes", "crashes", "stops"} -> Nat]
  BY DEF ApiCommits, Spend, TypeOK
<1> QED
  BY <1>1 DEF ApiCommits, TypeOK, DbType

LEMMA InsertIsTyped ==
    ASSUME NEW d \in DbType, NEW i \in Ids, NEW r \in RowType, NEW created \in SUBSET Ids,
           NEW cost \in {"adds", "retries", "deletes"}, TypeOK,
           ApiCommits([d EXCEPT ![i] = r], created, cost)
    PROVE  TypeOK'
<1>1. [d EXCEPT ![i] = r] \in DbType
  BY InsertType
<1> QED
  BY <1>1, ApiType

LEMMA TypeApi == TypeOK /\ Api => TypeOK'
<1> SUFFICES ASSUME TypeOK, Api PROVE TypeOK'
  OBVIOUS
<1>db. db \in DbType
  BY DEF TypeOK, DbType
<1>1. ASSUME NEW path \in Paths, NEW source \in JobSources, AddJob(path, source)
      PROVE  TypeOK'
  <2>1. PICK i \in Ids :
          ApiCommits([db EXCEPT ![i] = NewRow("queued", path, source, 0, NoId,
                                              source = "moviepilot-csf")], {i}, "adds")
    BY <1>1 DEF AddJob
  <2>2. NewRow("queued", path, source, 0, NoId, source = "moviepilot-csf") \in RowType
    <3>1. /\ source \in EntrySources \cup RetrySources
          /\ "queued" \in TaskStatuses \cup {"absent"}
          /\ 0 \in 0..MaxAutoRetries /\ NoId \in Ids \cup {NoId}
          /\ (source = "moviepilot-csf") \in BOOLEAN
      BY QueueAssumption, MaxAutoRetriesAssumption
         DEF TaskStatuses, InFlightTaskStatuses, PendingTaskStatuses
    <3> QED
      BY <3>1, NewRowType
  <2> QED
    BY <1>db, <2>1, <2>2, InsertIsTyped
<1>2. ASSUME NEW o \in Ids, RetryTask(o) PROVE TypeOK'
  <2>1. PICK i \in Ids :
          \/ ApiCommits([db EXCEPT ![i] = ManualRetryChild(o)], {i}, "retries")
          \/ ApiCommits([CancelPendingAutoRetries(db, db[o].path, o)
                           EXCEPT ![i] = ManualRetryChild(o)], {i}, "retries")
    BY <1>2 DEF RetryTask
  <2>2. ManualRetryChild(o) \in RowType
    <3>1. /\ db[o] \in RowType /\ "manual-retry" \in RetrySources
          /\ "queued" \in TaskStatuses /\ 0 \in 0..MaxAutoRetries
      BY <1>db, MaxAutoRetriesAssumption
         DEF DbType, RetrySources, TaskStatuses, InFlightTaskStatuses, PendingTaskStatuses
    <3> QED
      BY <3>1, RetryChildType DEF ManualRetryChild
  <2>3. CancelPendingAutoRetries(db, db[o].path, o) \in DbType
    BY <1>db, CancelType
  <2> QED
    BY <1>db, <2>1, <2>2, <2>3, InsertIsTyped
<1>3. ASSUME NEW i \in Ids, DeleteTask(i) PROVE TypeOK'
  BY <1>db, <1>3, NoRowType, InsertType, ApiType DEF DeleteTask
<1>4. ASSUME NEW i \in Ids, ApiEnqueue(i) PROVE TypeOK'
  <2>1. preflightQ' \in Seq(Ids) /\ queuedIds' \subseteq Ids
    BY <1>4, EnqueueType DEF ApiEnqueue, TypeOK
  <2> QED
    BY <1>4, <2>1 DEF ApiEnqueue, TypeOK
<1>5. CASE DeleteAllTasks
  <2>1. [i \in Ids |-> NoRow] \in DbType
    BY NoRowType DEF DbType
  <2> QED
    BY <1>5, <2>1, ApiType DEF DeleteAllTasks
<1> QED
  BY <1>1, <1>2, <1>3, <1>4, <1>5 DEF Api

LEMMA MemoryType ==
    ASSUME EmptyMemory
    PROVE  /\ preflightQ' = <<>> /\ queuedIds' = {} /\ apiPending' = {}
           /\ workQ' \in [Priorities -> Seq(Ids)]
           /\ preflight' \in HolderType(PreflightPcs)
           /\ worker' \in HolderType(WorkerPcs)
           /\ preflight'.task = NoId <=> preflight'.pc \in {"idle", "dead"}
           /\ worker'.task = NoId <=> worker'.pc \in {"idle", "dead"}
BY DEF EmptyMemory, EmptyLanes, Idle, At, HolderType, PreflightPcs, WorkerPcs

LEMMA SpendType ==
    ASSUME TypeOK, NEW what \in {"adds", "retries", "deletes", "crashes", "stops"}, Spend(what)
    PROVE  budget' \in [{"adds", "retries", "deletes", "crashes", "stops"} -> Nat]
BY DEF TypeOK, Spend

LEMMA RecoverType ==
    ASSUME TypeOK, Recover
    PROVE  /\ db' \in [Ids -> RowType]
           /\ preflightQ' \in Seq(Ids)
           /\ queuedIds' \subseteq Ids
<1> DEFINE active == WithStatus(db, ActiveTaskStatuses)
           settled == Activate(MarkActiveInterrupted(db), DueRetries(db))
<1>1. settled \in DbType
  BY MarkType, ActivateType DEF TypeOK, DbType
<1>2. db' \in DbType
  <2>1. CASE db' = settled
    BY <1>1, <2>1
  <2>2. CASE \E i \in active, child \in Ids \cup {NoId} :
               CreateAutoRetryChild(settled, i, db', child)
    <3>1. active \subseteq Ids
      BY DEF WithStatus
    <3> HIDE DEF active, settled
    <3> QED
      BY <1>1, <2>2, <3>1, CreateAutoRetryChildType
  <2> QED
    BY <2>1, <2>2 DEF Recover
<1>3. WithStatus(db', {"queued"}) \subseteq Ids
  BY DEF WithStatus
<1>4. preflightQ' \in Seq(Ids)
  <2> DEFINE queued == WithStatus(db', {"queued"})
  <2>1. preflightQ' \in [1..Cardinality(queued) -> queued]
    BY DEF Recover, RecoveryOrders
  <2>2. IsFiniteSet(queued)
    <3>1. MaxTaskId \in Int /\ 1 \in Int
      BY IdsAssumption
    <3>2. IsFiniteSet(Ids)
      BY <3>1, FS_Interval DEF Ids
    <3> QED
      BY <1>3, <3>2, FS_Subset
  <2>3. Cardinality(queued) \in Nat
    BY <2>2, FS_CardinalityType
  <2> HIDE DEF queued
  <2> QED
    BY <1>3, <2>1, <2>3 DEF queued
<1> QED
  BY <1>2, <1>3, <1>4 DEF Recover, DbType

LEMMA TypeProcess == TypeOK /\ Process => TypeOK'
<1> SUFFICES ASSUME TypeOK, Process PROVE TypeOK'
  OBVIOUS
<1>1. CASE Crash
  BY <1>1, MemoryType, SpendType DEF Crash, TypeOK
<1>2. CASE Stop
  BY <1>2, SpendType DEF Stop, TypeOK, memory
<1>3. CASE StopCompletes
  BY <1>3, MemoryType DEF StopCompletes, TypeOK
<1>4. CASE Start
  BY <1>4, RecoverType DEF Start, TypeOK
<1> QED
  BY <1>1, <1>2, <1>3, <1>4 DEF Process

(* Whatever happens to it, the service keeps the types of its state. *)
THEOREM TypeCorrect == Spec => []TypeOK
<1>1. TypeOK /\ [Next]_vars => TypeOK'
  <2>1. TypeOK /\ UNCHANGED vars => TypeOK'
    BY DEF TypeOK, vars, memory
  <2> QED
    BY <2>1, TypePreflight, TypeWorker, TypeRetryWait, TypeApi, TypeProcess DEF Next
<1> QED
  BY <1>1, TypeInit, PTL DEF Spec

-----------------------------------------------------------------------------
(***************************************************************************)
(* An active task is the running one, and the queue keeps to the lifecycle *)
(* of TaskLifecycle.                                                       *)
(*                                                                         *)
(* The argument is about who changes a status.  What is done to a task     *)
(* that no runner has is always a move of Settles; the two threads write   *)
(* the status of the task they hold; and what a start does to the tasks    *)
(* that a dead process left behind happens when nothing runs.              *)
(***************************************************************************)

\* The moves made without a runner.
Settles(s, t) ==
    \/ t \in {s, "absent"}
    \/ s = "absent" /\ t \in PendingTaskStatuses
    \/ s = "retry_wait" /\ t = "queued"
    \/ s \in PendingTaskStatuses /\ t = "skipped_existing_subtitle"

Unattended(d, e) == \A j \in Ids : Settles(d[j].status, e[j].status)

-----------------------------------------------------------------------------
(* The operations on the table that need no runner.                        *)

LEMMA CancelSettles ==
    ASSUME NEW d \in DbType, NEW p, NEW x
    PROVE  Unattended(d, CancelPendingAutoRetries(d, p, x))
<1> SUFFICES ASSUME NEW j \in Ids
             PROVE  Settles(d[j].status, CancelPendingAutoRetries(d, p, x)[j].status)
  BY DEF Unattended
<1>1. d[j] \in RowType
  BY DEF DbType
<1>2. CASE j \in PendingAutoRetries(d, p, x)
  <2>1. d[j].status \in PendingTaskStatuses
    BY <1>2 DEF PendingAutoRetries
  <2>2. CancelPendingAutoRetries(d, p, x)[j].status = "skipped_existing_subtitle"
    BY <1>1, <1>2 DEF CancelPendingAutoRetries, RowType
  <2> QED
    BY <2>1, <2>2 DEF Settles
<1>3. CASE j \notin PendingAutoRetries(d, p, x)
  BY <1>3 DEF CancelPendingAutoRetries, Settles
<1> QED
  BY <1>2, <1>3

LEMMA ActivateSettles ==
    ASSUME NEW d \in DbType, NEW S, \A j \in S : d[j].status = "retry_wait"
    PROVE  Unattended(d, Activate(d, S))
<1> SUFFICES ASSUME NEW j \in Ids
             PROVE  Settles(d[j].status, Activate(d, S)[j].status)
  BY DEF Unattended
<1>1. d[j] \in RowType
  BY DEF DbType
<1>2. CASE j \in S
  BY <1>1, <1>2 DEF Activate, RowType, Settles
<1>3. CASE j \notin S
  BY <1>3 DEF Activate, Settles
<1> QED
  BY <1>2, <1>3

\* The status of a task is left alone, or the task is new.
Adds(d, e) ==
    \A j \in Ids : \/ e[j].status = d[j].status
                   \/ ~Exists(d, j) /\ e[j].status \in PendingTaskStatuses

LEMMA AddsSettles ==
    ASSUME NEW d, NEW e, Adds(d, e)
    PROVE  Unattended(d, e)
BY DEF Adds, Unattended, Settles, Exists

LEMMA CreateAdds ==
    ASSUME NEW d \in DbType, NEW i \in Ids, NEW new, NEW child,
           CreateAutoRetryChild(d, i, new, child)
    PROVE  Adds(d, new)
<1> DEFINE marked == [d EXCEPT ![i].scheduled = TRUE]
<1>1. marked \in DbType /\ \A j \in Ids : marked[j].status = d[j].status
  BY MarkedRow
<1>2. CASE new = d
  BY <1>2 DEF Adds
<1>3. CASE new = marked
  BY <1>1, <1>3 DEF Adds
<1>4. CASE /\ child \in Ids /\ IsNextId(d, child)
           /\ RetryAllowed(d[i].status, d[i].error, d[i].count)
           /\ new = [marked EXCEPT ![child] = AutoRetryChild(i, d[i])]
  <2>1. ~Exists(d, child)
    BY <1>4 DEF IsNextId, Ids
  <2>2. AutoRetryChild(i, d[i]).status \in PendingTaskStatuses
    BY DEF AutoRetryChild, RetryChild, NewRow, PendingTaskStatuses
  <2>3. new[child].status \in PendingTaskStatuses
    BY <1>1, <1>4, <2>2 DEF DbType
  <2>4. \A j \in Ids : j # child => new[j].status = marked[j].status
    BY <1>1, <1>4 DEF DbType
  <2> QED
    BY <1>1, <2>1, <2>3, <2>4 DEF Adds
<1>5. \/ new = d \/ new = marked
      \/ /\ child \in Ids /\ IsNextId(d, child)
         /\ RetryAllowed(d[i].status, d[i].error, d[i].count)
         /\ new = [d EXCEPT ![i].scheduled = TRUE, ![child] = AutoRetryChild(i, d[i])]
  BY Zenon DEF CreateAutoRetryChild
<1> QED
  BY <1>2, <1>3, <1>4, <1>5

LEMMA ScheduleSettles ==
    ASSUME TypeOK, NEW i \in Ids, NEW T, ScheduleRetryAfterTerminal(i, T)
    PROVE  Unattended(db, db')
<1> USE DEF DbType
<1>1. db \in DbType
  BY DEF TypeOK
<1>2. CASE db' = CancelPendingAutoRetries(db, db[i].path, i)
  BY <1>1, <1>2, CancelSettles
<1>3. CASE \E child \in Ids \cup {NoId} : CreateAutoRetryChild(db, i, db', child)
  BY <1>1, <1>3, CreateAdds, AddsSettles
<1>4. CASE db' = db
  BY <1>4 DEF Unattended, Settles
<1> QED
  BY <1>2, <1>3, <1>4 DEF ScheduleRetryAfterTerminal

LEMMA ApiSettles ==
    ASSUME TypeOK, Api
    PROVE  Unattended(db, db')
<1>1. db \in DbType
  BY DEF TypeOK, DbType
<1>2. ASSUME NEW path \in Paths, NEW source \in JobSources, AddJob(path, source)
      PROVE  Unattended(db, db')
  <2>1. PICK i \in Ids :
          /\ IsNextId(db, i)
          /\ db' = [db EXCEPT ![i] = NewRow("queued", path, source, 0, NoId,
                                            source = "moviepilot-csf")]
    BY <1>2 DEF AddJob, ApiCommits
  <2>2. ~Exists(db, i)
    BY <2>1 DEF IsNextId, Ids
  <2>3. \A j \in Ids : j # i => db'[j] = db[j]
    BY <1>1, <2>1 DEF DbType
  <2>4. db'[i].status = "queued"
    BY <1>1, <2>1 DEF DbType, NewRow
  <2> QED
    BY <2>2, <2>3, <2>4 DEF Unattended, Settles, Exists, PendingTaskStatuses
<1>3. ASSUME NEW o \in Ids, RetryTask(o) PROVE Unattended(db, db')
  <2>1. PICK i \in Ids :
          /\ IsNextId(db, i)
          /\ \/ db' = [db EXCEPT ![i] = ManualRetryChild(o)]
             \/ db' = [CancelPendingAutoRetries(db, db[o].path, o)
                         EXCEPT ![i] = ManualRetryChild(o)]
    BY <1>3 DEF RetryTask, ApiCommits
  <2>2. ~Exists(db, i)
    BY <2>1 DEF IsNextId, Ids
  <2>3. ManualRetryChild(o).status = "queued"
    BY DEF ManualRetryChild, RetryChild, NewRow
  <2>4. CancelPendingAutoRetries(db, db[o].path, o) \in DbType
    BY <1>1, CancelType
  <2>5. db'[i].status = "queued"
    BY <1>1, <2>1, <2>3, <2>4 DEF DbType
  <2>6. ASSUME NEW j \in Ids, j # i PROVE Settles(db[j].status, db'[j].status)
    <3>1. db'[j] \in {db[j], CancelPendingAutoRetries(db, db[o].path, o)[j]}
      BY <1>1, <2>1, <2>4, <2>6 DEF DbType
    <3>2. Settles(db[j].status, CancelPendingAutoRetries(db, db[o].path, o)[j].status)
      BY <1>1, CancelSettles DEF Unattended
    <3> QED
      BY <3>1, <3>2 DEF Settles
  <2> QED
    BY <2>2, <2>5, <2>6 DEF Unattended, Settles, Exists, PendingTaskStatuses
<1>4. ASSUME NEW i \in Ids, DeleteTask(i) PROVE Unattended(db, db')
  BY <1>1, <1>4 DEF DeleteTask, ApiCommits, NoRow, NewRow, Unattended, Settles, DbType
<1>5. ASSUME NEW i \in Ids, ApiEnqueue(i) PROVE Unattended(db, db')
  BY <1>5 DEF ApiEnqueue, Unattended, Settles
<1>6. CASE DeleteAllTasks
  BY <1>6 DEF DeleteAllTasks, ApiCommits, NoRow, NewRow, Unattended, Settles
<1> QED
  BY <1>2, <1>3, <1>4, <1>5, <1>6, Zenon DEF Api

LEMMA WaitSettles ==
    ASSUME TypeOK, RetryWait \/ Time
    PROVE  Unattended(db, db')
<1>1. db \in DbType
  BY DEF TypeOK, DbType
<1>2. ASSUME NEW i \in Ids, ActivateRetry(i) PROVE Unattended(db, db')
  BY <1>1, <1>2, ActivateSettles DEF ActivateRetry, DueRetries
<1>3. CASE RetryPoll
  BY <1>3 DEF RetryPoll, vars, Unattended, Settles
<1>4. ASSUME NEW i \in Ids, RetryComesDue(i) \/ NfoWindowCloses(i)
      PROVE  Unattended(db, db')
  <2>1. \A j \in Ids : db[j] \in RowType
    BY <1>1 DEF DbType
  <2>2. \A j \in Ids : db'[j].status = db[j].status
    BY <1>1, <1>4, <2>1 DEF RetryComesDue, NfoWindowCloses, DbType, RowType
  <2> QED
    BY <2>2 DEF Unattended, Settles
<1> QED
  BY <1>2, <1>3, <1>4 DEF RetryWait, Time

-----------------------------------------------------------------------------
(* What the runners write.                                                 *)

LEMMA SetStatusStatus ==
    ASSUME NEW d \in DbType, NEW i \in Ids, NEW s, NEW e
    PROVE  /\ SetStatus(d, i, s, e)[i].status = s
           /\ \A j \in Ids : j # i => SetStatus(d, i, s, e)[j].status = d[j].status
BY DEF SetStatus, DbType, RowType

LEMMA FlagStatus ==
    ASSUME NEW d \in DbType, NEW i \in Ids, NEW b
    PROVE  \A j \in Ids : [d EXCEPT ![i].resolved = b][j].status = d[j].status
BY DEF DbType, RowType

\* A step that changes the status of no task but i, and that to s.
Writes(i, s) ==
    /\ Exists(db, i)
    /\ db'[i].status = s
    /\ \A j \in Ids : j # i => db'[j].status = db[j].status

LEMMA PreflightCommitWrites ==
    ASSUME TypeOK, NEW i \in Ids, NEW st \in TaskStatuses, NEW e \in Errors,
           NEW pc \in {"passed", "ended"}, PreflightCommits(i, st, e, pc)
    PROVE  Writes(i, st) /\ preflight = At("run", i) /\ preflight' = At(pc, i)
           /\ UNCHANGED <<worker, mode>>
<1>1. SetStatus(db, i, st, e) \in DbType /\ db \in DbType
  BY SetStatusType DEF TypeOK, DbType
<1>2. \A j \in Ids : db'[j].status = SetStatus(db, i, st, e)[j].status
  <2> DEFINE d == SetStatus(db, i, st, e)
  <2>1. db' = [d EXCEPT ![i].resolved = (pc = "passed") \/ d[i].resolved]
    BY DEF PreflightCommits
  <2> HIDE DEF d
  <2> QED
    BY <1>1, <2>1, FlagStatus DEF d
<1> QED
  BY <1>1, <1>2, SetStatusStatus DEF PreflightCommits, Writes

LEMMA PreflightWrites ==
    ASSUME TypeOK, NEW i \in Ids, PreflightRun(i)
    PROVE  /\ preflight = At("run", i) /\ UNCHANGED <<worker, mode>>
           /\ \E pc \in PreflightPcs : preflight' = At(pc, i)
           /\ \/ UNCHANGED db
              \/ \E s \in {"queued", "failed"} \cup SkipReasons : Writes(i, s)
<1>1. ASSUME NEW st \in TaskStatuses, NEW e \in Errors,
             NEW pc \in {"passed", "ended"}, PreflightCommits(i, st, e, pc)
      PROVE  Writes(i, st) /\ preflight = At("run", i) /\ preflight' = At(pc, i)
             /\ UNCHANGED <<worker, mode>>
  BY <1>1, PreflightCommitWrites
<1>2. ASSUME NEW pc \in {"pending", "raised"}, PreflightRollsBack(i, pc)
      PROVE  UNCHANGED db /\ preflight = At("run", i) /\ preflight' = At(pc, i)
             /\ UNCHANGED <<worker, mode>>
  BY <1>2 DEF PreflightRollsBack
<1>3. "queued" \in TaskStatuses /\ "identity" \in Errors
  BY DEF TaskStatuses, InFlightTaskStatuses, PendingTaskStatuses, Errors, RetryCategories
<1>4. {"passed", "ended", "pending", "raised"} \subseteq PreflightPcs
  BY DEF PreflightPcs
<1>5. CASE PreflightPasses(i)
  BY <1>1, <1>3, <1>4, <1>5, FailureTypes DEF PreflightPasses
<1>6. CASE PreflightFails(i)
  BY <1>1, <1>3, <1>4, <1>6, FailureTypes DEF PreflightFails
<1>7. CASE PreflightSkips(i)
  <2>1. PICK s \in SkipReasons : PreflightCommits(i, s, "none", "ended")
    BY <1>7 DEF PreflightSkips
  <2> QED
    BY <1>1, <1>4, <2>1, FailureTypes
<1>8. CASE PreflightAwaitsNfo(i) \/ PreflightRaises(i)
  BY <1>2, <1>4, <1>8 DEF PreflightAwaitsNfo, PreflightRaises
<1> QED
  BY <1>5, <1>6, <1>7, <1>8 DEF PreflightRun

LEMMA PreflightFailureWrites ==
    ASSUME TypeOK, PreflightRecordsFailure
    PROVE  /\ preflight.pc = "raised" /\ preflight.task \in Ids
           /\ \/ Writes(preflight.task, "failed") /\ preflight'.task = preflight.task
                 /\ preflight'.pc = "ended"
              \/ ~Exists(db, preflight.task) /\ UNCHANGED db /\ preflight' = Dead
<1>1. preflight.task \in Ids
  BY DEF PreflightRecordsFailure, TypeOK, HolderType, PreflightPcs, NoId
<1>2. CASE Exists(db, preflight.task)
  <2>1. PICK e \in FailureErrors : db' = SetStatus(db, preflight.task, "failed", e)
    BY <1>2 DEF PreflightRecordsFailure
  <2>2. Writes(preflight.task, "failed")
    BY <1>1, <1>2, <2>1, SetStatusStatus DEF Writes, TypeOK, DbType
  <2>3. preflight'.task = preflight.task /\ preflight'.pc = "ended"
    BY <1>2 DEF PreflightRecordsFailure, TypeOK, HolderType
  <2> QED
    BY <1>1, <2>2, <2>3 DEF PreflightRecordsFailure
<1>3. CASE ~Exists(db, preflight.task)
  BY <1>1, <1>3 DEF PreflightRecordsFailure
<1> QED
  BY <1>2, <1>3

LEMMA ProcessorWrites ==
    ASSUME TypeOK, NEW i \in Ids, ProcessorCommits(i) \/ ProcessorReturns(i)
    PROVE  /\ worker = At("run", i) /\ UNCHANGED <<preflight, mode>>
           /\ \/ UNCHANGED db /\ worker' = At("raised", i)
              \/ worker' = At("run", i) /\ \E s \in Stages : Writes(i, s)
              \/ worker' = At("done", i)
                 /\ \E s \in {"completed", "failed"} \cup SkipReasons : Writes(i, s)
<1>1. db \in DbType
  BY DEF TypeOK, DbType
<1>2. ASSUME NEW s \in TaskStatuses, NEW e \in Errors, NEW pc, Exists(db, i),
             ProcessorStep(i, SetStatus(db, i, s, e), pc)
      PROVE  Writes(i, s) /\ worker' = At(pc, i) /\ worker = At("run", i)
             /\ UNCHANGED <<preflight, mode>>
  BY <1>1, <1>2, SetStatusStatus DEF ProcessorStep, Writes
<1>3. CASE ProcessorCommits(i)
  <2>1. PICK s \in Stages :
          ProcessorStep(i, [SetStatus(db, i, s, "none") EXCEPT ![i].resolved = TRUE], "run")
    BY <1>3 DEF ProcessorCommits
  <2>2. SetStatus(db, i, s, "none") \in DbType
    BY <1>1, FailureTypes, SetStatusType
  <2>3. \A j \in Ids : db'[j].status = SetStatus(db, i, s, "none")[j].status
    BY <2>1, <2>2, FlagStatus DEF ProcessorStep
  <2>4. Writes(i, s)
    BY <1>1, <1>3, <2>3, SetStatusStatus DEF Writes, ProcessorCommits
  <2> QED
    BY <2>1, <2>4 DEF ProcessorStep
<1>4. CASE ProcessorCompletes(i)
  BY <1>2, <1>4, FailureTypes DEF ProcessorCompletes
<1>5. CASE ProcessorFails(i)
  BY <1>2, <1>5, FailureTypes DEF ProcessorFails
<1>6. CASE ProcessorSkips(i)
  BY <1>2, <1>6, FailureTypes DEF ProcessorSkips
<1>7. CASE ProcessorRaises(i)
  BY <1>7 DEF ProcessorRaises, ProcessorStep
<1> QED
  BY <1>3, <1>4, <1>5, <1>6, <1>7 DEF ProcessorReturns

LEMMA WorkerFailureWrites ==
    ASSUME TypeOK, WorkerRecordsFailure
    PROVE  /\ worker.pc = "raised" /\ worker.task \in Ids /\ UNCHANGED <<preflight, mode>>
           /\ \/ Writes(worker.task, "failed") /\ worker'.pc = "done"
              \/ ~Exists(db, worker.task) /\ UNCHANGED db /\ worker' = Dead
<1>1. worker.task \in Ids
  BY DEF WorkerRecordsFailure, TypeOK, HolderType, WorkerPcs, NoId
<1>2. CASE Exists(db, worker.task)
  <2>1. PICK e \in FailureErrors : db' = SetStatus(db, worker.task, "failed", e)
    BY <1>2 DEF WorkerRecordsFailure
  <2>2. Writes(worker.task, "failed")
    BY <1>1, <1>2, <2>1, SetStatusStatus DEF Writes, TypeOK, DbType
  <2>3. worker'.pc = "done"
    BY <1>2 DEF WorkerRecordsFailure, TypeOK, HolderType
  <2> QED
    BY <1>1, <2>2, <2>3 DEF WorkerRecordsFailure
<1>3. CASE ~Exists(db, worker.task)
  BY <1>1, <1>3 DEF WorkerRecordsFailure
<1> QED
  BY <1>2, <1>3

-----------------------------------------------------------------------------
(* Starting.                                                               *)

\* What recover() may do to a task: nothing runs.
Recovers(s, t) ==
    \/ Settles(s, t)
    \/ s \in ActiveTaskStatuses /\ t = "interrupted"

LEMMA RecoverSettles ==
    ASSUME TypeOK, Recover
    PROVE  \A j \in Ids : /\ Recovers(db[j].status, db'[j].status)
                          /\ db'[j].status \notin ActiveTaskStatuses
<1> DEFINE active == WithStatus(db, ActiveTaskStatuses)
           marked == MarkActiveInterrupted(db)
           settled == Activate(marked, DueRetries(db))
<1>1. db \in DbType /\ marked \in DbType /\ settled \in DbType
  BY MarkType, ActivateType DEF TypeOK, DbType
<1>2. ASSUME NEW j \in Ids
      PROVE  \/ db[j].status \in ActiveTaskStatuses /\ marked[j].status = "interrupted"
             \/ db[j].status \notin ActiveTaskStatuses /\ marked[j] = db[j]
  <2>1. db[j] \in RowType
    BY <1>1 DEF DbType
  <2> QED
    BY <2>1 DEF MarkActiveInterrupted, RowType
<1>3. ASSUME NEW j \in Ids
      PROVE  /\ Recovers(db[j].status, settled[j].status)
             /\ settled[j].status \notin ActiveTaskStatuses
             /\ ~Exists(settled, j) => ~Exists(db, j)
  <2>1. \A k \in DueRetries(db) : marked[k].status = "retry_wait"
    BY <1>2 DEF DueRetries, ActiveTaskStatuses
  <2>2. settled[j].status = IF j \in DueRetries(db) THEN "queued" ELSE marked[j].status
    BY <1>1 DEF Activate, DbType, RowType
  <2>3. CASE db[j].status \in ActiveTaskStatuses /\ marked[j].status = "interrupted"
    <3> HIDE DEF marked, settled
    <3> QED
      BY <2>1, <2>2, <2>3 DEF Recovers, ActiveTaskStatuses, Exists
  <2>4. CASE db[j].status \notin ActiveTaskStatuses /\ marked[j] = db[j]
    <3> HIDE DEF marked, settled
    <3> QED
      BY <2>1, <2>2, <2>4 DEF Recovers, Settles, ActiveTaskStatuses, Exists
  <2> QED
    BY <1>2, <2>3, <2>4
<1>4. Adds(settled, db')
  <2>1. CASE db' = settled
    BY <2>1 DEF Adds
  <2>2. CASE \E i \in active, child \in Ids \cup {NoId} :
               CreateAutoRetryChild(settled, i, db', child)
    <3>1. active \subseteq Ids
      BY DEF WithStatus
    <3> HIDE DEF active, settled
    <3> QED
      BY <1>1, <2>2, <3>1, CreateAdds
  <2> QED
    BY <2>1, <2>2 DEF Recover
<1> HIDE DEF marked, settled, active
<1> QED
  BY <1>3, <1>4 DEF Adds, Exists, Recovers, Settles, ActiveTaskStatuses, PendingTaskStatuses

-----------------------------------------------------------------------------
(* An active task is the running one.                                      *)

LEMMA HeldKept ==
    ASSUME ActiveIsHeld,
           \A j \in Ids : db'[j].status \in ActiveTaskStatuses
                            => db[j].status \in ActiveTaskStatuses,
           mode' # "down" => mode # "down" /\ worker' = worker
    PROVE  ActiveIsHeld'
BY DEF ActiveIsHeld, WithStatus

LEMMA SettledKept ==
    ASSUME Unattended(db, db'), NEW j \in Ids, db'[j].status \in ActiveTaskStatuses
    PROVE  db[j].status \in ActiveTaskStatuses
BY DEF Unattended, Settles, ActiveTaskStatuses, PendingTaskStatuses

LEMMA EndsInactive ==
    ({"queued", "failed", "completed", "absent"} \cup SkipReasons) \cap ActiveTaskStatuses = {}
BY QueueAssumption DEF ActiveTaskStatuses, SkippedTaskStatuses

LEMMA HeldStep == TypeOK /\ ActiveIsHeld /\ [Next]_vars => ActiveIsHeld'
<1> SUFFICES ASSUME TypeOK, ActiveIsHeld, [Next]_vars PROVE ActiveIsHeld'
  OBVIOUS
<1>1. CASE Preflight
  <2>1. CASE PreflightTake
    BY <2>1, HeldKept DEF PreflightTake
  <2>2. ASSUME NEW i \in Ids, PreflightRun(i) PROVE ActiveIsHeld'
    BY <2>2, PreflightWrites, EndsInactive, HeldKept DEF Writes
  <2>3. CASE PreflightReturns
    <3>1. UNCHANGED <<worker, mode>> /\ mode # "down"
      BY <2>3 DEF PreflightReturns
    <3>2. CASE PreflightForwards \/ PreflightTriesAgain
      BY <3>1, <3>2, HeldKept DEF PreflightForwards, PreflightTriesAgain
    <3>3. CASE PreflightEnds
      <4>1. preflight.task \in Ids
        BY <3>3 DEF PreflightEnds, TypeOK, HolderType, PreflightPcs, NoId
      <4> QED
        BY <3>1, <3>3, <4>1, ScheduleSettles, SettledKept, HeldKept DEF PreflightEnds
    <3>4. CASE PreflightRecordsFailure
      BY <3>1, <3>4, PreflightFailureWrites, EndsInactive, HeldKept DEF Writes
    <3> QED
      BY <2>3, <3>2, <3>3, <3>4 DEF PreflightReturns
  <2> QED
    BY <1>1, <2>1, <2>2, <2>3 DEF Preflight
<1>2. CASE Worker
  <2>1. CASE WorkerTake
    <3>1. db' = db /\ mode # "down" /\ worker.pc = "idle"
      BY <2>1 DEF WorkerTake
    <3>2. RecoverOnStart => WithStatus(db, ActiveTaskStatuses) = {}
      BY <3>1 DEF ActiveIsHeld
    <3> QED
      BY <3>1, <3>2 DEF ActiveIsHeld, WithStatus
  <2>2. ASSUME NEW i \in Ids, ProcessorCommits(i) \/ ProcessorReturns(i)
        PROVE  ActiveIsHeld'
    <3>1. /\ worker = At("run", i) /\ mode' = mode
          /\ \/ db' = db /\ worker' = At("raised", i)
             \/ worker' = At("run", i) /\ \E s \in Stages : Writes(i, s)
             \/ worker' = At("done", i)
                /\ \E s \in {"completed", "failed"} \cup SkipReasons : Writes(i, s)
      BY <2>2, ProcessorWrites
    <3>2. mode # "down"
      BY <2>2 DEF ProcessorCommits, ProcessorReturns, ProcessorCompletes, ProcessorFails,
         ProcessorSkips, ProcessorRaises, ProcessorStep
    <3>3. RecoverOnStart => WithStatus(db, ActiveTaskStatuses) \subseteq {i}
      BY <3>1, <3>2 DEF ActiveIsHeld, At
    <3>4. CASE db' = db /\ worker' = At("raised", i)
      BY <3>1, <3>3, <3>4 DEF ActiveIsHeld, WithStatus, At
    <3>5. CASE worker' = At("run", i) /\ \E s \in Stages : Writes(i, s)
      BY <3>1, <3>3, <3>5 DEF ActiveIsHeld, WithStatus, Writes, At
    <3>6. CASE \E s \in {"completed", "failed"} \cup SkipReasons : Writes(i, s)
      BY <3>1, <3>3, <3>6, EndsInactive DEF ActiveIsHeld, WithStatus, Writes
    <3> QED
      BY <3>1, <3>4, <3>5, <3>6
  <2>3. CASE WorkerSchedules
    <3>1. worker.task \in Ids /\ worker.pc = "done" /\ mode # "down"
      BY <2>3 DEF WorkerSchedules, TypeOK, HolderType, WorkerPcs, NoId
    <3>2. RecoverOnStart => WithStatus(db, ActiveTaskStatuses) = {}
      BY <3>1 DEF ActiveIsHeld
    <3>3. Unattended(db, db')
      BY <2>3, <3>1, ScheduleSettles DEF WorkerSchedules
    <3> QED
      BY <3>2, <3>3, SettledKept DEF ActiveIsHeld, WithStatus
  <2>4. CASE WorkerRecordsFailure
    <3>1. mode # "down"
      BY <2>4 DEF WorkerRecordsFailure
    <3>2. RecoverOnStart => WithStatus(db, ActiveTaskStatuses) \subseteq {worker.task}
      BY <3>1 DEF ActiveIsHeld
    <3>3. \A j \in Ids : db'[j].status \in ActiveTaskStatuses =>
                           db[j].status \in ActiveTaskStatuses /\ j # worker.task
      BY <2>4, WorkerFailureWrites, EndsInactive DEF Writes, Exists
    <3> QED
      BY <3>2, <3>3 DEF ActiveIsHeld, WithStatus
  <2> QED
    BY <1>2, <2>1, <2>2, <2>3, <2>4 DEF Worker
<1>3. CASE RetryWait \/ Time
  <2>1. worker' = worker /\ mode' = mode
    BY <1>3 DEF RetryWait, Time, RetryPoll, ActivateRetry, RetryComesDue,
       NfoWindowCloses, vars, memory
  <2> QED
    BY <1>3, <2>1, WaitSettles, SettledKept, HeldKept
<1>4. CASE Api
  <2>1. worker' = worker /\ mode' = mode
    BY <1>4 DEF Api, AddJob, RetryTask, DeleteTask, DeleteAllTasks, ApiEnqueue, ApiCommits
  <2> QED
    BY <1>4, <2>1, ApiSettles, SettledKept, HeldKept
<1>5. CASE Process
  <2>1. CASE Crash \/ StopCompletes
    BY <2>1, HeldKept DEF Crash, StopCompletes
  <2>2. CASE Stop
    BY <2>2, HeldKept DEF Stop, memory
  <2>3. CASE Start
    BY <2>3, RecoverSettles DEF Start, ActiveIsHeld, WithStatus
  <2> QED
    BY <1>5, <2>1, <2>2, <2>3 DEF Process
<1>6. CASE UNCHANGED vars
  BY <1>6, HeldKept DEF vars, memory
<1> QED
  BY <1>1, <1>2, <1>3, <1>4, <1>5, <1>6 DEF Next

(* Only the task that the processing worker runs is ever in an active      *)
(* stage while the process is up, and at most one when it is not.          *)
THEOREM ActiveTaskIsRunning == Spec => []ActiveIsHeld
<1>1. Init => ActiveIsHeld
  BY DEF Init, ActiveIsHeld, WithStatus, NoRow, NewRow, ActiveTaskStatuses
<1> QED
  BY <1>1, HeldStep, TypeCorrect, PTL DEF Spec

-----------------------------------------------------------------------------
(* The queue implements the lifecycle.                                     *)

\* A process that is down runs nothing.
DownIsIdle == mode = "down" => preflight = Idle /\ worker = Idle

LEMMA DownStep == TypeOK /\ DownIsIdle /\ [Next]_vars => DownIsIdle'
<1> SUFFICES ASSUME TypeOK, DownIsIdle, [Next]_vars PROVE DownIsIdle'
  OBVIOUS
<1>1. CASE Preflight
  <2>1. mode' = mode /\ mode # "down"
    BY <1>1 DEF Preflight, PreflightTake, PreflightReturns, PreflightRun, PreflightPasses,
       PreflightFails, PreflightSkips, PreflightAwaitsNfo, PreflightRaises, PreflightCommits,
       PreflightRollsBack
  <2> QED
    BY <2>1 DEF DownIsIdle
<1>2. CASE Worker
  <2>1. mode' = mode /\ mode # "down"
    BY <1>2 DEF Worker, WorkerTake, WorkerSchedules, WorkerRecordsFailure, ProcessorCommits,
       ProcessorReturns, ProcessorCompletes, ProcessorFails, ProcessorSkips, ProcessorRaises,
       ProcessorStep
  <2> QED
    BY <2>1 DEF DownIsIdle
<1>3. CASE RetryWait \/ Time
  BY <1>3 DEF DownIsIdle, RetryWait, Time, RetryPoll, ActivateRetry, RetryComesDue,
     NfoWindowCloses, vars, memory
<1>4. CASE Api
  BY <1>4 DEF DownIsIdle, Api, AddJob, RetryTask, DeleteTask, DeleteAllTasks, ApiEnqueue,
     ApiCommits
<1>5. CASE Process
  BY <1>5 DEF DownIsIdle, Process, Crash, Stop, StopCompletes, Start, EmptyMemory, memory
<1>6. CASE UNCHANGED vars
  BY <1>6 DEF DownIsIdle, vars, memory
<1> QED
  BY <1>1, <1>2, <1>3, <1>4, <1>5, <1>6 DEF Next

\* The two modules speak of the same statuses.
LEMMA Vocabulary ==
    /\ Lifecycle!PendingTaskStatuses = PendingTaskStatuses
    /\ Lifecycle!ActiveTaskStatuses = ActiveTaskStatuses
    /\ Lifecycle!TaskStatuses = TaskStatuses
BY DEF Lifecycle!PendingTaskStatuses, PendingTaskStatuses, Lifecycle!ActiveTaskStatuses,
   ActiveTaskStatuses, Lifecycle!TaskStatuses, TaskStatuses, Lifecycle!InFlightTaskStatuses,
   InFlightTaskStatuses, Lifecycle!TerminalTaskStatuses, TerminalTaskStatuses,
   Lifecycle!SuccessTaskStatuses, SuccessTaskStatuses, Lifecycle!FailedTaskStatuses,
   FailedTaskStatuses, Lifecycle!SkippedTaskStatuses, SkippedTaskStatuses

LEMMA SettlesIsLawful ==
    ASSUME NEW i \in Ids, Settles(db[i].status, db'[i].status), db'[i].status # db[i].status
    PROVE  Lifecycle!MayChange(i)
BY Vocabulary DEF Settles, Lifecycle!MayChange, Lifecycle!Created, Lifecycle!Deleted,
   Lifecycle!Activated, Lifecycle!Cancelled

LEMMA WritesIsLawful ==
    ASSUME NEW i \in Taken, NEW s \in TaskStatuses \ {"retry_wait"}, Writes(i, s),
           NEW j \in Ids, db'[j].status # db[j].status
    PROVE  Lifecycle!MayChange(j)
<1>1. j = i
  BY DEF Writes
<1>2. i \in Ids
  BY DEF Taken
<1> QED
  BY <1>1, <1>2, Vocabulary DEF Writes, Exists, Lifecycle!MayChange, Lifecycle!WrittenByRunner

LEMMA EndsLawful ==
    {"queued", "failed", "completed"} \cup SkipReasons \cup Stages \subseteq TaskStatuses \ {"retry_wait"}
BY QueueAssumption DEF TaskStatuses, InFlightTaskStatuses, TerminalTaskStatuses,
   FailedTaskStatuses, SuccessTaskStatuses, SkippedTaskStatuses, PendingTaskStatuses,
   ActiveTaskStatuses

\* What a step does to the tasks' statuses, and what it gives to a runner.
LawfulStep ==
    /\ \A i \in Ids : db'[i].status # db[i].status => Lifecycle!MayChange(i)
    /\ \A i \in Taken' : i \notin Taken => db[i].status = "queued"

LEMMA StepIsLawful ==
    ASSUME TypeOK, DownIsIdle, [Next]_vars
    PROVE  LawfulStep
<1>1. CASE Preflight
  <2>1. CASE PreflightTake
    BY <2>1 DEF PreflightTake, LawfulStep, Taken, At
  <2>2. ASSUME NEW i \in Ids, PreflightRun(i) PROVE LawfulStep
    <3>1. i \in Taken /\ Taken' \subseteq Taken
      BY <2>2, PreflightWrites DEF Taken, At
    <3> QED
      BY <2>2, <3>1, PreflightWrites, WritesIsLawful, EndsLawful DEF LawfulStep
  <2>3. CASE PreflightReturns
    <3>1. UNCHANGED <<worker, mode>>
      BY <2>3 DEF PreflightReturns
    <3>2. CASE PreflightForwards \/ PreflightTriesAgain
      BY <3>1, <3>2 DEF PreflightForwards, PreflightTriesAgain, LawfulStep, Taken, Idle, At
    <3>3. CASE PreflightEnds
      <4>1. preflight.task \in Ids
        BY <3>3 DEF PreflightEnds, TypeOK, HolderType, PreflightPcs, NoId
      <4>2. Taken' \subseteq Taken
        BY <3>1, <3>3 DEF PreflightEnds, Taken, Idle, At
      <4> QED
        BY <3>3, <4>1, <4>2, ScheduleSettles, SettlesIsLawful DEF Unattended, PreflightEnds, LawfulStep
    <3>4. CASE PreflightRecordsFailure
      <4>1. preflight.task \in Taken /\ Taken' \subseteq Taken
        BY <3>1, <3>4, PreflightFailureWrites DEF Taken, Dead, At
      <4> QED
        BY <3>4, <4>1, PreflightFailureWrites, WritesIsLawful, EndsLawful DEF LawfulStep
    <3> QED
      BY <2>3, <3>2, <3>3, <3>4 DEF PreflightReturns
  <2> QED
    BY <1>1, <2>1, <2>2, <2>3 DEF Preflight
<1>2. CASE Worker
  <2>1. CASE WorkerTake
    BY <2>1 DEF WorkerTake, LawfulStep, Taken, Idle, At
  <2>2. ASSUME NEW i \in Ids, ProcessorCommits(i) \/ ProcessorReturns(i)
        PROVE  LawfulStep
    <3>1. i \in Taken /\ Taken' \subseteq Taken
      BY <2>2, ProcessorWrites DEF Taken, At
    <3> QED
      BY <2>2, <3>1, ProcessorWrites, WritesIsLawful, EndsLawful DEF LawfulStep
  <2>3. CASE WorkerSchedules
    <3>1. worker.task \in Ids
      BY <2>3 DEF WorkerSchedules, TypeOK, HolderType, WorkerPcs, NoId
    <3>2. Taken' \subseteq Taken
      BY <2>3 DEF WorkerSchedules, Taken, Idle, At
    <3> QED
      BY <2>3, <3>1, <3>2, ScheduleSettles, SettlesIsLawful DEF Unattended, WorkerSchedules, LawfulStep
  <2>4. CASE WorkerRecordsFailure
    <3>1. worker.task \in Taken /\ Taken' \subseteq Taken
      BY <2>4, WorkerFailureWrites DEF Taken, Dead, At
    <3> QED
      BY <2>4, <3>1, WorkerFailureWrites, WritesIsLawful, EndsLawful DEF LawfulStep
  <2> QED
    BY <1>2, <2>1, <2>2, <2>3, <2>4 DEF Worker
<1>3. CASE RetryWait \/ Time
  <2>1. Taken' = Taken
    BY <1>3 DEF RetryWait, Time, RetryPoll, ActivateRetry, RetryComesDue,
       NfoWindowCloses, vars, memory, Taken
  <2> QED
    BY <1>3, <2>1, WaitSettles, SettlesIsLawful DEF LawfulStep, Unattended
<1>4. CASE Api
  <2>1. Taken' = Taken
    BY <1>4 DEF Api, AddJob, RetryTask, DeleteTask, DeleteAllTasks, ApiEnqueue, ApiCommits,
       Taken
  <2> QED
    BY <1>4, <2>1, ApiSettles, SettlesIsLawful DEF LawfulStep, Unattended
<1>5. CASE Process
  <2>1. CASE Crash \/ StopCompletes
    BY <2>1 DEF Crash, StopCompletes, EmptyMemory, LawfulStep, Taken, Idle, At
  <2>2. CASE Stop
    BY <2>2 DEF Stop, memory, LawfulStep, Taken
  <2>3. CASE Start
    <3>1. Taken = {} /\ Taken' = {}
      BY <2>3 DEF Start, DownIsIdle, Taken, Idle, At
    <3>2. CASE RecoverOnStart /\ Recover
      <4>1. ASSUME NEW i \in Ids, db'[i].status # db[i].status
            PROVE  Lifecycle!MayChange(i)
        <5>1. CASE Settles(db[i].status, db'[i].status)
          BY <4>1, <5>1, SettlesIsLawful
        <5>2. CASE db[i].status \in ActiveTaskStatuses /\ db'[i].status = "interrupted"
          BY <3>1, <5>2, Vocabulary DEF Lifecycle!MayChange, Lifecycle!Interrupted
        <5> QED
          BY <3>2, <5>1, <5>2, RecoverSettles DEF Recovers
      <4> QED
        BY <3>1, <4>1 DEF LawfulStep
    <3>3. CASE UNCHANGED db
      BY <3>1, <3>3 DEF LawfulStep
    <3> QED
      BY <2>3, <3>2, <3>3 DEF Start
  <2> QED
    BY <1>5, <2>1, <2>2, <2>3 DEF Process
<1>6. CASE UNCHANGED vars
  BY <1>6 DEF vars, memory, LawfulStep, Taken
<1> QED
  BY <1>1, <1>2, <1>3, <1>4, <1>5, <1>6 DEF Next

(* The queue implements TaskLifecycle: a status is changed only by the     *)
(* runner of the task or by a move that needs none, and only a queued task *)
(* is given to a runner.                                                   *)
THEOREM RefinesLifecycle == Spec => LifecycleSpec
<1>1. Init => Lifecycle!Init /\ DownIsIdle
  BY DEF Init, Lifecycle!Init, NoRow, NewRow, Taken, Idle, At, DownIsIdle
<1>2. TypeOK /\ DownIsIdle /\ [Next]_vars => Lifecycle!Next
  <2> SUFFICES ASSUME TypeOK, DownIsIdle, [Next]_vars PROVE Lifecycle!Next
    OBVIOUS
  <2>1. LawfulStep
    BY StepIsLawful
  <2>2. Taken' \subseteq Ids
    BY DEF Taken
  <2> QED
    BY <2>1, <2>2 DEF LawfulStep, Lifecycle!Next, Lifecycle!MayTake
<1>3. Spec => []DownIsIdle
  BY <1>1, DownStep, TypeCorrect, PTL DEF Spec
<1> QED
  BY <1>1, <1>2, <1>3, TypeCorrect, PTL DEF Spec, LifecycleSpec, Lifecycle!Spec
=============================================================================
