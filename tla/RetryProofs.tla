--------------------------- MODULE RetryProofs ---------------------------
(***************************************************************************)
(* Proofs about retries, for every value of the constants: a retry's       *)
(* parent is the task it was made from although identifiers are used       *)
(* again, a task has one automatic retry at most, a process that does not  *)
(* crash considers one for every failure, and a manual retry leaves no     *)
(* other automatic one of its path waiting.                                *)
(***************************************************************************)
EXTENDS TaskQueueProofs

-----------------------------------------------------------------------------
(***************************************************************************)
(* Chains of retries.                                                      *)
(*                                                                         *)
(* That a parent is the right one and that a task has one automatic retry  *)
(* belong together.  A task has no second automatic retry because the      *)
(* first one left its "retry_schedule" event, which says so of the task    *)
(* itself only as long as the parent's identifier is not given to another  *)
(* task; and it is not, since a retry has a greater identifier than its    *)
(* parent and a new row a greater one than any row in the table.           *)
(***************************************************************************)


-----------------------------------------------------------------------------
(* The invariant, of any database.                                         *)

Lineage(d) ==
    \A c \in Ids :
        Exists(d, c) /\ d[c].parent # NoId =>
            /\ d[c].parent < c
            /\ Exists(d, d[c].parent) => d[d[c].parent].path = d[c].path
            /\ Exists(d, d[c].parent) /\ d[c].source = "auto-retry" =>
                 /\ d[d[c].parent].scheduled
                 /\ d[c].count = d[d[c].parent].count + 1

AutoHasParent(d) ==
    \A c \in Ids : Exists(d, c) /\ d[c].source = "auto-retry" => d[c].parent # NoId

OneAuto(d) ==
    \A b, c \in Ids :
        /\ d[b].source = "auto-retry" /\ d[c].source = "auto-retry"
        /\ Exists(d, b) /\ Exists(d, c)
        /\ d[b].parent = d[c].parent
        => b = c

Chained(d) == Lineage(d) /\ AutoHasParent(d) /\ OneAuto(d)

LEMMA ChainedIsProperty ==
    Chained(db) => RetryLineage /\ OneAutoRetryPerTask
BY DEF Chained, Lineage, OneAuto, RetryLineage, OneAutoRetryPerTask

-----------------------------------------------------------------------------
(* Operations that make no task.                                           *)

Keeps(d, e) ==
    \A j \in Ids :
        Exists(e, j) => /\ Exists(d, j)
                        /\ e[j].path = d[j].path
                        /\ e[j].source = d[j].source
                        /\ e[j].count = d[j].count
                        /\ e[j].parent = d[j].parent
                        /\ d[j].scheduled => e[j].scheduled

LEMMA KeepsChained ==
    ASSUME NEW d \in DbType, NEW e, Keeps(d, e), Chained(d)
    PROVE  Chained(e)
<1>1. \A j \in Ids : d[j].parent \in Ids \cup {NoId}
  BY DEF DbType, RowType
<1>2. Lineage(e)
  <2> SUFFICES ASSUME NEW c \in Ids, Exists(e, c), e[c].parent # NoId
               PROVE  /\ e[c].parent < c
                      /\ Exists(e, e[c].parent) => e[e[c].parent].path = e[c].path
                      /\ Exists(e, e[c].parent) /\ e[c].source = "auto-retry" =>
                           /\ e[e[c].parent].scheduled
                           /\ e[c].count = e[e[c].parent].count + 1
    BY DEF Lineage
  <2>1. Exists(d, c) /\ d[c].parent = e[c].parent /\ d[c].path = e[c].path
        /\ d[c].source = e[c].source /\ d[c].count = e[c].count
    BY DEF Keeps
  <2>2. d[c].parent \in Ids
    BY <1>1, <2>1
  <2> QED
    BY <2>1, <2>2 DEF Chained, Lineage, Keeps
<1>3. AutoHasParent(e)
  BY DEF Chained, AutoHasParent, Keeps
<1>4. OneAuto(e)
  BY DEF Chained, OneAuto, Keeps
<1> QED
  BY <1>2, <1>3, <1>4 DEF Chained

LEMMA KeepsTwice ==
    ASSUME NEW d, NEW e, NEW f, Keeps(d, e), Keeps(e, f)
    PROVE  Keeps(d, f)
BY DEF Keeps

LEMMA SetStatusKeeps ==
    ASSUME NEW d \in DbType, NEW i \in Ids, NEW s, NEW e, Exists(d, i)
    PROVE  Keeps(d, SetStatus(d, i, s, e))
BY DEF Keeps, SetStatus, Exists, DbType, RowType

LEMMA FlagKeeps ==
    ASSUME NEW d \in DbType, NEW i \in Ids, NEW b
    PROVE  /\ Keeps(d, [d EXCEPT ![i].resolved = b])
           /\ Keeps(d, [d EXCEPT ![i].due = b])
           /\ Keeps(d, [d EXCEPT ![i].nfoOpen = b])
           /\ Keeps(d, [d EXCEPT ![i].scheduled = TRUE])
BY DEF Keeps, Exists, DbType, RowType

LEMMA ActivateKeeps ==
    ASSUME NEW d \in DbType, NEW S, \A j \in S \cap Ids : Exists(d, j)
    PROVE  Keeps(d, Activate(d, S))
BY DEF Keeps, Activate, Exists, DbType, RowType

LEMMA CancelKeeps ==
    ASSUME NEW d \in DbType, NEW p, NEW x
    PROVE  /\ Keeps(d, CancelPendingAutoRetries(d, p, x))
           /\ \A j \in Ids : Exists(d, j) <=> Exists(CancelPendingAutoRetries(d, p, x), j)
<1>1. \A j \in PendingAutoRetries(d, p, x) : Exists(d, j)
  BY DEF PendingAutoRetries, PendingTaskStatuses, Exists
<1> QED
  BY <1>1 DEF Keeps, CancelPendingAutoRetries, Exists, DbType, RowType

LEMMA MarkKeeps ==
    ASSUME NEW d \in DbType
    PROVE  Keeps(d, MarkActiveInterrupted(d))
<1>1. \A j \in Ids : d[j].status \in ActiveTaskStatuses => Exists(d, j)
  BY DEF ActiveTaskStatuses, Exists
<1> QED
  BY <1>1 DEF Keeps, MarkActiveInterrupted, Exists, DbType, RowType

-----------------------------------------------------------------------------
(* Operations that make a task.                                            *)

LEMMA NextIdIsGreatest ==
    ASSUME NEW d, NEW c \in Ids, IsNextId(d, c)
    PROVE  ~Exists(d, c) /\ \A j \in Ids : Exists(d, j) => j < c
BY DEF IsNextId, Ids

LEMMA RootChained ==
    ASSUME NEW d \in DbType, NEW c \in Ids, NEW r \in RowType, IsNextId(d, c), Chained(d),
           r.parent = NoId, r.source # "auto-retry"
    PROVE  Chained([d EXCEPT ![c] = r])
<1> DEFINE e == [d EXCEPT ![c] = r]
<1>1. e[c] = r /\ \A j \in Ids : j # c => e[j] = d[j]
  BY DEF DbType
<1>2. ~Exists(d, c) /\ \A j \in Ids : Exists(d, j) => j < c
  BY NextIdIsGreatest
<1>3. \A j \in Ids : d[j].parent \in Ids \cup {NoId}
  BY DEF DbType, RowType
<1> HIDE DEF e
<1>4. Lineage(e)
  <2> SUFFICES ASSUME NEW b \in Ids, Exists(e, b), e[b].parent # NoId
               PROVE  /\ e[b].parent < b
                      /\ Exists(e, e[b].parent) => e[e[b].parent].path = e[b].path
                      /\ Exists(e, e[b].parent) /\ e[b].source = "auto-retry" =>
                           /\ e[e[b].parent].scheduled
                           /\ e[b].count = e[e[b].parent].count + 1
    BY DEF Lineage
  <2>1. b # c /\ e[b] = d[b] /\ Exists(d, b) /\ b < c
    BY <1>1, <1>2 DEF Exists
  <2>2. d[b].parent \in Ids /\ d[b].parent < b
    BY <1>3, <2>1 DEF Chained, Lineage
  <2>3. e[d[b].parent] = d[d[b].parent]
    BY <1>1, <2>1, <2>2 DEF Ids
  <2> QED
    BY <2>1, <2>2, <2>3 DEF Chained, Lineage, Exists
<1>5. AutoHasParent(e)
  BY <1>1 DEF Chained, AutoHasParent, Exists
<1>6. OneAuto(e)
  BY <1>1 DEF Chained, OneAuto, Exists
<1> QED
  BY <1>4, <1>5, <1>6 DEF Chained, e

LEMMA ChildChained ==
    ASSUME NEW d \in DbType, NEW c \in Ids, NEW r \in RowType, NEW p \in Ids,
           IsNextId(d, c), Chained(d), Exists(d, p), r.parent = p, r.path = d[p].path,
           r.source = "auto-retry" =>
               /\ d[p].scheduled
               /\ r.count = d[p].count + 1
               /\ \A b \in Ids : Exists(d, b) /\ d[b].source = "auto-retry" => d[b].parent # p
    PROVE  Chained([d EXCEPT ![c] = r])
<1> DEFINE e == [d EXCEPT ![c] = r]
<1>1. e[c] = r /\ \A j \in Ids : j # c => e[j] = d[j]
  BY DEF DbType
<1>2. ~Exists(d, c) /\ \A j \in Ids : Exists(d, j) => j < c
  BY NextIdIsGreatest
<1>3. \A j \in Ids : d[j].parent \in Ids \cup {NoId}
  BY DEF DbType, RowType
<1>4. p < c /\ p # c /\ e[p] = d[p] /\ p # NoId
  BY <1>1, <1>2 DEF Ids, NoId
<1> HIDE DEF e
<1>5. Lineage(e)
  <2> SUFFICES ASSUME NEW b \in Ids, Exists(e, b), e[b].parent # NoId
               PROVE  /\ e[b].parent < b
                      /\ Exists(e, e[b].parent) => e[e[b].parent].path = e[b].path
                      /\ Exists(e, e[b].parent) /\ e[b].source = "auto-retry" =>
                           /\ e[e[b].parent].scheduled
                           /\ e[b].count = e[e[b].parent].count + 1
    BY DEF Lineage
  <2>1. CASE b = c
    BY <1>1, <1>4, <2>1
  <2>2. CASE b # c
    <3>1. e[b] = d[b] /\ Exists(d, b) /\ b < c
      BY <1>1, <1>2, <2>2 DEF Exists
    <3>2. d[b].parent \in Ids /\ d[b].parent < b
      BY <1>3, <3>1 DEF Chained, Lineage
    <3>3. e[d[b].parent] = d[d[b].parent]
      BY <1>1, <3>1, <3>2 DEF Ids
    <3> QED
      BY <3>1, <3>2, <3>3 DEF Chained, Lineage, Exists
  <2> QED
    BY <2>1, <2>2
<1>6. AutoHasParent(e)
  BY <1>1, <1>4 DEF Chained, AutoHasParent, Exists
<1>7. OneAuto(e)
  BY <1>1 DEF Chained, OneAuto, Exists
<1> QED
  BY <1>5, <1>6, <1>7 DEF Chained, e

LEMMA CreateChained ==
    ASSUME NEW d \in DbType, NEW i \in Ids, NEW new, NEW child,
           Chained(d), Exists(d, i), CreateAutoRetryChild(d, i, new, child)
    PROVE  Chained(new)
<1> DEFINE marked == [d EXCEPT ![i].scheduled = TRUE]
<1>1. /\ marked \in DbType /\ marked[i].scheduled
      /\ \A j \in Ids : /\ marked[j].status = d[j].status
                        /\ marked[j].path = d[j].path
                        /\ marked[j].source = d[j].source
                        /\ marked[j].count = d[j].count
                        /\ marked[j].parent = d[j].parent
  <2>1. marked = [d EXCEPT ![i] = [d[i] EXCEPT !.scheduled = TRUE]]
    BY Zenon
  <2>2. d[i] \in RowType
    BY DEF DbType
  <2>3. [d[i] EXCEPT !.scheduled = TRUE] \in RowType
    BY <2>2 DEF RowType
  <2>4. marked \in DbType
    BY <2>1, <2>3, InsertType
  <2>5. \A j \in Ids : marked[j] = IF j = i THEN [d[i] EXCEPT !.scheduled = TRUE] ELSE d[j]
    BY <2>1 DEF DbType
  <2> QED
    BY <2>2, <2>4, <2>5 DEF RowType
<1>2. Chained(marked)
  BY FlagKeeps, KeepsChained
<1>3. CASE new = d \/ new = marked
  BY <1>2, <1>3
<1>4. CASE /\ ~d[i].scheduled /\ child \in Ids /\ IsNextId(d, child)
           /\ RetryAllowed(d[i].status, d[i].error, d[i].count)
           /\ new = [marked EXCEPT ![child] = AutoRetryChild(i, d[i])]
  <2> DEFINE r == AutoRetryChild(i, d[i])
  <2>1. r \in RowType
    BY <1>4, AutoRetryChildType DEF DbType
  <2>2. /\ r.parent = i /\ r.path = d[i].path /\ r.source = "auto-retry"
        /\ r.count = d[i].count + 1
    BY DEF AutoRetryChild, RetryChild, NewRow
  <2>3. IsNextId(marked, child) /\ Exists(marked, i)
    BY <1>1, <1>4 DEF IsNextId, Exists, Ids
  <2>4. \A b \in Ids : Exists(marked, b) /\ marked[b].source = "auto-retry"
                         => marked[b].parent # i
    BY <1>1, <1>4 DEF Chained, Lineage, Exists, NoId, Ids
  <2> HIDE DEF marked, r
  <2> QED
    <3>1. marked \in DbType /\ child \in Ids /\ IsNextId(marked, child)
      BY <1>1, <1>4, <2>3
    <3>2. /\ r.path = marked[i].path /\ marked[i].scheduled
          /\ r.count = marked[i].count + 1
      BY <1>1, <2>2
    <3>3. Chained([marked EXCEPT ![child] = r])
      BY <1>2, <2>1, <2>2, <2>3, <2>4, <3>1, <3>2, ChildChained
    <3> QED
      BY <1>4, <3>3 DEF r
<1>5. \/ new = d \/ new = marked
      \/ /\ ~d[i].scheduled /\ child \in Ids /\ IsNextId(d, child)
         /\ RetryAllowed(d[i].status, d[i].error, d[i].count)
         /\ new = [d EXCEPT ![i].scheduled = TRUE, ![child] = AutoRetryChild(i, d[i])]
  BY Zenon DEF CreateAutoRetryChild
<1> QED
  BY <1>3, <1>4, <1>5

-----------------------------------------------------------------------------
(* Every step.                                                             *)

LEMMA ScheduleChained ==
    ASSUME TypeOK, Chained(db), NEW i \in Ids, NEW T, ScheduleRetryAfterTerminal(i, T)
    PROVE  Chained(db')
<1>1. db \in DbType
  BY DEF TypeOK, DbType
<1>2. CASE db' = CancelPendingAutoRetries(db, db[i].path, i)
  BY <1>1, <1>2, CancelKeeps, KeepsChained
<1>3. CASE /\ db[i].status \in FailedTaskStatuses
           /\ \E child \in Ids \cup {NoId} : CreateAutoRetryChild(db, i, db', child)
  <2>1. Exists(db, i)
    BY <1>3 DEF Exists, FailedTaskStatuses
  <2> QED
    BY <1>1, <1>3, <2>1, CreateChained
<1>4. CASE db' = db
  BY <1>4
<1> QED
  BY <1>2, <1>3, <1>4 DEF ScheduleRetryAfterTerminal

LEMMA RunnersKeep ==
    ASSUME TypeOK, NEW i \in Ids, Exists(db, i), NEW s, NEW e, NEW b,
           \/ db' = SetStatus(db, i, s, e)
           \/ db' = [SetStatus(db, i, s, e) EXCEPT ![i].resolved = b],
           s \in TaskStatuses, e \in Errors
    PROVE  Keeps(db, db')
<1>1. db \in DbType /\ SetStatus(db, i, s, e) \in DbType
  BY SetStatusType DEF TypeOK, DbType
<1>2. Keeps(db, SetStatus(db, i, s, e))
  BY <1>1, SetStatusKeeps
<1>3. Keeps(SetStatus(db, i, s, e), [SetStatus(db, i, s, e) EXCEPT ![i].resolved = b])
  BY <1>1, FlagKeeps
<1> QED
  BY <1>2, <1>3, KeepsTwice

LEMMA PreflightChained ==
    ASSUME TypeOK, Chained(db), Preflight
    PROVE  Chained(db')
<1>1. db \in DbType
  BY DEF TypeOK, DbType
<1>2. CASE UNCHANGED db
  BY <1>2
<1>3. ASSUME NEW i \in Ids, PreflightRun(i) PROVE Chained(db')
  <2>1. ASSUME NEW s \in TaskStatuses, NEW e \in Errors, NEW pc, PreflightCommits(i, s, e, pc)
        PROVE  Chained(db')
    <3>1. db' = [SetStatus(db, i, s, e)
                   EXCEPT ![i].resolved = (pc = "passed") \/ SetStatus(db, i, s, e)[i].resolved]
      BY <2>1 DEF PreflightCommits
    <3>2. Exists(db, i)
      BY <2>1 DEF PreflightCommits
    <3> QED
      BY <1>1, <3>1, <3>2, RunnersKeep, KeepsChained
  <2>2. "queued" \in TaskStatuses /\ "identity" \in Errors
    BY DEF TaskStatuses, InFlightTaskStatuses, PendingTaskStatuses, Errors, RetryCategories
  <2>3. CASE PreflightPasses(i)
    BY <2>1, <2>2, <2>3, FailureTypes DEF PreflightPasses
  <2>4. CASE PreflightFails(i)
    BY <2>1, <2>2, <2>4, FailureTypes DEF PreflightFails
  <2>5. CASE PreflightSkips(i)
    BY <2>1, <2>5, FailureTypes DEF PreflightSkips
  <2>6. CASE PreflightAwaitsNfo(i) \/ PreflightRaises(i)
    BY <2>6 DEF PreflightAwaitsNfo, PreflightRaises, PreflightRollsBack
  <2> QED
    BY <1>3, <2>3, <2>4, <2>5, <2>6 DEF PreflightRun
<1>4. CASE PreflightEnds
  <2>1. preflight.task \in Ids
    BY <1>4 DEF PreflightEnds, TypeOK, HolderType, PreflightPcs, NoId
  <2> QED
    BY <1>4, <2>1, ScheduleChained DEF PreflightEnds
<1>5. CASE PreflightRecordsFailure /\ ~UNCHANGED db
  <2>1. preflight.task \in Ids
    BY <1>5 DEF PreflightRecordsFailure, TypeOK, HolderType, PreflightPcs, NoId
  <2>2. PICK e \in FailureErrors : db' = SetStatus(db, preflight.task, "failed", e)
    BY <1>5 DEF PreflightRecordsFailure
  <2>3. Exists(db, preflight.task)
    BY <1>5 DEF PreflightRecordsFailure
  <2> QED
    BY <1>1, <2>1, <2>2, <2>3, FailureTypes, RunnersKeep, KeepsChained
<1> QED
  BY <1>2, <1>3, <1>4, <1>5
     DEF Preflight, PreflightTake, PreflightReturns, PreflightForwards, PreflightTriesAgain

LEMMA WorkerChained ==
    ASSUME TypeOK, Chained(db), Worker
    PROVE  Chained(db')
<1>1. db \in DbType
  BY DEF TypeOK, DbType
<1>2. CASE UNCHANGED db
  BY <1>2
<1>3. ASSUME NEW i \in Ids, ProcessorCommits(i) \/ ProcessorReturns(i) PROVE Chained(db')
  <2>1. ASSUME Exists(db, i), NEW s \in TaskStatuses, NEW e \in Errors,
               \/ db' = SetStatus(db, i, s, e)
               \/ db' = [SetStatus(db, i, s, e) EXCEPT ![i].resolved = TRUE]
        PROVE  Chained(db')
    BY <1>1, <2>1, RunnersKeep, KeepsChained
  <2>2. CASE ProcessorCommits(i)
    BY <2>1, <2>2, FailureTypes DEF ProcessorCommits, ProcessorStep
  <2>3. CASE ProcessorCompletes(i)
    BY <2>1, <2>3, FailureTypes DEF ProcessorCompletes, ProcessorStep
  <2>4. CASE ProcessorFails(i)
    BY <2>1, <2>4, FailureTypes DEF ProcessorFails, ProcessorStep
  <2>5. CASE ProcessorSkips(i)
    BY <2>1, <2>5, FailureTypes DEF ProcessorSkips, ProcessorStep
  <2>6. CASE ProcessorRaises(i)
    BY <2>6 DEF ProcessorRaises, ProcessorStep
  <2> QED
    BY <1>3, <2>2, <2>3, <2>4, <2>5, <2>6 DEF ProcessorReturns
<1>4. CASE WorkerSchedules
  <2>1. worker.task \in Ids
    BY <1>4 DEF WorkerSchedules, TypeOK, HolderType, WorkerPcs, NoId
  <2> QED
    BY <1>4, <2>1, ScheduleChained DEF WorkerSchedules
<1>5. CASE WorkerRecordsFailure /\ ~UNCHANGED db
  <2>1. worker.task \in Ids
    BY <1>5 DEF WorkerRecordsFailure, TypeOK, HolderType, WorkerPcs, NoId
  <2>2. PICK e \in FailureErrors : db' = SetStatus(db, worker.task, "failed", e)
    BY <1>5 DEF WorkerRecordsFailure
  <2>3. Exists(db, worker.task)
    BY <1>5 DEF WorkerRecordsFailure
  <2> QED
    BY <1>1, <2>1, <2>2, <2>3, FailureTypes, RunnersKeep, KeepsChained
<1> QED
  BY <1>2, <1>3, <1>4, <1>5 DEF Worker, WorkerTake

LEMMA WaitChained ==
    ASSUME TypeOK, Chained(db), RetryWait \/ Time
    PROVE  Chained(db')
<1>1. db \in DbType
  BY DEF TypeOK, DbType
<1>2. ASSUME NEW i \in Ids, ActivateRetry(i) PROVE Chained(db')
  <2>1. Exists(db, i) /\ db' = Activate(db, {i})
    BY <1>2 DEF ActivateRetry, DueRetries, Exists
  <2> QED
    BY <1>1, <2>1, ActivateKeeps, KeepsChained
<1>3. CASE RetryPoll
  BY <1>3 DEF RetryPoll, vars
<1>4. ASSUME NEW i \in Ids, RetryComesDue(i) \/ NfoWindowCloses(i) PROVE Chained(db')
  <2>1. db' = [db EXCEPT ![i].due = TRUE] \/ db' = [db EXCEPT ![i].nfoOpen = FALSE]
    BY <1>4 DEF RetryComesDue, NfoWindowCloses
  <2>2. /\ Keeps(db, [db EXCEPT ![i].due = TRUE])
        /\ Keeps(db, [db EXCEPT ![i].nfoOpen = FALSE])
    BY <1>1, FlagKeeps
  <2> QED
    BY <1>1, <2>1, <2>2, KeepsChained
<1> QED
  BY <1>2, <1>3, <1>4 DEF RetryWait, Time

LEMMA ApiChained ==
    ASSUME TypeOK, Chained(db), Api
    PROVE  Chained(db')
<1>1. db \in DbType
  BY DEF TypeOK, DbType
<1>2. ASSUME NEW path \in Paths, NEW source \in JobSources, AddJob(path, source)
      PROVE  Chained(db')
  <2> DEFINE r == NewRow("queued", path, source, 0, NoId, source = "moviepilot-csf")
  <2>1. PICK i \in Ids : IsNextId(db, i) /\ db' = [db EXCEPT ![i] = r]
    BY <1>2 DEF AddJob, ApiCommits
  <2>2. r \in RowType
    <3>1. /\ source \in EntrySources \cup RetrySources
          /\ "queued" \in TaskStatuses \cup {"absent"}
          /\ 0 \in 0..MaxAutoRetries /\ NoId \in Ids \cup {NoId}
          /\ (source = "moviepilot-csf") \in BOOLEAN
      BY QueueAssumption, MaxAutoRetriesAssumption
         DEF TaskStatuses, InFlightTaskStatuses, PendingTaskStatuses
    <3> QED
      BY <3>1, NewRowType
  <2>3. r.parent = NoId /\ r.source # "auto-retry"
    BY QueueAssumption DEF NewRow, EntrySources
  <2> HIDE DEF r
  <2> QED
    BY <1>1, <2>1, <2>2, <2>3, RootChained
<1>3. ASSUME NEW o \in Ids, RetryTask(o) PROVE Chained(db')
  <2> DEFINE r == ManualRetryChild(o)
             cancelled == CancelPendingAutoRetries(db, db[o].path, o)
  <2>1. PICK i \in Ids :
          /\ IsNextId(db, i)
          /\ db' = [db EXCEPT ![i] = r] \/ db' = [cancelled EXCEPT ![i] = r]
    BY <1>3 DEF RetryTask, ApiCommits
  <2>2. r \in RowType
    <3>1. /\ db[o] \in RowType /\ "manual-retry" \in RetrySources
          /\ "queued" \in TaskStatuses /\ 0 \in 0..MaxAutoRetries
      BY <1>1, MaxAutoRetriesAssumption
         DEF DbType, RetrySources, TaskStatuses, InFlightTaskStatuses, PendingTaskStatuses
    <3> QED
      BY <3>1, RetryChildType DEF ManualRetryChild
  <2>3. r.parent = o /\ r.path = db[o].path /\ r.source # "auto-retry"
    BY DEF ManualRetryChild, RetryChild, NewRow
  <2>4. /\ cancelled \in DbType /\ Chained(cancelled)
        /\ \A j \in Ids : Exists(db, j) <=> Exists(cancelled, j)
    BY <1>1, CancelType, CancelKeeps, KeepsChained
  <2>5. Exists(db, o)
    BY <1>3 DEF RetryTask
  <2>6. Exists(cancelled, o) /\ cancelled[o].path = db[o].path
    <3>1. Keeps(db, cancelled)
      BY <1>1, CancelKeeps
    <3> HIDE DEF cancelled
    <3> QED
      BY <2>4, <2>5, <3>1 DEF Keeps
  <2>7. IsNextId(cancelled, i)
    <3> HIDE DEF cancelled
    <3>1. i > 1 => i - 1 \in Ids
      BY IdsAssumption DEF Ids
    <3> QED
      BY <2>1, <2>4, <3>1 DEF IsNextId
  <2> HIDE DEF r, cancelled
  <2>8. CASE db' = [db EXCEPT ![i] = r]
    BY <1>1, <2>1, <2>2, <2>3, <2>5, <2>8, ChildChained
  <2>9. CASE db' = [cancelled EXCEPT ![i] = r]
    BY <2>2, <2>3, <2>4, <2>6, <2>7, <2>9, ChildChained
  <2> QED
    BY <2>1, <2>8, <2>9
<1>4. ASSUME NEW i \in Ids, DeleteTask(i) PROVE Chained(db')
  <2>1. Keeps(db, db')
    BY <1>1, <1>4 DEF DeleteTask, ApiCommits, NoRow, NewRow, Keeps, Exists, DbType
  <2> QED
    BY <1>1, <2>1, KeepsChained
<1>5. ASSUME NEW i \in Ids, ApiEnqueue(i) PROVE Chained(db')
  BY <1>5 DEF ApiEnqueue
<1>6. CASE DeleteAllTasks
  <2>1. Keeps(db, db')
    BY <1>6 DEF DeleteAllTasks, ApiCommits, NoRow, NewRow, Keeps, Exists
  <2> QED
    BY <1>1, <2>1, KeepsChained
<1> QED
  BY <1>2, <1>3, <1>4, <1>5, <1>6, Zenon DEF Api

LEMMA ProcessChained ==
    ASSUME TypeOK, Chained(db), Process
    PROVE  Chained(db')
<1>1. CASE UNCHANGED db
  BY <1>1
<1>2. CASE Start /\ Recover
  <2> DEFINE active == WithStatus(db, ActiveTaskStatuses)
             marked == MarkActiveInterrupted(db)
             settled == Activate(marked, DueRetries(db))
  <2>1. db \in DbType /\ marked \in DbType /\ settled \in DbType
    BY MarkType, ActivateType DEF TypeOK, DbType
  <2>2. \A j \in DueRetries(db) : db[j].status = "retry_wait" /\ marked[j] = db[j]
    BY DEF DueRetries, MarkActiveInterrupted, ActiveTaskStatuses
  <2>3. Keeps(db, marked) /\ Keeps(marked, settled)
    BY <2>1, <2>2, MarkKeeps, ActivateKeeps DEF Exists
  <2>4. Chained(settled)
    BY <2>1, <2>3, KeepsTwice, KeepsChained
  <2>5. \A j \in active : j \in Ids /\ Exists(settled, j)
    <3> SUFFICES ASSUME NEW j \in active PROVE j \in Ids /\ Exists(settled, j)
      OBVIOUS
    <3>1. j \in Ids /\ db[j] \in RowType /\ db[j].status \in ActiveTaskStatuses
      BY <2>1 DEF WithStatus, DbType
    <3>2. marked[j].status = "interrupted"
      BY <3>1 DEF MarkActiveInterrupted, RowType
    <3>3. settled[j] = marked[j]
      BY <2>2, <3>1 DEF Activate, ActiveTaskStatuses
    <3> QED
      BY <3>1, <3>2, <3>3 DEF Exists
  <2>6. CASE db' = settled
    BY <2>4, <2>6
  <2>7. CASE \E i \in active, child \in Ids \cup {NoId} :
               CreateAutoRetryChild(settled, i, db', child)
    <3> HIDE DEF active, settled
    <3> QED
      BY <2>1, <2>4, <2>5, <2>7, CreateChained
  <2> QED
    BY <1>2, <2>6, <2>7 DEF Recover
<1> QED
  BY <1>1, <1>2 DEF Process, Crash, Stop, StopCompletes, Start

LEMMA ChainedCorrect == Spec => []Chained(db)
<1>1. Init => Chained(db)
  BY DEF Init, NoRow, NewRow, Exists, Chained, Lineage, AutoHasParent, OneAuto
<1>2. TypeOK /\ Chained(db) /\ [Next]_vars => Chained(db)'
  <2>1. UNCHANGED vars /\ Chained(db) => Chained(db)'
    BY DEF vars
  <2> QED
    BY <2>1, PreflightChained, WorkerChained, WaitChained, ApiChained, ProcessChained DEF Next
<1> QED
  BY <1>1, <1>2, TypeCorrect, PTL DEF Spec

(* A retry's parent is the task it was made from or gone, although         *)
(* identifiers are used again; so its count is that of its chain.          *)
THEOREM RetryLineageHolds == Spec => []RetryLineage
BY ChainedCorrect, ChainedIsProperty, PTL

(* However often the end of a task is looked at, it is retried             *)
(* automatically once at most.                                             *)
THEOREM AutoRetriedOnce == Spec => []OneAutoRetryPerTask
BY ChainedCorrect, ChainedIsProperty, PTL

-----------------------------------------------------------------------------
(***************************************************************************)
(* When a retry is made.                                                   *)
(*                                                                         *)
(* That every failure is considered needs to know who has it in hand.      *)
(* Every step that makes a task fail leaves the worker that made it at     *)
(* "ended" or "done", from where it goes only by scheduling; and an        *)
(* interrupted task, which nobody has in hand, is one that a crash left    *)
(* active.                                                                 *)
(***************************************************************************)


\* The worker that has met the end of task i has not moved on.
InHand(i) ==
    \/ preflight.pc = "ended" /\ preflight.task = i
    \/ worker.pc = "done" /\ worker.task = i

LookedAt(row) ==
    \/ row.status \notin FailedTaskStatuses
    \/ row.scheduled
    \/ ~IsRetryable(row.status, row.error)

FailuresInHand == \A i \in Ids : LookedAt(db[i]) \/ InHand(i)

\* What a process that came to its end by itself has left.
StopsClean == mode = "down" /\ RecoverOnStart => WithStatus(db, ActiveTaskStatuses) = {}

-----------------------------------------------------------------------------
(* Steps of the table that make no task fail.                              *)

NoNewFailure(d, e) == \A j \in Ids : LookedAt(d[j]) => LookedAt(e[j])

LEMMA NotFailed ==
    ASSUME NEW row, row.status \in {"queued", "retry_wait", "absent", "completed"}
                                     \cup ActiveTaskStatuses \cup SkippedTaskStatuses
    PROVE  LookedAt(row)
BY DEF LookedAt, FailedTaskStatuses, ActiveTaskStatuses, SkippedTaskStatuses

LEMMA CancelFailsNone ==
    ASSUME NEW d \in DbType, NEW p, NEW x
    PROVE  NoNewFailure(d, CancelPendingAutoRetries(d, p, x))
<1> SUFFICES ASSUME NEW j \in Ids, LookedAt(d[j])
             PROVE  LookedAt(CancelPendingAutoRetries(d, p, x)[j])
  BY DEF NoNewFailure
<1>1. d[j] \in RowType
  BY DEF DbType
<1>2. CASE j \in PendingAutoRetries(d, p, x)
  <2>1. CancelPendingAutoRetries(d, p, x)[j].status = "skipped_existing_subtitle"
    BY <1>1, <1>2 DEF CancelPendingAutoRetries, RowType
  <2> QED
    BY <2>1, NotFailed DEF SkippedTaskStatuses
<1>3. CASE j \notin PendingAutoRetries(d, p, x)
  BY <1>3 DEF CancelPendingAutoRetries
<1> QED
  BY <1>2, <1>3

LEMMA ActivateFailsNone ==
    ASSUME NEW d \in DbType, NEW S
    PROVE  NoNewFailure(d, Activate(d, S))
<1> SUFFICES ASSUME NEW j \in Ids, LookedAt(d[j])
             PROVE  LookedAt(Activate(d, S)[j])
  BY DEF NoNewFailure
<1>1. d[j] \in RowType
  BY DEF DbType
<1>2. CASE j \in S
  <2>1. Activate(d, S)[j].status = "queued"
    BY <1>1, <1>2 DEF Activate, RowType
  <2> QED
    BY <2>1, NotFailed
<1>3. CASE j \notin S
  BY <1>3 DEF Activate
<1> QED
  BY <1>2, <1>3

LEMMA InsertFailsNone ==
    ASSUME NEW d \in DbType, NEW i \in Ids, NEW r, r.status \in {"queued", "retry_wait", "absent"}
    PROVE  NoNewFailure(d, [d EXCEPT ![i] = r])
<1>1. \A j \in Ids : [d EXCEPT ![i] = r][j] = IF j = i THEN r ELSE d[j]
  BY DEF DbType
<1> QED
  BY <1>1, NotFailed DEF NoNewFailure

LEMMA CreateLooksAt ==
    ASSUME NEW d \in DbType, NEW i \in Ids, NEW new, NEW child,
           CreateAutoRetryChild(d, i, new, child)
    PROVE  NoNewFailure(d, new) /\ LookedAt(new[i])
<1> DEFINE marked == [d EXCEPT ![i].scheduled = TRUE]
<1>1. /\ marked \in DbType /\ marked[i].scheduled = TRUE
      /\ \A j \in Ids : j # i => marked[j] = d[j]
  BY MarkedRow
<1>2. NoNewFailure(d, marked) /\ LookedAt(marked[i])
  BY <1>1 DEF NoNewFailure, LookedAt
<1>3. CASE new = d /\ (d[i].scheduled \/ ~IsRetryable(d[i].status, d[i].error))
  BY <1>3 DEF NoNewFailure, LookedAt
<1>4. CASE new = marked
  BY <1>2, <1>4
<1>5. CASE /\ child \in Ids /\ new = [marked EXCEPT ![child] = AutoRetryChild(i, d[i])]
  <2>1. AutoRetryChild(i, d[i]).status \in {"queued", "retry_wait"}
    BY DEF AutoRetryChild, RetryChild, NewRow
  <2>2. child \in Ids /\ marked \in DbType
    BY <1>1, <1>5
  <2> HIDE DEF marked
  <2>3. NoNewFailure(marked, [marked EXCEPT ![child] = AutoRetryChild(i, d[i])])
    BY <2>1, <2>2, InsertFailsNone
  <2>4. NoNewFailure(marked, new)
    BY <1>5, <2>3
  <2> QED
    BY <1>2, <2>4 DEF NoNewFailure
<1>6. \/ new = d /\ (d[i].scheduled \/ ~IsRetryable(d[i].status, d[i].error))
      \/ new = marked
      \/ /\ child \in Ids
         /\ new = [d EXCEPT ![i].scheduled = TRUE, ![child] = AutoRetryChild(i, d[i])]
  BY Zenon DEF CreateAutoRetryChild
<1> QED
  BY <1>3, <1>4, <1>5, <1>6

LEMMA ScheduleLooksAt ==
    ASSUME TypeOK, NEW i \in Ids, NEW T, ScheduleRetryAfterTerminal(i, T)
    PROVE  NoNewFailure(db, db') /\ LookedAt(db'[i])
<1>1. db \in DbType
  BY DEF TypeOK, DbType
<1>2. CASE db[i].status \in SuccessTaskStatuses
           /\ db' = CancelPendingAutoRetries(db, db[i].path, i)
  <2>1. LookedAt(db[i])
    BY <1>2, NotFailed DEF SuccessTaskStatuses
  <2> QED
    BY <1>1, <1>2, <2>1, CancelFailsNone DEF NoNewFailure
<1>3. CASE \E child \in Ids \cup {NoId} : CreateAutoRetryChild(db, i, db', child)
  BY <1>1, <1>3, CreateLooksAt
<1>4. CASE db' = db /\ db[i].status \notin TerminalTaskStatuses
  BY <1>4 DEF NoNewFailure, LookedAt, TerminalTaskStatuses
<1> QED
  BY <1>2, <1>3, <1>4 DEF ScheduleRetryAfterTerminal

-----------------------------------------------------------------------------
(* What keeps the invariant.                                               *)

LEMMA InHandKept ==
    ASSUME FailuresInHand, NoNewFailure(db, db'),
           \A j \in Ids : InHand(j) => InHand(j)' \/ LookedAt(db'[j])
    PROVE  FailuresInHand'
BY DEF FailuresInHand, NoNewFailure

\* A step that writes one row, and whose writer then has what failed in hand.
LEMMA WriteInHand ==
    ASSUME FailuresInHand, NEW i \in Ids, \A j \in Ids : j # i => db'[j] = db[j],
           LookedAt(db'[i]) \/ InHand(i)',
           \A j \in Ids : j # i /\ InHand(j) => InHand(j)'
    PROVE  FailuresInHand'
BY DEF FailuresInHand

LEMMA SetStatusRows ==
    ASSUME NEW d \in DbType, NEW i \in Ids, NEW s, NEW e
    PROVE  /\ SetStatus(d, i, s, e)[i].status = s
           /\ \A j \in Ids : j # i => SetStatus(d, i, s, e)[j] = d[j]
BY DEF SetStatus, DbType, RowType

LEMMA FlagRows ==
    ASSUME NEW d \in DbType, NEW i \in Ids, NEW b
    PROVE  /\ [d EXCEPT ![i].resolved = b][i].status = d[i].status
           /\ \A j \in Ids : j # i => [d EXCEPT ![i].resolved = b][j] = d[j]
BY DEF DbType, RowType

LEMMA PreflightInHand ==
    ASSUME TypeOK, FailuresInHand, NEW i \in Ids, PreflightRun(i)
    PROVE  FailuresInHand'
<1>1. preflight = At("run", i) /\ UNCHANGED worker
  BY PreflightWrites
<1>2. db \in DbType
  BY DEF TypeOK, DbType
<1>3. ASSUME NEW s \in TaskStatuses, NEW e \in Errors, NEW pc \in {"passed", "ended"},
             pc = "ended" \/ s = "queued", PreflightCommits(i, s, e, pc)
      PROVE  FailuresInHand'
  <2> DEFINE d == SetStatus(db, i, s, e)
  <2>1. d \in DbType /\ db' = [d EXCEPT ![i].resolved = (pc = "passed") \/ d[i].resolved]
    BY <1>2, <1>3, SetStatusType DEF PreflightCommits
  <2>2. d[i].status = s /\ \A j \in Ids : j # i => d[j] = db[j]
    BY <1>2, SetStatusRows
  <2> HIDE DEF d
  <2>3. db'[i].status = s /\ \A j \in Ids : j # i => db'[j] = db[j]
    BY <2>1, <2>2, FlagRows
  <2>4. preflight' = At(pc, i)
    BY <1>3 DEF PreflightCommits
  <2>5. LookedAt(db'[i]) \/ InHand(i)'
    BY <1>3, <2>3, <2>4, NotFailed DEF InHand, At
  <2> QED
    BY <1>1, <2>3, <2>5, WriteInHand DEF InHand, At
<1>4. "identity" \in Errors /\ "none" \in Errors /\ "queued" \in TaskStatuses
  BY DEF Errors, RetryCategories, TaskStatuses, InFlightTaskStatuses, PendingTaskStatuses
<1>5. CASE PreflightPasses(i)
  BY <1>3, <1>4, <1>5 DEF PreflightPasses
<1>6. CASE PreflightFails(i)
  BY <1>3, <1>4, <1>6, FailureTypes DEF PreflightFails
<1>7. CASE PreflightSkips(i)
  <2>1. PICK s \in SkipReasons : PreflightCommits(i, s, "none", "ended")
    BY <1>7 DEF PreflightSkips
  <2> QED
    BY <1>3, <1>4, <2>1, FailureTypes
<1>8. CASE PreflightAwaitsNfo(i) \/ PreflightRaises(i)
  <2>1. db' = db
    BY <1>8 DEF PreflightAwaitsNfo, PreflightRaises, PreflightRollsBack
  <2> QED
    BY <1>1, <2>1, InHandKept DEF NoNewFailure, InHand, At
<1> QED
  BY <1>5, <1>6, <1>7, <1>8 DEF PreflightRun

LEMMA PreflightReturnsInHand ==
    ASSUME TypeOK, FailuresInHand, PreflightReturns
    PROVE  FailuresInHand'
<1>1. UNCHANGED worker /\ db \in DbType
  BY DEF PreflightReturns, TypeOK, DbType
<1>2. CASE PreflightForwards \/ PreflightTriesAgain
  <2>1. db' = db /\ preflight.pc # "ended"
    BY <1>2 DEF PreflightForwards, PreflightTriesAgain
  <2> QED
    BY <1>1, <2>1, InHandKept DEF NoNewFailure, InHand
<1>3. CASE PreflightEnds
  <2>1. preflight.task \in Ids
    BY <1>3 DEF PreflightEnds, TypeOK, HolderType, PreflightPcs, NoId
  <2>2. NoNewFailure(db, db') /\ LookedAt(db'[preflight.task])
    BY <1>3, <2>1, ScheduleLooksAt DEF PreflightEnds
  <2> QED
    BY <1>1, <2>2, InHandKept DEF InHand
<1>4. CASE PreflightRecordsFailure
  <2>1. preflight.task \in Ids /\ preflight.pc = "raised"
    BY <1>4, PreflightFailureWrites
  <2>2. CASE Exists(db, preflight.task)
    <3>1. PICK e \in FailureErrors : db' = SetStatus(db, preflight.task, "failed", e)
      BY <1>4, <2>2 DEF PreflightRecordsFailure
    <3>2. preflight'.task = preflight.task /\ preflight'.pc = "ended"
      BY <1>4, <2>2 DEF PreflightRecordsFailure, TypeOK, HolderType
    <3> QED
      BY <1>1, <2>1, <3>1, <3>2, SetStatusRows, WriteInHand DEF InHand
  <2>3. CASE ~Exists(db, preflight.task)
    <3>1. db' = db
      BY <1>4, <2>3 DEF PreflightRecordsFailure
    <3> QED
      BY <1>1, <2>1, <3>1, InHandKept DEF NoNewFailure, InHand
  <2> QED
    BY <2>2, <2>3
<1> QED
  BY <1>2, <1>3, <1>4 DEF PreflightReturns

LEMMA ProcessorInHand ==
    ASSUME TypeOK, FailuresInHand, NEW i \in Ids, ProcessorCommits(i) \/ ProcessorReturns(i)
    PROVE  FailuresInHand'
<1>1. worker = At("run", i) /\ UNCHANGED preflight
  BY ProcessorWrites
<1>2. db \in DbType
  BY DEF TypeOK, DbType
<1>3. ASSUME NEW s \in TaskStatuses, NEW e \in Errors,
             ProcessorStep(i, SetStatus(db, i, s, e), "done")
      PROVE  FailuresInHand'
  <2>1. worker' = At("done", i) /\ \A j \in Ids : j # i => db'[j] = db[j]
    BY <1>2, <1>3, SetStatusRows DEF ProcessorStep
  <2> QED
    BY <1>1, <2>1, WriteInHand DEF InHand, At
<1>4. CASE ProcessorCommits(i)
  <2>1. PICK s \in Stages :
          ProcessorStep(i, [SetStatus(db, i, s, "none") EXCEPT ![i].resolved = TRUE], "run")
    BY <1>4 DEF ProcessorCommits
  <2> DEFINE d == SetStatus(db, i, s, "none")
  <2>2. d \in DbType /\ d[i].status = s /\ \A j \in Ids : j # i => d[j] = db[j]
    BY <1>2, FailureTypes, SetStatusType, SetStatusRows
  <2>3. db' = [d EXCEPT ![i].resolved = TRUE]
    BY <2>1 DEF ProcessorStep
  <2> HIDE DEF d
  <2>4. db'[i].status = s /\ \A j \in Ids : j # i => db'[j] = db[j]
    BY <2>2, <2>3, FlagRows
  <2>5. LookedAt(db'[i])
    BY <2>4, NotFailed, QueueAssumption
  <2> QED
    BY <1>1, <2>4, <2>5, WriteInHand DEF InHand, At
<1>5. CASE ProcessorCompletes(i)
  BY <1>3, <1>5, FailureTypes DEF ProcessorCompletes
<1>6. CASE ProcessorFails(i)
  BY <1>3, <1>6, FailureTypes DEF ProcessorFails
<1>7. CASE ProcessorSkips(i)
  BY <1>3, <1>7, FailureTypes DEF ProcessorSkips
<1>8. CASE ProcessorRaises(i)
  BY <1>1, <1>8, InHandKept DEF ProcessorRaises, ProcessorStep, NoNewFailure, InHand, At
<1> QED
  BY <1>4, <1>5, <1>6, <1>7, <1>8 DEF ProcessorReturns

LEMMA WorkerInHand ==
    ASSUME TypeOK, FailuresInHand, Worker
    PROVE  FailuresInHand'
<1>1. db \in DbType
  BY DEF TypeOK, DbType
<1>2. CASE WorkerTake
  BY <1>2, InHandKept DEF WorkerTake, NoNewFailure, InHand
<1>3. CASE WorkerSchedules
  <2>1. worker.task \in Ids
    BY <1>3 DEF WorkerSchedules, TypeOK, HolderType, WorkerPcs, NoId
  <2>2. NoNewFailure(db, db') /\ LookedAt(db'[worker.task]) /\ UNCHANGED preflight
    BY <1>3, <2>1, ScheduleLooksAt DEF WorkerSchedules
  <2> QED
    BY <2>2, InHandKept DEF InHand
<1>4. CASE WorkerRecordsFailure
  <2>1. worker.task \in Ids /\ worker.pc = "raised" /\ UNCHANGED preflight
    BY <1>4, WorkerFailureWrites
  <2>2. CASE Exists(db, worker.task)
    <3>1. PICK e \in FailureErrors : db' = SetStatus(db, worker.task, "failed", e)
      BY <1>4, <2>2 DEF WorkerRecordsFailure
    <3>2. worker'.task = worker.task /\ worker'.pc = "done"
      BY <1>4, <2>2 DEF WorkerRecordsFailure, TypeOK, HolderType
    <3> QED
      BY <1>1, <2>1, <3>1, <3>2, SetStatusRows, WriteInHand DEF InHand
  <2>3. CASE ~Exists(db, worker.task)
    <3>1. db' = db
      BY <1>4, <2>3 DEF WorkerRecordsFailure
    <3> QED
      BY <2>1, <3>1, InHandKept DEF NoNewFailure, InHand
  <2> QED
    BY <2>2, <2>3
<1>5. ASSUME NEW i \in Ids, ProcessorCommits(i) \/ ProcessorReturns(i)
      PROVE  FailuresInHand'
  BY <1>5, ProcessorInHand
<1> QED
  BY <1>2, <1>3, <1>4, <1>5 DEF Worker

LEMMA OthersFailNone ==
    ASSUME TypeOK, RetryWait \/ Time \/ Api
    PROVE  NoNewFailure(db, db') /\ UNCHANGED <<preflight, worker, mode>>
<1>1. db \in DbType /\ \A j \in Ids : db[j] \in RowType
  BY DEF TypeOK, DbType
<1>2. UNCHANGED <<preflight, worker, mode>>
  BY DEF RetryWait, Time, Api, RetryPoll, ActivateRetry, RetryComesDue, NfoWindowCloses,
     vars, memory, AddJob, RetryTask, DeleteTask, DeleteAllTasks, ApiEnqueue, ApiCommits
<1>3. UNCHANGED db => NoNewFailure(db, db')
  BY DEF NoNewFailure, LookedAt
<1>4. ASSUME NEW i \in Ids, ActivateRetry(i) PROVE NoNewFailure(db, db')
  BY <1>1, <1>4, ActivateFailsNone DEF ActivateRetry
<1>5. ASSUME NEW i \in Ids, RetryComesDue(i) \/ NfoWindowCloses(i)
      PROVE  NoNewFailure(db, db')
  <2>1. /\ \A j \in Ids : j # i => db'[j] = db[j]
        /\ db'[i].status \in {"retry_wait", "queued"}
    BY <1>1, <1>5 DEF RetryComesDue, NfoWindowCloses, DbType, RowType
  <2> QED
    BY <2>1, NotFailed DEF NoNewFailure
<1>6. ASSUME NEW path \in Paths, NEW source \in JobSources, AddJob(path, source)
      PROVE  NoNewFailure(db, db')
  <2> DEFINE r == NewRow("queued", path, source, 0, NoId, source = "moviepilot-csf")
  <2>1. PICK i \in Ids : db' = [db EXCEPT ![i] = r]
    BY <1>6 DEF AddJob, ApiCommits
  <2>2. r.status = "queued"
    BY DEF NewRow
  <2> HIDE DEF r
  <2> QED
    BY <1>1, <2>1, <2>2, InsertFailsNone DEF NoNewFailure
<1>7. ASSUME NEW o \in Ids, RetryTask(o) PROVE NoNewFailure(db, db')
  <2> DEFINE d == CancelPendingAutoRetries(db, db[o].path, o)
             r == ManualRetryChild(o)
  <2>1. d \in DbType /\ NoNewFailure(db, d) /\ r.status = "queued"
    BY <1>1, CancelType, CancelFailsNone DEF ManualRetryChild, RetryChild, NewRow
  <2>2. PICK i \in Ids : db' = [db EXCEPT ![i] = r] \/ db' = [d EXCEPT ![i] = r]
    BY <1>7 DEF RetryTask, ApiCommits
  <2> HIDE DEF d, r
  <2>3. CASE db' = [db EXCEPT ![i] = r]
    BY <1>1, <2>1, <2>2, <2>3, InsertFailsNone DEF NoNewFailure
  <2>4. CASE db' = [d EXCEPT ![i] = r]
    <3>1. NoNewFailure(d, db')
      BY <2>1, <2>2, <2>4, InsertFailsNone DEF NoNewFailure
    <3> QED
      BY <2>1, <3>1 DEF NoNewFailure
  <2> QED
    BY <2>2, <2>3, <2>4
<1>8. ASSUME NEW i \in Ids, DeleteTask(i) PROVE NoNewFailure(db, db')
  <2>1. NoRow.status = "absent" /\ db' = [db EXCEPT ![i] = NoRow]
    BY <1>8 DEF DeleteTask, ApiCommits, NoRow, NewRow
  <2> QED
    BY <1>1, <2>1, InsertFailsNone DEF NoNewFailure
<1>9. CASE DeleteAllTasks
  BY <1>9, NotFailed DEF DeleteAllTasks, ApiCommits, NoRow, NewRow, NoNewFailure
<1> QED
  BY <1>2, <1>3, <1>4, <1>5, <1>6, <1>7, <1>8, <1>9, Zenon
     DEF RetryWait, Time, Api, RetryPoll, ApiEnqueue, vars

LEMMA StartFailsNone ==
    ASSUME TypeOK, StopsClean, Start
    PROVE  NoNewFailure(db, db')
<1>1. CASE RecoverOnStart
  <2> DEFINE marked == MarkActiveInterrupted(db)
  <2>1. WithStatus(db, ActiveTaskStatuses) = {}
    BY <1>1 DEF Start, StopsClean
  <2>2. db' = Activate(marked, DueRetries(db))
    BY <1>1, <2>1 DEF Start, Recover
  <2>3. marked \in DbType
    BY MarkType DEF TypeOK, DbType
  <2>4. NoNewFailure(db, marked)
    BY <2>1 DEF MarkActiveInterrupted, WithStatus, NoNewFailure
  <2> HIDE DEF marked
  <2>5. NoNewFailure(marked, db')
    BY <2>2, <2>3, ActivateFailsNone
  <2> QED
    BY <2>4, <2>5 DEF NoNewFailure
<1>2. CASE ~RecoverOnStart
  BY <1>2 DEF Start, NoNewFailure
<1> QED
  BY <1>1, <1>2

\* A process that does not crash.
Uncrashed == budget.crashes = 0

LEMMA UncrashedStep == TypeOK /\ Uncrashed /\ [Next]_vars => Uncrashed'
<1> SUFFICES ASSUME TypeOK, Uncrashed, [Next]_vars PROVE Uncrashed'
  OBVIOUS
<1>1. CASE UNCHANGED budget
  BY <1>1 DEF Uncrashed
<1>2. ASSUME NEW what \in {"adds", "retries", "deletes", "stops"}, Spend(what)
      PROVE  Uncrashed'
  BY <1>2 DEF Spend, Uncrashed, TypeOK
<1>3. Crash => FALSE
  BY DEF Crash, Spend, Uncrashed
<1>4. Preflight => UNCHANGED budget
  BY DEF Preflight, PreflightTake, PreflightReturns, PreflightRun, PreflightPasses,
     PreflightFails, PreflightSkips, PreflightAwaitsNfo, PreflightRaises, PreflightCommits,
     PreflightRollsBack
<1>5. Worker => UNCHANGED budget
  BY DEF Worker, WorkerTake, WorkerSchedules, WorkerRecordsFailure, ProcessorCommits,
     ProcessorReturns, ProcessorCompletes, ProcessorFails, ProcessorSkips, ProcessorRaises,
     ProcessorStep
<1>6. RetryWait \/ Time => UNCHANGED budget
  BY DEF RetryWait, Time, RetryPoll, ActivateRetry, RetryComesDue, NfoWindowCloses, vars
<1>7. Api => UNCHANGED budget \/ Spend("adds") \/ Spend("retries") \/ Spend("deletes")
  BY Zenon DEF Api, AddJob, RetryTask, DeleteTask, DeleteAllTasks, ApiEnqueue, ApiCommits
<1>8. Process => Crash \/ UNCHANGED budget \/ Spend("stops")
  BY DEF Process, Stop, StopCompletes, Start
<1> QED
  BY <1>1, <1>2, <1>3, <1>4, <1>5, <1>6, <1>7, <1>8 DEF Next, vars

LEMMA ProcessInHand ==
    ASSUME TypeOK, ActiveIsHeld, DownIsIdle, FailuresInHand, StopsClean, Uncrashed, Process
    PROVE  FailuresInHand' /\ StopsClean'
<1>1. CASE Crash
  <2>1. FALSE
    BY <1>1 DEF Crash, Spend, Uncrashed
  <2> QED
    BY <2>1
<1>2. CASE Stop
  BY <1>2, InHandKept DEF Stop, memory, NoNewFailure, InHand, StopsClean
<1>3. CASE StopCompletes
  <2>1. /\ db' = db /\ preflight.pc # "ended" /\ worker.pc = "idle" /\ mode # "down"
    BY <1>3 DEF StopCompletes
  <2>2. FailuresInHand'
    BY <2>1, InHandKept DEF NoNewFailure, InHand
  <2>3. StopsClean'
    BY <2>1 DEF StopsClean, ActiveIsHeld, WithStatus
  <2> QED
    BY <2>2, <2>3
<1>4. CASE Start
  <2>1. /\ NoNewFailure(db, db') /\ UNCHANGED <<preflight, worker>> /\ mode' = "running"
    BY <1>4, StartFailsNone DEF Start
  <2> QED
    BY <2>1, InHandKept DEF InHand, StopsClean
<1> QED
  BY <1>1, <1>2, <1>3, <1>4 DEF Process

LEMMA CleanStep ==
    ASSUME TypeOK, StopsClean, RetryWait \/ Time \/ Api
    PROVE  StopsClean'
<1>1. mode' = mode
  BY OthersFailNone
<1>2. Unattended(db, db')
  BY WaitSettles, ApiSettles
<1> QED
  BY <1>1, <1>2, SettledKept DEF StopsClean, WithStatus

LEMMA InHandStep ==
    ASSUME TypeOK, ActiveIsHeld, DownIsIdle, FailuresInHand, StopsClean, Uncrashed, [Next]_vars
    PROVE  FailuresInHand' /\ StopsClean' /\ Uncrashed'
<1>1. Uncrashed'
  BY UncrashedStep
<1>2. CASE Preflight
  <2>1. mode' = mode /\ mode # "down"
    BY <1>2 DEF Preflight, PreflightTake, PreflightReturns, PreflightRun, PreflightPasses,
       PreflightFails, PreflightSkips, PreflightAwaitsNfo, PreflightRaises, PreflightCommits,
       PreflightRollsBack
  <2>2. PreflightTake => FailuresInHand'
    BY InHandKept DEF PreflightTake, NoNewFailure, InHand
  <2>3. FailuresInHand'
    BY <1>2, <2>2, PreflightInHand, PreflightReturnsInHand DEF Preflight
  <2> QED
    BY <1>1, <2>1, <2>3 DEF StopsClean
<1>3. CASE Worker
  <2>1. mode' = mode /\ mode # "down"
    BY <1>3 DEF Worker, WorkerTake, WorkerSchedules, WorkerRecordsFailure, ProcessorCommits,
       ProcessorReturns, ProcessorCompletes, ProcessorFails, ProcessorSkips, ProcessorRaises,
       ProcessorStep
  <2> QED
    BY <1>1, <1>3, <2>1, WorkerInHand DEF StopsClean
<1>4. CASE RetryWait \/ Time \/ Api
  BY <1>1, <1>4, OthersFailNone, InHandKept, CleanStep DEF InHand
<1>5. CASE Process
  BY <1>1, <1>5, ProcessInHand
<1>6. CASE UNCHANGED vars
  BY <1>1, <1>6, InHandKept DEF vars, memory, NoNewFailure, InHand, StopsClean, WithStatus
<1> QED
  BY <1>2, <1>3, <1>4, <1>5, <1>6 DEF Next

(* In a process that does not crash, no failure that the policy retries is *)
(* dropped: the worker that met it schedules a retry before it moves on.   *)
THEOREM FailuresAreScheduled ==
    MaxCrashes = 0 /\ Spec => []RetryableFailureIsScheduled
<1> DEFINE Inv == FailuresInHand /\ StopsClean /\ Uncrashed
<1>1. MaxCrashes = 0 /\ Init => Inv /\ DownIsIdle
  <2>1. Init => FailuresInHand
    BY NotFailed DEF Init, NoRow, NewRow, FailuresInHand
  <2> QED
    BY <2>1 DEF Init, StopsClean, Uncrashed, DownIsIdle
<1>2. TypeOK /\ ActiveIsHeld /\ DownIsIdle /\ Inv /\ [Next]_vars => Inv'
  BY InHandStep
<1>3. Inv => RetryableFailureIsScheduled
  BY DEF FailuresInHand, LookedAt, InHand, RetryableFailureIsScheduled, WithStatus
<1> HIDE DEF Inv
<1> QED
  BY <1>1, <1>2, <1>3, DownStep, TypeCorrect, ActiveTaskIsRunning, PTL DEF Spec

-----------------------------------------------------------------------------
(* Who makes a manual retry.                                               *)

\* Whatever is new is not a manual retry.
NoNewManual(d, e) ==
    \A c \in Ids : ~Exists(d, c) /\ Exists(e, c) => e[c].source # "manual-retry"

LEMMA CreateMakesNoManual ==
    ASSUME NEW d \in DbType, NEW i \in Ids, NEW new, NEW child,
           CreateAutoRetryChild(d, i, new, child)
    PROVE  NoNewManual(d, new)
<1> DEFINE marked == [d EXCEPT ![i].scheduled = TRUE]
<1>1. marked \in DbType /\ \A j \in Ids : marked[j].status = d[j].status
  BY MarkedRow
<1>2. CASE new = d \/ new = marked
  BY <1>1, <1>2 DEF NoNewManual, Exists
<1>3. CASE child \in Ids /\ new = [marked EXCEPT ![child] = AutoRetryChild(i, d[i])]
  <2>1. AutoRetryChild(i, d[i]).source = "auto-retry"
    BY DEF AutoRetryChild, RetryChild, NewRow
  <2>2. new[child].source = "auto-retry" /\ \A j \in Ids : j # child => new[j] = marked[j]
    BY <1>1, <1>3, <2>1 DEF DbType
  <2> QED
    BY <1>1, <2>2 DEF NoNewManual, Exists
<1>4. \/ new = d \/ new = marked
      \/ /\ child \in Ids
         /\ new = [d EXCEPT ![i].scheduled = TRUE, ![child] = AutoRetryChild(i, d[i])]
  BY Zenon DEF CreateAutoRetryChild
<1> QED
  BY <1>2, <1>3, <1>4

\* A task that is there after any of these was there before.
LEMMA NothingNew ==
    ASSUME NEW d, NEW e, \A j \in Ids : Exists(e, j) => Exists(d, j)
    PROVE  NoNewManual(d, e)
BY DEF NoNewManual

LEMMA ScheduleMakesNoManual ==
    ASSUME TypeOK, NEW i \in Ids, NEW T, ScheduleRetryAfterTerminal(i, T)
    PROVE  NoNewManual(db, db')
<1>1. db \in DbType
  BY DEF TypeOK, DbType
<1>2. CASE db' = CancelPendingAutoRetries(db, db[i].path, i)
  <2>1. \A j \in Ids : db'[j].status # db[j].status => db[j].status \in PendingTaskStatuses
    BY <1>2 DEF CancelPendingAutoRetries, PendingAutoRetries
  <2> QED
    BY <2>1 DEF NoNewManual, Exists, PendingTaskStatuses
<1>3. CASE \E child \in Ids \cup {NoId} : CreateAutoRetryChild(db, i, db', child)
  BY <1>1, <1>3, CreateMakesNoManual
<1>4. CASE db' = db
  BY <1>4 DEF NoNewManual, Exists
<1> QED
  BY <1>2, <1>3, <1>4 DEF ScheduleRetryAfterTerminal

LEMMA RecoverMakesNoManual ==
    ASSUME TypeOK, Recover
    PROVE  NoNewManual(db, db')
<1> DEFINE active == WithStatus(db, ActiveTaskStatuses)
           marked == MarkActiveInterrupted(db)
           settled == Activate(marked, DueRetries(db))
<1>1. settled \in DbType
  BY MarkType, ActivateType DEF TypeOK, DbType
<1>2. \A j \in Ids : Exists(settled, j) => Exists(db, j)
  <2>1. \A j \in Ids : db[j] \in RowType /\ marked[j] \in RowType
    BY MarkType DEF TypeOK, DbType
  <2>2. \A j \in Ids : Exists(marked, j) => Exists(db, j)
    BY DEF MarkActiveInterrupted, Exists, ActiveTaskStatuses
  <2> HIDE DEF marked
  <2>3. \A j \in Ids : Exists(settled, j) => Exists(db, j)
    BY <2>1, <2>2 DEF Activate, DueRetries, Exists
  <2> QED
    BY <2>3
<1>3. NoNewManual(settled, db')
  <2>1. active \subseteq Ids
    BY DEF WithStatus
  <2> HIDE DEF active, settled
  <2>2. \/ db' = settled
        \/ \E i \in active, child \in Ids \cup {NoId} :
              CreateAutoRetryChild(settled, i, db', child)
    BY DEF Recover, active, settled
  <2>3. CASE db' = settled
    BY <2>3 DEF NoNewManual, Exists
  <2>4. CASE \E i \in active, child \in Ids \cup {NoId} :
                CreateAutoRetryChild(settled, i, db', child)
    BY <1>1, <2>1, <2>4, CreateMakesNoManual
  <2> QED
    BY <2>2, <2>3, <2>4
<1> HIDE DEF settled, marked, active
<1> QED
  BY <1>2, <1>3 DEF NoNewManual

\* What the property says of a step.
Replaces ==
    \A c \in Ids :
        ~Exists(db, c) /\ Exists(db', c) /\ db'[c].source = "manual-retry" =>
            PendingAutoRetries(db', db'[c].path, db'[c].parent) = {}

LEMMA NoManualReplaces ==
    ASSUME NoNewManual(db, db')
    PROVE  Replaces
BY DEF NoNewManual, Replaces

LEMMA RetryReplacesOthers ==
    ASSUME TypeOK, NEW o \in Ids, RetryTask(o)
    PROVE  Replaces
<1> DEFINE r == ManualRetryChild(o)
           cancelled == CancelPendingAutoRetries(db, db[o].path, o)
<1>1. db \in DbType /\ cancelled \in DbType
  BY CancelType DEF TypeOK, DbType
<1>2. PICK i \in Ids :
        /\ IsNextId(db, i)
        /\ \/ RetryRivals(o) = {} /\ db' = [db EXCEPT ![i] = r]
           \/ db' = [cancelled EXCEPT ![i] = r]
  BY DEF RetryTask, ApiCommits
<1>3. r.path = db[o].path /\ r.parent = o /\ r.source = "manual-retry"
  BY DEF ManualRetryChild, RetryChild, NewRow
<1>4. \A j \in Ids : ~Exists(db, j) => ~Exists(cancelled, j)
  BY DEF CancelPendingAutoRetries, PendingAutoRetries, Exists, PendingTaskStatuses
<1>5. ASSUME NEW j \in Ids, cancelled[j].source = "auto-retry",
             cancelled[j].status \in PendingTaskStatuses, cancelled[j].path = db[o].path, j # o
      PROVE  FALSE
  <2>1. db[j] \in RowType
    BY <1>1 DEF DbType
  <2>2. CASE j \in PendingAutoRetries(db, db[o].path, o)
    <3>1. cancelled[j].status = "skipped_existing_subtitle"
      BY <2>1, <2>2 DEF CancelPendingAutoRetries, RowType
    <3> QED
      BY <1>5, <3>1 DEF PendingTaskStatuses
  <2>3. CASE j \notin PendingAutoRetries(db, db[o].path, o)
    BY <1>5, <2>3 DEF CancelPendingAutoRetries, PendingAutoRetries
  <2> QED
    BY <2>2, <2>3
<1>6. ASSUME NEW j \in Ids, RetryRivals(o) = {}, db[j].source = "auto-retry",
             db[j].status \in PendingTaskStatuses, db[j].path = db[o].path, j # o
      PROVE  FALSE
  <2>1. j # NoId
    BY DEF Ids, NoId
  <2> QED
    BY <1>6, <2>1 DEF RetryRivals, InFlightForPath, InFlightTaskStatuses
<1> HIDE DEF r, cancelled
<1>7. db'[i] = r /\ \A c \in Ids : ~Exists(db, c) /\ Exists(db', c) => c = i
  BY <1>1, <1>2, <1>4 DEF Exists, DbType
<1>8. PendingAutoRetries(db', db[o].path, o) = {}
  <2> SUFFICES ASSUME NEW j \in PendingAutoRetries(db', db[o].path, o) PROVE FALSE
    OBVIOUS
  <2>1. /\ j \in Ids /\ j # o /\ db'[j].source = "auto-retry" /\ db'[j].path = db[o].path
        /\ db'[j].status \in PendingTaskStatuses
    BY DEF PendingAutoRetries
  <2>2. j # i
    BY <1>3, <1>7, <2>1
  <2>3. \/ RetryRivals(o) = {} /\ db'[j] = db[j]
        \/ db'[j] = cancelled[j]
    BY <1>1, <1>2, <2>1, <2>2 DEF DbType
  <2> QED
    BY <1>5, <1>6, <2>1, <2>3
<1> QED
  BY <1>3, <1>7, <1>8 DEF Replaces

LEMMA StepReplaces == TypeOK /\ [Next]_vars => Replaces
<1> SUFFICES ASSUME TypeOK, [Next]_vars PROVE Replaces
  OBVIOUS
<1>1. ASSUME \A j \in Ids : Exists(db', j) => Exists(db, j) PROVE Replaces
  BY <1>1, NothingNew, NoManualReplaces
<1>2. ASSUME UNCHANGED db PROVE Replaces
  BY <1>1, <1>2 DEF Exists
<1>3. ASSUME NEW i \in Ids, NEW s, Writes(i, s) PROVE Replaces
  BY <1>1, <1>3 DEF Writes, Exists
<1>4. CASE Preflight
  <2>1. CASE PreflightTake
    BY <1>2, <2>1 DEF PreflightTake
  <2>2. ASSUME NEW i \in Ids, PreflightRun(i) PROVE Replaces
    BY <1>2, <1>3, <2>2, PreflightWrites
  <2>3. CASE PreflightForwards \/ PreflightTriesAgain
    BY <1>2, <2>3 DEF PreflightForwards, PreflightTriesAgain
  <2>4. CASE PreflightEnds
    <3>1. preflight.task \in Ids
      BY <2>4 DEF PreflightEnds, TypeOK, HolderType, PreflightPcs, NoId
    <3> QED
      BY <2>4, <3>1, ScheduleMakesNoManual, NoManualReplaces DEF PreflightEnds
  <2>5. CASE PreflightRecordsFailure
    BY <1>2, <1>3, <2>5, PreflightFailureWrites
  <2> QED
    BY <1>4, <2>1, <2>2, <2>3, <2>4, <2>5 DEF Preflight, PreflightReturns
<1>5. CASE Worker
  <2>1. CASE WorkerTake
    BY <1>2, <2>1 DEF WorkerTake
  <2>2. ASSUME NEW i \in Ids, ProcessorCommits(i) \/ ProcessorReturns(i) PROVE Replaces
    BY <1>2, <1>3, <2>2, ProcessorWrites
  <2>3. CASE WorkerSchedules
    <3>1. worker.task \in Ids
      BY <2>3 DEF WorkerSchedules, TypeOK, HolderType, WorkerPcs, NoId
    <3> QED
      BY <2>3, <3>1, ScheduleMakesNoManual, NoManualReplaces DEF WorkerSchedules
  <2>4. CASE WorkerRecordsFailure
    BY <1>2, <1>3, <2>4, WorkerFailureWrites
  <2> QED
    BY <1>5, <2>1, <2>2, <2>3, <2>4 DEF Worker
<1>6. CASE RetryWait \/ Time
  <2>1. \A j \in Ids : db[j] \in RowType
    BY DEF TypeOK
  <2>2. ASSUME NEW i \in Ids, ActivateRetry(i) PROVE Replaces
    BY <1>1, <2>1, <2>2 DEF ActivateRetry, Activate, DueRetries, Exists
  <2>3. ASSUME NEW i \in Ids, RetryComesDue(i) \/ NfoWindowCloses(i) PROVE Replaces
    BY <1>1, <2>1, <2>3 DEF RetryComesDue, NfoWindowCloses, Exists, TypeOK, RowType
  <2>4. CASE RetryPoll
    BY <1>2, <2>4 DEF RetryPoll, vars
  <2> QED
    BY <1>6, <2>2, <2>3, <2>4 DEF RetryWait, Time
<1>7. CASE Api
  <2>1. ASSUME NEW path \in Paths, NEW source \in JobSources, AddJob(path, source)
        PROVE  Replaces
    <3> DEFINE r == NewRow("queued", path, source, 0, NoId, source = "moviepilot-csf")
    <3>1. PICK i \in Ids : db' = [db EXCEPT ![i] = r]
      BY <2>1 DEF AddJob, ApiCommits
    <3>2. r.source # "manual-retry"
      BY QueueAssumption DEF NewRow, EntrySources
    <3> HIDE DEF r
    <3>3. NoNewManual(db, db')
      BY <3>1, <3>2 DEF NoNewManual, Exists, TypeOK
    <3> QED
      BY <3>3, NoManualReplaces
  <2>2. ASSUME NEW o \in Ids, RetryTask(o) PROVE Replaces
    BY <2>2, RetryReplacesOthers
  <2>3. ASSUME NEW i \in Ids, DeleteTask(i) PROVE Replaces
    BY <1>1, <2>3 DEF DeleteTask, ApiCommits, NoRow, NewRow, Exists, TypeOK
  <2>4. ASSUME NEW i \in Ids, ApiEnqueue(i) PROVE Replaces
    BY <1>2, <2>4 DEF ApiEnqueue
  <2>5. CASE DeleteAllTasks
    BY <1>1, <2>5 DEF DeleteAllTasks, ApiCommits, NoRow, NewRow, Exists
  <2> QED
    BY <1>7, <2>1, <2>2, <2>3, <2>4, <2>5, Zenon DEF Api
<1>8. CASE Process
  <2>1. CASE Start /\ RecoverOnStart
    BY <2>1, RecoverMakesNoManual, NoManualReplaces DEF Start
  <2>2. CASE UNCHANGED db
    BY <1>2, <2>2
  <2> QED
    BY <1>8, <2>1, <2>2 DEF Process, Crash, Stop, StopCompletes, Start
<1>9. CASE UNCHANGED vars
  BY <1>2, <1>9 DEF vars
<1> QED
  BY <1>4, <1>5, <1>6, <1>7, <1>8, <1>9 DEF Next

(* When a manual retry is made, no other automatic retry of its path is    *)
(* left waiting, whatever was waiting, active or deleted before.           *)
THEOREM ManualReplacesAutomatic == Spec => ManualRetryReplacesAutomatic
<1>1. TypeOK /\ [Next]_vars => [Replaces]_vars
  BY StepReplaces
<1> QED
  BY <1>1, TypeCorrect, PTL DEF Spec, ManualRetryReplacesAutomatic, Replaces
=============================================================================
