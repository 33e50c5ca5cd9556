----------------------- MODULE QueueKeepingProofs ------------------------
(***************************************************************************)
(* Proofs about where a task is, for every value of the constants: in a    *)
(* queue, in a lane or in the hands of the preflight worker, once, and     *)
(* _queued_task_ids knows it exactly as long.  Where nothing is deleted,   *)
(* no task is preflighted and processed at the same time, and no queued    *)
(* task is forgotten.                                                      *)
(***************************************************************************)
EXTENDS TaskQueueProofs

-----------------------------------------------------------------------------
(* Queues.                                                                 *)

LEMMA AppendElements ==
    ASSUME NEW s \in Seq(Ids), NEW i \in Ids
    PROVE  /\ Append(s, i) \in Seq(Ids)
           /\ Elements(Append(s, i)) = Elements(s) \cup {i}
           /\ Distinct(s) /\ i \notin Elements(s) => Distinct(Append(s, i))
<1>1. /\ Append(s, i) \in Seq(Ids) /\ Len(s) \in Nat
      /\ DOMAIN s = 1..Len(s) /\ DOMAIN Append(s, i) = 1..(Len(s) + 1)
      /\ \A k \in 1..Len(s) : Append(s, i)[k] = s[k]
      /\ Append(s, i)[Len(s) + 1] = i
  OBVIOUS
<1>2. \A k \in 1..(Len(s) + 1) : k \in 1..Len(s) \/ k = Len(s) + 1
  BY <1>1
<1>3. \A k \in 1..Len(s) : k \in 1..(Len(s) + 1) /\ k # Len(s) + 1
  BY <1>1
<1>4. Len(s) + 1 \in 1..(Len(s) + 1)
  BY <1>1
<1> DEFINE t == Append(s, i)
           n == Len(s) + 1
<1>5. Elements(t) = Elements(s) \cup {i}
  <2>1. \A x \in Elements(t) : x \in Elements(s) \cup {i}
    BY <1>1, <1>2 DEF Elements
  <2>2. \A x \in Elements(s) \cup {i} : x \in Elements(t)
    BY <1>1, <1>3, <1>4 DEF Elements
  <2> QED
    BY <2>1, <2>2
<1>6. ASSUME Distinct(s), i \notin Elements(s)
      PROVE  Distinct(t)
  BY <1>1, <1>2, <1>6 DEF Distinct, Elements
<1> QED
  BY <1>1, <1>5, <1>6

LEMMA TailElements ==
    ASSUME NEW s \in Seq(Ids), s # <<>>
    PROVE  /\ Head(s) \in Ids /\ Tail(s) \in Seq(Ids)
           /\ Head(s) \in Elements(s)
           /\ Elements(Tail(s)) \subseteq Elements(s)
           /\ Elements(s) \subseteq Elements(Tail(s)) \cup {Head(s)}
           /\ Distinct(s) => Distinct(Tail(s)) /\ Head(s) \notin Elements(Tail(s))
<1>1. /\ Len(s) \in Nat /\ Len(s) >= 1 /\ Tail(s) \in Seq(Ids) /\ Head(s) = s[1]
      /\ Head(s) \in Ids
      /\ DOMAIN s = 1..Len(s) /\ DOMAIN Tail(s) = 1..(Len(s) - 1)
      /\ \A k \in 1..(Len(s) - 1) : Tail(s)[k] = s[k + 1]
  OBVIOUS
<1>2. \A k \in 1..(Len(s) - 1) : k + 1 \in 1..Len(s) /\ k + 1 # 1
  BY <1>1
<1>3. \A k \in 1..Len(s) : k = 1 \/ (k - 1 \in 1..(Len(s) - 1) /\ (k - 1) + 1 = k)
  BY <1>1
<1>4. 1 \in 1..Len(s)
  BY <1>1
<1>5. Head(s) \in Elements(s)
  BY <1>1, <1>4 DEF Elements
<1>6. Elements(Tail(s)) \subseteq Elements(s)
  BY <1>1, <1>2 DEF Elements
<1>7. Elements(s) \subseteq Elements(Tail(s)) \cup {Head(s)}
  <2> SUFFICES ASSUME NEW k \in 1..Len(s) PROVE s[k] \in Elements(Tail(s)) \cup {Head(s)}
    BY <1>1 DEF Elements
  <2>1. CASE k = 1
    BY <1>1, <2>1
  <2>2. CASE k - 1 \in 1..(Len(s) - 1) /\ (k - 1) + 1 = k
    <3>1. s[k] = Tail(s)[k - 1] /\ k - 1 \in DOMAIN Tail(s)
      BY <1>1, <2>2
    <3> QED
      BY <3>1 DEF Elements
  <2> QED
    BY <1>3, <2>1, <2>2
<1>8. ASSUME Distinct(s) PROVE Distinct(Tail(s)) /\ Head(s) \notin Elements(Tail(s))
  <2>1. ASSUME NEW j \in 1..(Len(s) - 1), NEW k \in 1..(Len(s) - 1), Tail(s)[j] = Tail(s)[k]
        PROVE  j = k
    <3>1. s[j + 1] = s[k + 1] /\ j + 1 \in 1..Len(s) /\ k + 1 \in 1..Len(s)
      BY <1>1, <1>2, <2>1
    <3>2. j + 1 = k + 1
      BY <1>1, <1>8, <3>1 DEF Distinct
    <3> QED
      BY <3>2
  <2>2. ASSUME NEW k \in 1..(Len(s) - 1) PROVE Tail(s)[k] # Head(s)
    <3>1. Tail(s)[k] = s[k + 1] /\ k + 1 \in 1..Len(s) /\ k + 1 # 1
      BY <1>1, <1>2
    <3> QED
      BY <1>1, <1>4, <1>8, <3>1 DEF Distinct
  <2> QED
    BY <1>1, <2>1, <2>2 DEF Distinct, Elements
<1> QED
  BY <1>1, <1>5, <1>6, <1>7, <1>8

-----------------------------------------------------------------------------
(* The books: what the queue `q', the lanes `w', the preflight's hands `h' *)
(* and the identifiers `ids' have to do with each other, as long as the    *)
(* preflight worker is `alive'.                                            *)

Waiting(q, w) == Elements(q) \cup Elements(w[0]) \cup Elements(w[1])

Booked(q, w, h, ids, alive) ==
    /\ Distinct(q) /\ Distinct(w[0]) /\ Distinct(w[1])
    /\ Elements(q) \cap (Elements(w[0]) \cup Elements(w[1])) = {}
    /\ Elements(w[0]) \cap Elements(w[1]) = {}
    /\ h \notin Waiting(q, w)
    /\ Waiting(q, w) \subseteq ids
    /\ h # NoId => h \in ids
    /\ alive => ids \subseteq Waiting(q, w) \cup {h}

Books == Booked(preflightQ, workQ, preflight.task, queuedIds, preflight.pc # "dead")

LEMMA BooksAreProperty == Books => QueuedOnce
BY DEF Books, Booked, Waiting, QueuedOnce, InLanes

LEMMA EnqueueBooked ==
    ASSUME NEW q \in Seq(Ids), NEW w, NEW h, NEW ids \in SUBSET Ids, NEW alive \in BOOLEAN,
           NEW i \in Ids, i \notin ids, Booked(q, w, h, ids, alive)
    PROVE  Booked(Append(q, i), w, h, ids \cup {i}, alive)
<1>1. /\ Elements(Append(q, i)) = Elements(q) \cup {i}
      /\ i \notin Elements(q) => Distinct(Append(q, i)) \/ ~Distinct(q)
  BY AppendElements
<1>2. i \notin Waiting(q, w) /\ i # h
  BY DEF Booked, Ids, NoId
<1> QED
  BY <1>1, <1>2 DEF Booked, Waiting

\* The preflight worker is done with its task.
LEMMA ReleaseBooked ==
    ASSUME NEW q \in Seq(Ids), NEW w, NEW h \in Ids, NEW ids \in SUBSET Ids,
           Booked(q, w, h, ids, TRUE)
    PROVE  /\ Booked(q, w, NoId, ids \ {h}, TRUE)
           /\ Booked(q, w, NoId, ids, FALSE)
           /\ Booked(Append(q, h), w, NoId, ids, TRUE)
<1>1. NoId \notin Ids /\ NoId \notin Waiting(q, w)
  BY DEF Booked, NoId, Ids
<1>2. /\ Elements(Append(q, h)) = Elements(q) \cup {h}
      /\ h \notin Elements(q) => Distinct(Append(q, h)) \/ ~Distinct(q)
  BY AppendElements
<1>3. h # NoId /\ h \notin Waiting(q, w) /\ h \in ids
  BY <1>1 DEF Booked
<1>4. Booked(q, w, NoId, ids \ {h}, TRUE) /\ Booked(q, w, NoId, ids, FALSE)
  BY <1>1, <1>3 DEF Booked
<1>5. Booked(Append(q, h), w, NoId, ids, TRUE)
  BY <1>1, <1>2, <1>3 DEF Booked, Waiting
<1> QED
  BY <1>4, <1>5

\* It hands its task to the processing worker.
LEMMA ForwardBooked ==
    ASSUME NEW q \in Seq(Ids), NEW w \in [Priorities -> Seq(Ids)], NEW h \in Ids,
           NEW ids \in SUBSET Ids, NEW p \in Priorities, Booked(q, w, h, ids, TRUE)
    PROVE  Booked(q, [w EXCEPT ![p] = Append(@, h)], NoId, ids, TRUE)
<1> DEFINE v == [w EXCEPT ![p] = Append(@, h)]
<1>1. NoId \notin Ids /\ NoId \notin Waiting(q, w)
  BY DEF Booked, NoId, Ids
<1>2. h # NoId /\ h \notin Waiting(q, w) /\ h \in ids
  BY <1>1 DEF Booked
<1>3. /\ Elements(Append(w[p], h)) = Elements(w[p]) \cup {h}
      /\ h \notin Elements(w[p]) => Distinct(Append(w[p], h)) \/ ~Distinct(w[p])
  <2>1. w[p] \in Seq(Ids)
    OBVIOUS
  <2> QED
    BY <2>1, AppendElements
<1>4. \/ p = 0 /\ v[0] = Append(w[0], h) /\ v[1] = w[1]
      \/ p = 1 /\ v[1] = Append(w[1], h) /\ v[0] = w[0]
  BY DEF Priorities
<1> HIDE DEF v
<1>5. ASSUME p = 0, v[0] = Append(w[0], h), v[1] = w[1]
      PROVE  Booked(q, v, NoId, ids, TRUE)
  BY <1>1, <1>2, <1>3, <1>5 DEF Booked, Waiting
<1>6. ASSUME p = 1, v[1] = Append(w[1], h), v[0] = w[0]
      PROVE  Booked(q, v, NoId, ids, TRUE)
  BY <1>1, <1>2, <1>3, <1>6 DEF Booked, Waiting
<1> QED
  BY <1>4, <1>5, <1>6 DEF v

\* It takes the first task that waits, and holds it or drops it.
LEMMA TakeBooked ==
    ASSUME NEW q \in Seq(Ids), q # <<>>, NEW w, NEW ids \in SUBSET Ids,
           Booked(q, w, NoId, ids, TRUE)
    PROVE  /\ Booked(Tail(q), w, Head(q), ids, TRUE)
           /\ Booked(Tail(q), w, NoId, ids \ {Head(q)}, TRUE)
<1>1. /\ Head(q) \in Elements(q)
      /\ Elements(Tail(q)) \subseteq Elements(q)
      /\ Elements(q) \subseteq Elements(Tail(q)) \cup {Head(q)}
      /\ Distinct(Tail(q)) /\ Head(q) \notin Elements(Tail(q))
  BY TailElements DEF Booked
<1>2. NoId \notin Ids
  BY DEF NoId, Ids
<1> QED
  BY <1>1, <1>2 DEF Booked, Waiting

\* The processing worker takes the first task of a lane.
LEMMA LaneBooked ==
    ASSUME NEW q, NEW w \in [Priorities -> Seq(Ids)], NEW h, NEW ids \in SUBSET Ids,
           NEW alive \in BOOLEAN, NEW p \in Priorities, w[p] # <<>>,
           Booked(q, w, h, ids, alive)
    PROVE  Booked(q, [w EXCEPT ![p] = Tail(@)], h, ids \ {Head(w[p])}, alive)
<1> DEFINE v == [w EXCEPT ![p] = Tail(@)]
           i == Head(w[p])
<1>1. \/ p = 0 /\ v[0] = Tail(w[0]) /\ v[1] = w[1]
      \/ p = 1 /\ v[1] = Tail(w[1]) /\ v[0] = w[0]
  BY DEF Priorities
<1>2. Distinct(w[p])
  BY DEF Booked, Priorities
<1>3. /\ i \in Elements(w[p])
      /\ Elements(Tail(w[p])) \subseteq Elements(w[p])
      /\ Elements(w[p]) \subseteq Elements(Tail(w[p])) \cup {i}
      /\ Distinct(Tail(w[p])) /\ i \notin Elements(Tail(w[p]))
  <2>1. w[p] \in Seq(Ids)
    OBVIOUS
  <2> QED
    BY <1>2, <2>1, TailElements
<1> HIDE DEF v, i
<1>4. i \in Waiting(q, w) /\ i # h
  BY <1>3 DEF Booked, Waiting, Priorities
<1>5. ASSUME p = 0, v[0] = Tail(w[0]), v[1] = w[1]
      PROVE  Booked(q, v, h, ids \ {i}, alive)
  BY <1>3, <1>4, <1>5 DEF Booked, Waiting
<1>6. ASSUME p = 1, v[1] = Tail(w[1]), v[0] = w[0]
      PROVE  Booked(q, v, h, ids \ {i}, alive)
  BY <1>3, <1>4, <1>6 DEF Booked, Waiting
<1> QED
  BY <1>1, <1>5, <1>6 DEF v, i

\* recover() fills an empty queue.
LEMMA OrderBooked ==
    ASSUME NEW S \in SUBSET Ids, NEW q \in RecoveryOrders(S)
    PROVE  Booked(q, EmptyLanes, NoId, S, TRUE)
<1>1. /\ Elements(q) = S /\ DOMAIN q = 1..Cardinality(S)
      /\ \A j \in DOMAIN q : q[j] \in S
  BY DEF RecoveryOrders
<1>2. IsFiniteSet(S)
  <2>1. MaxTaskId \in Int /\ 1 \in Int
    BY IdsAssumption
  <2>2. IsFiniteSet(Ids)
    BY <2>1, FS_Interval DEF Ids
  <2> QED
    BY <2>2, FS_Subset
<1>3. Cardinality(S) \in Nat
  BY <1>2, FS_CardinalityType
<1>4. PICK hits \in SUBSET S :
        \A j, k \in DOMAIN q :
           j < k => \/ q[j] \in hits /\ q[k] \notin hits
                    \/ (q[j] \in hits <=> q[k] \in hits) /\ q[j] < q[k]
  BY DEF RecoveryOrders
<1>5. ASSUME NEW j \in DOMAIN q, NEW k \in DOMAIN q, j < k
      PROVE  q[j] # q[k]
  <2>1. q[j] \in Ids
    BY <1>1
  <2> QED
    BY <1>4, <1>5, <2>1 DEF Ids
<1>6. \A j, k \in DOMAIN q : j < k \/ k < j \/ j = k
  BY <1>1, <1>3
<1>7. Distinct(q)
  BY <1>5, <1>6 DEF Distinct
<1>8. Elements(<<>>) = {} /\ Distinct(<<>>)
  BY DEF Elements, Distinct
<1>9. EmptyLanes[0] = <<>> /\ EmptyLanes[1] = <<>>
  BY DEF EmptyLanes, Priorities
<1>10. NoId \notin S
  BY DEF NoId, Ids
<1> QED
  BY <1>1, <1>7, <1>8, <1>9, <1>10 DEF Booked, Waiting

-----------------------------------------------------------------------------
(* Every step keeps the books.                                             *)

LEMMA EnqueueKeepsBooks ==
    ASSUME TypeOK, NEW i \in Ids, NEW T \in SUBSET Ids, NEW h, NEW alive \in BOOLEAN,
           Booked(preflightQ, workQ, h, T, alive), EnqueueInto(i, T)
    PROVE  Booked(preflightQ', workQ, h, queuedIds', alive)
<1>1. CASE i \in T
  BY <1>1 DEF EnqueueInto
<1>2. CASE i \notin T
  <2>1. preflightQ \in Seq(Ids)
    BY DEF TypeOK
  <2>2. preflightQ' = Append(preflightQ, i) /\ queuedIds' = T \cup {i}
    BY <1>2 DEF EnqueueInto
  <2> QED
    BY <1>2, <2>1, <2>2, EnqueueBooked
<1> QED
  BY <1>1, <1>2

LEMMA ScheduleKeepsBooks ==
    ASSUME TypeOK, NEW i \in Ids, NEW T \in SUBSET Ids, NEW h, NEW alive \in BOOLEAN,
           Booked(preflightQ, workQ, h, T, alive), ScheduleRetryAfterTerminal(i, T)
    PROVE  Booked(preflightQ', workQ, h, queuedIds', alive)
<1>1. CASE queuedIds' = T /\ UNCHANGED preflightQ
  BY <1>1
<1>2. ASSUME NEW child \in Ids, EnqueueInto(child, T)
      PROVE  Booked(preflightQ', workQ, h, queuedIds', alive)
  BY <1>2, EnqueueKeepsBooks
<1> QED
  BY <1>1, <1>2 DEF ScheduleRetryAfterTerminal

LEMMA BooksKept ==
    ASSUME Books, UNCHANGED <<preflightQ, workQ, queuedIds>>, preflight'.task = preflight.task,
           preflight'.pc # "dead" <=> preflight.pc # "dead"
    PROVE  Books'
BY DEF Books

LEMMA BooksOf ==
    ASSUME Books, preflight.pc # "dead"
    PROVE  Booked(preflightQ, workQ, preflight.task, queuedIds, TRUE)
BY DEF Books

LEMMA NewBooks ==
    ASSUME Booked(preflightQ', workQ', NoId, queuedIds', TRUE), preflight' = Idle
    PROVE  Books'
BY DEF Books, Idle, At

LEMMA PreflightKeepsBooks ==
    ASSUME TypeOK, Books, Preflight
    PROVE  Books'
<1>1. CASE PreflightTake
  <2>1. /\ preflightQ \in Seq(Ids) /\ preflightQ # <<>> /\ queuedIds \in SUBSET Ids
        /\ preflight.task = NoId /\ preflight.pc # "dead"
        /\ preflightQ' = Tail(preflightQ) /\ workQ' = workQ
    BY <1>1 DEF PreflightTake, TypeOK
  <2>2. Booked(preflightQ, workQ, NoId, queuedIds, TRUE)
    BY <2>1, BooksOf
  <2>3. /\ Booked(Tail(preflightQ), workQ, Head(preflightQ), queuedIds, TRUE)
        /\ Booked(Tail(preflightQ), workQ, NoId, queuedIds \ {Head(preflightQ)}, TRUE)
    BY <2>1, <2>2, TakeBooked
  <2>4. \/ /\ preflight'.task = Head(preflightQ) /\ preflight'.pc # "dead"
           /\ queuedIds' = queuedIds
        \/ /\ preflight'.task = NoId /\ preflight'.pc # "dead"
           /\ queuedIds' = queuedIds \ {Head(preflightQ)}
    BY <1>1, <2>1 DEF PreflightTake, At
  <2> QED
    BY <2>1, <2>3, <2>4 DEF Books
<1>2. ASSUME NEW i \in Ids, PreflightRun(i) PROVE Books'
  <2>1. UNCHANGED <<preflightQ, workQ, queuedIds>>
    BY <1>2 DEF PreflightRun, PreflightPasses, PreflightFails, PreflightSkips,
       PreflightAwaitsNfo, PreflightRaises, PreflightCommits, PreflightRollsBack
  <2>2. /\ preflight.task = i /\ preflight.pc # "dead"
        /\ preflight'.task = i /\ preflight'.pc # "dead"
    BY <1>2 DEF PreflightRun, PreflightPasses, PreflightFails, PreflightSkips,
       PreflightAwaitsNfo, PreflightRaises, PreflightCommits, PreflightRollsBack, At
  <2> QED
    BY <2>1, <2>2, BooksKept
<1>3. CASE PreflightReturns
  <2>1. /\ preflightQ \in Seq(Ids) /\ workQ \in [Priorities -> Seq(Ids)]
        /\ queuedIds \in SUBSET Ids
    BY DEF TypeOK
  <2>2. /\ preflight.pc \notin {"idle", "dead"} => preflight.task \in Ids
        /\ preflight.pc # "dead" =>
             Booked(preflightQ, workQ, preflight.task, queuedIds, TRUE)
    BY BooksOf DEF TypeOK, HolderType, NoId
  <2>3. CASE PreflightForwards
    <3>1. preflight.pc \notin {"idle", "dead"}
      BY <2>3 DEF PreflightForwards
    <3>2. PICK p \in PriorityOf(preflight.task) : Put(preflight.task, p)
      BY <2>3 DEF PreflightForwards
    <3>3. p \in Priorities
      BY DEF PriorityOf, Priorities
    <3>4. Booked(preflightQ, workQ', NoId, queuedIds, TRUE)
      BY <2>1, <2>2, <3>1, <3>2, <3>3, ForwardBooked DEF Put
    <3> QED
      BY <2>3, <3>4, NewBooks DEF PreflightForwards
  <2>4. CASE PreflightEnds
    <3>1. preflight.pc \notin {"idle", "dead"} /\ preflight.task \in Ids
      BY <2>2, <2>4 DEF PreflightEnds
    <3>2. Booked(preflightQ, workQ, NoId, queuedIds \ {preflight.task}, TRUE)
      BY <2>1, <2>2, <3>1, ReleaseBooked
    <3>3. Booked(preflightQ', workQ, NoId, queuedIds', TRUE)
      BY <2>1, <2>4, <3>1, <3>2, ScheduleKeepsBooks DEF PreflightEnds
    <3> QED
      BY <2>4, <3>3, NewBooks DEF PreflightEnds
  <2>5. CASE PreflightTriesAgain
    <3>1. preflight.pc \notin {"idle", "dead"} /\ preflight.task \in Ids
      BY <2>2, <2>5 DEF PreflightTriesAgain
    <3>2. /\ Booked(preflightQ, workQ, NoId, queuedIds \ {preflight.task}, TRUE)
          /\ Booked(Append(preflightQ, preflight.task), workQ, NoId, queuedIds, TRUE)
      BY <2>1, <2>2, <3>1, ReleaseBooked
    <3> QED
      BY <2>5, <3>2, NewBooks DEF PreflightTriesAgain
  <2>6. CASE PreflightRecordsFailure
    <3>1. preflight.pc \notin {"idle", "dead"} /\ preflight.task \in Ids
      BY <2>2, <2>6 DEF PreflightRecordsFailure
    <3>2. CASE Exists(db, preflight.task)
      <4>1. preflight'.task = preflight.task /\ preflight'.pc # "dead"
        BY <2>6, <3>2 DEF PreflightRecordsFailure, TypeOK, HolderType
      <4> QED
        BY <2>6, <3>1, <4>1, BooksKept DEF PreflightRecordsFailure
    <3>3. CASE ~Exists(db, preflight.task)
      <4>1. Booked(preflightQ, workQ, NoId, queuedIds, FALSE)
        BY <2>1, <2>2, <3>1, ReleaseBooked
      <4>2. preflight'.task = NoId /\ ~(preflight'.pc # "dead")
        BY <2>6, <3>3 DEF PreflightRecordsFailure, Dead, At
      <4> QED
        BY <2>6, <4>1, <4>2 DEF PreflightRecordsFailure, Books
    <3> QED
      BY <3>2, <3>3
  <2> QED
    BY <1>3, <2>3, <2>4, <2>5, <2>6 DEF PreflightReturns
<1> QED
  BY <1>1, <1>2, <1>3 DEF Preflight

LEMMA BooksBoolean == (preflight.pc # "dead") \in BOOLEAN
OBVIOUS

LEMMA WorkerKeepsBooks ==
    ASSUME TypeOK, Books, Worker
    PROVE  Books'
<1>1. CASE WorkerTake
  <2>1. PICK p \in Priorities :
          /\ workQ[p] # <<>>
          /\ workQ' = [workQ EXCEPT ![p] = Tail(@)]
          /\ queuedIds' = queuedIds \ {Head(workQ[p])}
    BY <1>1 DEF WorkerTake
  <2>2. Booked(preflightQ, workQ', preflight.task, queuedIds', preflight.pc # "dead")
    BY <2>1, LaneBooked, BooksBoolean DEF TypeOK, Books
  <2> QED
    BY <1>1, <2>2 DEF WorkerTake, Books
<1>2. ASSUME NEW i \in Ids, ProcessorCommits(i) \/ ProcessorReturns(i) PROVE Books'
  BY <1>2, BooksKept DEF ProcessorCommits, ProcessorReturns, ProcessorCompletes,
     ProcessorFails, ProcessorSkips, ProcessorRaises, ProcessorStep
<1>3. CASE WorkerSchedules
  <2>1. worker.task \in Ids
    BY <1>3 DEF WorkerSchedules, TypeOK, HolderType, WorkerPcs, NoId
  <2>2. Booked(preflightQ', workQ, preflight.task, queuedIds', preflight.pc # "dead")
    BY <1>3, <2>1, ScheduleKeepsBooks, BooksBoolean DEF WorkerSchedules, TypeOK, Books
  <2> QED
    BY <1>3, <2>2 DEF WorkerSchedules, Books
<1>4. CASE WorkerRecordsFailure
  BY <1>4, BooksKept DEF WorkerRecordsFailure
<1> QED
  BY <1>1, <1>2, <1>3, <1>4 DEF Worker

LEMMA EnqueuingKeepsBooks ==
    ASSUME TypeOK, Books, NEW i \in Ids, EnqueueInto(i, queuedIds),
           UNCHANGED <<workQ, preflight>>
    PROVE  Books'
<1>1. Booked(preflightQ', workQ, preflight.task, queuedIds', preflight.pc # "dead")
  BY EnqueueKeepsBooks, BooksBoolean DEF TypeOK, Books
<1> QED
  BY <1>1 DEF Books

LEMMA OthersKeepBooks ==
    ASSUME TypeOK, Books, RetryWait \/ Time \/ Api
    PROVE  Books'
<1>1. ASSUME NEW i \in Ids, ActivateRetry(i) \/ ApiEnqueue(i) PROVE Books'
  BY <1>1, EnqueuingKeepsBooks DEF ActivateRetry, ApiEnqueue
<1>2. CASE UNCHANGED <<preflightQ, workQ, queuedIds, preflight>>
  BY <1>2, BooksKept
<1> QED
  BY <1>1, <1>2 DEF RetryWait, Time, Api, RetryPoll, RetryComesDue, NfoWindowCloses, vars,
     memory, AddJob, RetryTask, DeleteTask, DeleteAllTasks, ApiCommits

\* What a process that is down has in its memory.
DownIsEmpty == mode = "down" => DownIsIdle /\ workQ = EmptyLanes /\ apiPending = {}

LEMMA EmptyBooks ==
    ASSUME EmptyMemory
    PROVE  Books'
<1>1. Elements(<<>>) = {} /\ Distinct(<<>>)
  BY DEF Elements, Distinct
<1>2. EmptyLanes[0] = <<>> /\ EmptyLanes[1] = <<>>
  BY DEF EmptyLanes, Priorities
<1>3. Booked(<<>>, EmptyLanes, NoId, {}, TRUE)
  BY <1>1, <1>2 DEF Booked, Waiting
<1> QED
  BY <1>3, NewBooks DEF EmptyMemory

LEMMA ProcessKeepsBooks ==
    ASSUME TypeOK, Books, DownIsEmpty, Process
    PROVE  Books'
<1>1. CASE Crash \/ StopCompletes
  BY <1>1, EmptyBooks DEF Crash, StopCompletes
<1>2. CASE Stop
  BY <1>2, BooksKept DEF Stop, memory
<1>3. CASE Start /\ RecoverOnStart
  <2> DEFINE queued == WithStatus(db', {"queued"})
  <2>1. /\ workQ' = EmptyLanes /\ preflight' = Idle
        /\ preflightQ' \in RecoveryOrders(queued) /\ queuedIds' = queued
    BY <1>3 DEF Start, DownIsEmpty, DownIsIdle, Recover
  <2>2. queued \in SUBSET Ids
    BY DEF WithStatus
  <2> HIDE DEF queued
  <2> QED
    BY <2>1, <2>2, OrderBooked, NewBooks
<1>4. CASE Start /\ ~RecoverOnStart
  BY <1>4, BooksKept DEF Start
<1> QED
  BY <1>1, <1>2, <1>3, <1>4 DEF Process

LEMMA EmptyStep == TypeOK /\ DownIsEmpty /\ [Next]_vars => DownIsEmpty'
<1> SUFFICES ASSUME TypeOK, DownIsEmpty, [Next]_vars PROVE DownIsEmpty'
  OBVIOUS
<1>1. DownIsIdle'
  BY DownStep DEF DownIsEmpty, DownIsIdle
<1>2. CASE Preflight
  <2>1. mode' = mode /\ mode # "down"
    BY <1>2 DEF Preflight, PreflightTake, PreflightReturns, PreflightRun, PreflightPasses,
       PreflightFails, PreflightSkips, PreflightAwaitsNfo, PreflightRaises, PreflightCommits,
       PreflightRollsBack
  <2> QED
    BY <2>1 DEF DownIsEmpty
<1>3. CASE Worker
  <2>1. mode' = mode /\ mode # "down"
    BY <1>3 DEF Worker, WorkerTake, WorkerSchedules, WorkerRecordsFailure, ProcessorCommits,
       ProcessorReturns, ProcessorCompletes, ProcessorFails, ProcessorSkips, ProcessorRaises,
       ProcessorStep
  <2> QED
    BY <2>1 DEF DownIsEmpty
<1>4. CASE RetryWait \/ Time
  BY <1>1, <1>4 DEF DownIsEmpty, RetryWait, Time, RetryPoll, ActivateRetry, RetryComesDue,
     NfoWindowCloses, vars, memory
<1>5. CASE Api
  BY <1>5 DEF DownIsEmpty, Api, AddJob, RetryTask, DeleteTask, DeleteAllTasks, ApiEnqueue,
     ApiCommits
<1>6. CASE Process
  BY <1>1, <1>6 DEF DownIsEmpty, Process, Crash, Stop, StopCompletes, Start, EmptyMemory
<1>7. CASE UNCHANGED vars
  BY <1>1, <1>7 DEF DownIsEmpty, vars, memory
<1> QED
  BY <1>2, <1>3, <1>4, <1>5, <1>6, <1>7 DEF Next

LEMMA BooksCorrect == Spec => [](Books /\ DownIsEmpty)
<1>1. Init => Books /\ DownIsEmpty
  <2>1. Elements(<<>>) = {} /\ Distinct(<<>>)
    BY DEF Elements, Distinct
  <2>2. EmptyLanes[0] = <<>> /\ EmptyLanes[1] = <<>>
    BY DEF EmptyLanes, Priorities
  <2>3. Booked(<<>>, EmptyLanes, NoId, {}, TRUE)
    BY <2>1, <2>2 DEF Booked, Waiting
  <2>4. ASSUME Init PROVE Books
    <3>1. preflight.task = NoId /\ (preflight.pc # "dead") = TRUE
      BY <2>4 DEF Init, Idle, At
    <3>2. preflightQ = <<>> /\ workQ = EmptyLanes /\ queuedIds = {}
      BY <2>4 DEF Init
    <3> QED
      BY <2>3, <3>1, <3>2 DEF Books
  <2>5. Init => DownIsEmpty
    BY DEF Init, DownIsEmpty
  <2> QED
    BY <2>4, <2>5
<1>2. TypeOK /\ Books /\ DownIsEmpty /\ [Next]_vars => Books' /\ DownIsEmpty'
  <2>1. TypeOK /\ Books /\ UNCHANGED vars => Books'
    BY BooksKept DEF vars, memory
  <2> QED
    BY <2>1, EmptyStep, PreflightKeepsBooks, WorkerKeepsBooks, OthersKeepBooks,
       ProcessKeepsBooks DEF Next
<1> QED
  BY <1>1, <1>2, TypeCorrect, PTL DEF Spec

(* A task is in one place at a time, and _queued_task_ids says so.         *)
THEOREM QueuedExactlyOnce == Spec => []QueuedOnce
BY BooksCorrect, BooksAreProperty, PTL

-----------------------------------------------------------------------------
(***************************************************************************)
(* A service in which nothing is deleted.                                  *)
(*                                                                         *)
(* The argument is about the tasks that have a place: a handler has yet to *)
(* enqueue them, the queue knows them, or the processing worker has them.  *)
(* A place is one of the three, and what is not in the table or waits for  *)
(* its retry has none; so whatever is enqueued is new to the queue.        *)
(***************************************************************************)


Known == apiPending \cup queuedIds \cup ({worker.task} \ {NoId})

Placed ==
    /\ budget.deletes = 0
    /\ preflight.pc # "dead"
    /\ \A i \in Known : Exists(db, i) /\ db[i].status # "retry_wait"
    /\ apiPending \cap queuedIds = {}
    /\ worker.task \notin apiPending \cup queuedIds

Remembered ==
    /\ preflight.pc = "ended" => db[preflight.task].status # "queued"
    /\ worker.pc = "done" => db[worker.task].status # "queued"
    /\ mode = "running" => WithStatus(db, {"queued"}) \subseteq Known

-----------------------------------------------------------------------------
(* Steps of the table in which no task goes away, and none but those of a  *)
(* set is queued that was not.                                             *)

Calm(d, e, N) ==
    \A j \in Ids :
        /\ Exists(d, j) => Exists(e, j)
        /\ e[j].status = "retry_wait" => d[j].status = "retry_wait" \/ ~Exists(d, j)
        /\ e[j].status = "queued" => d[j].status = "queued" \/ j \in N

LEMMA SameIsCalm ==
    ASSUME NEW d, NEW e, \A j \in Ids : e[j].status = d[j].status
    PROVE  Calm(d, e, {})
BY DEF Calm, Exists

LEMMA CancelIsCalm ==
    ASSUME NEW d \in DbType, NEW p, NEW x
    PROVE  Calm(d, CancelPendingAutoRetries(d, p, x), {})
<1> SUFFICES ASSUME NEW j \in Ids
             PROVE  \/ CancelPendingAutoRetries(d, p, x)[j].status = d[j].status
                    \/ CancelPendingAutoRetries(d, p, x)[j].status = "skipped_existing_subtitle"
  BY DEF Calm, Exists
<1>1. d[j] \in RowType
  BY DEF DbType
<1> QED
  BY <1>1 DEF CancelPendingAutoRetries, RowType

LEMMA ActivateIsCalm ==
    ASSUME NEW d \in DbType, NEW S, \A j \in S : d[j].status = "retry_wait"
    PROVE  /\ Calm(d, Activate(d, S), S)
           /\ \A j \in Ids : Activate(d, S)[j].status = IF j \in S THEN "queued" ELSE d[j].status
<1>1. \A j \in Ids : d[j] \in RowType
  BY DEF DbType
<1>2. \A j \in Ids : Activate(d, S)[j].status = IF j \in S THEN "queued" ELSE d[j].status
  BY <1>1 DEF Activate, RowType
<1> QED
  BY <1>2 DEF Calm, Exists

LEMMA InsertIsCalm ==
    ASSUME NEW d \in DbType, NEW i \in Ids, NEW r, ~Exists(d, i), r.status = "queued"
    PROVE  Calm(d, [d EXCEPT ![i] = r], {i})
BY DEF Calm, Exists, DbType

LEMMA CreateIsCalm ==
    ASSUME NEW d \in DbType, NEW i \in Ids, NEW new, NEW child \in Ids \cup {NoId},
           CreateAutoRetryChild(d, i, new, child)
    PROVE  /\ Calm(d, new, {child})
           /\ child # NoId => ~Exists(d, child) /\ Exists(new, child)
<1> DEFINE marked == [d EXCEPT ![i].scheduled = TRUE]
<1>1. marked \in DbType /\ \A j \in Ids : marked[j].status = d[j].status
  BY MarkedRow
<1>2. CASE child = NoId /\ (new = d \/ new = marked)
  BY <1>1, <1>2 DEF Calm, Exists
<1>3. CASE /\ child \in Ids /\ IsNextId(d, child)
           /\ new = [marked EXCEPT ![child] = AutoRetryChild(i, d[i])]
  <2>1. ~Exists(d, child)
    BY <1>3 DEF IsNextId, Ids
  <2>2. AutoRetryChild(i, d[i]).status \in {"queued", "retry_wait"}
    BY DEF AutoRetryChild, RetryChild, NewRow
  <2>3. new[child].status \in {"queued", "retry_wait"}
    BY <1>1, <1>3, <2>2 DEF DbType
  <2>4. \A j \in Ids : j # child => new[j].status = d[j].status
    BY <1>1, <1>3 DEF DbType
  <2> QED
    BY <2>1, <2>3, <2>4 DEF Calm, Exists
<1>4. \/ child = NoId /\ (new = d \/ new = marked)
      \/ /\ child \in Ids /\ IsNextId(d, child)
         /\ new = [d EXCEPT ![i].scheduled = TRUE, ![child] = AutoRetryChild(i, d[i])]
  BY Zenon DEF CreateAutoRetryChild
<1> QED
  BY <1>2, <1>3, <1>4

LEMMA CalmTwice ==
    ASSUME NEW d, NEW e, NEW f, NEW N, Calm(d, e, {}), Calm(e, f, N)
    PROVE  Calm(d, f, N)
BY DEF Calm

LEMMA WritesIsCalm ==
    ASSUME NEW i \in Ids, NEW s \in TaskStatuses \ {"retry_wait"}, Writes(i, s)
    PROVE  /\ Calm(db, db', {i})
           /\ s # "queued" => Calm(db, db', {})
<1>1. s # "absent"
  BY DEF TaskStatuses, InFlightTaskStatuses, PendingTaskStatuses, ActiveTaskStatuses,
     TerminalTaskStatuses, SuccessTaskStatuses, SkippedTaskStatuses, FailedTaskStatuses
<1> QED
  BY <1>1 DEF Writes, Calm, Exists

-----------------------------------------------------------------------------
(* What keeps the invariant.                                               *)

LEMMA PlacedStep ==
    ASSUME TypeOK, Placed, NEW N, Calm(db, db', N), budget'.deletes = 0,
           preflight'.pc # "dead",
           \A i \in Known' : i \in Known \/ (Exists(db', i) /\ db'[i].status # "retry_wait"),
           apiPending' \cap queuedIds' = {},
           worker'.task \notin apiPending' \cup queuedIds'
    PROVE  Placed'
<1>1. ASSUME NEW i \in Known'
      PROVE  Exists(db', i) /\ db'[i].status # "retry_wait"
  <2>1. CASE i \in Known
    <3>1. i \in Ids
      BY <2>1 DEF Known, TypeOK, HolderType
    <3> QED
      BY <2>1, <3>1 DEF Placed, Calm
  <2> QED
    BY <2>1
<1> QED
  BY <1>1 DEF Placed, Exists

LEMMA RememberedStep ==
    ASSUME TypeOK, Remembered, NEW N, Calm(db, db', N),
           preflight'.pc = "ended" =>
               \/ preflight' = preflight /\ preflight.task \notin N
               \/ db'[preflight'.task].status # "queued",
           worker'.pc = "done" =>
               \/ worker' = worker /\ worker.task \notin N
               \/ db'[worker'.task].status # "queued",
           mode' = "running" =>
               /\ mode = "running"
               /\ \A i \in Known \cup N : db'[i].status = "queued" => i \in Known'
    PROVE  Remembered'
<1>1. preflight'.pc = "ended" => db'[preflight'.task].status # "queued"
  <2>1. CASE preflight'.pc = "ended" /\ preflight' = preflight /\ preflight.task \notin N
    <3>1. preflight.task \in Ids
      BY <2>1 DEF TypeOK, HolderType, NoId
    <3> QED
      BY <2>1, <3>1 DEF Remembered, Calm
  <2> QED
    BY <2>1
<1>2. worker'.pc = "done" => db'[worker'.task].status # "queued"
  <2>1. CASE worker'.pc = "done" /\ worker' = worker /\ worker.task \notin N
    <3>1. worker.task \in Ids
      BY <2>1 DEF TypeOK, HolderType, NoId
    <3> QED
      BY <2>1, <3>1 DEF Remembered, Calm
  <2> QED
    BY <2>1
<1>3. ASSUME mode' = "running", NEW i \in Ids, db'[i].status = "queued"
      PROVE  i \in Known'
  BY <1>3 DEF Remembered, Calm, WithStatus
<1> QED
  BY <1>1, <1>2, <1>3 DEF Remembered, WithStatus

\* The preflight's task is one the queue knows, and none the worker has.
LEMMA HeldIsKnown ==
    ASSUME TypeOK, Books, Placed
    PROVE  /\ preflight.task # NoId => preflight.task \in queuedIds
           /\ preflight.task = worker.task => preflight.task = NoId
           /\ \A i \in Ids : ~Exists(db, i) \/ db[i].status = "retry_wait" => i \notin Known
BY DEF Books, Booked, Placed

\* What every step has to show, in a state where the books are right.
Keeps == Placed' /\ (RecoverOnStart /\ Remembered => Remembered')

\* A step that enqueues nothing and lets go of nothing that is queued.
LEMMA QuietKeeps ==
    ASSUME TypeOK, Books, Placed, NEW N, Calm(db, db', N), N \subseteq queuedIds',
           N \cap {worker.task} = {},
           preflight'.pc = "ended" => db'[preflight'.task].status # "queued",
           worker'.pc = "done" => worker' = worker \/ db'[worker'.task].status # "queued",
           preflight'.pc # "dead", budget'.deletes = 0, mode' = mode,
           apiPending' = apiPending, queuedIds' \subseteq queuedIds,
           worker'.task \notin apiPending \cup queuedIds',
           worker'.task \in queuedIds \cup {worker.task, NoId},
           \A i \in Known : db'[i].status = "queued" => i \in Known'
    PROVE  Keeps
<1>1. \A i \in Known' : i \in Known
  BY DEF Known
<1>2. N \subseteq Known /\ worker.task \notin N
  BY DEF Known
<1>3. Placed'
  BY <1>1, PlacedStep DEF Placed
<1>4. ASSUME Remembered PROVE Remembered'
  <2>1. \A i \in Known \cup N : db'[i].status = "queued" => i \in Known'
    BY <1>2
  <2> QED
    BY <1>2, <1>4, <2>1, RememberedStep
<1> QED
  BY <1>3, <1>4 DEF Keeps

LEMMA PreflightTakeKeeps ==
    ASSUME TypeOK, Books, Placed, PreflightTake
    PROVE  Keeps
<1>1. Calm(db, db', {})
  BY SameIsCalm DEF PreflightTake
<1>2. /\ preflight'.pc \in {"run", "idle"} /\ UNCHANGED <<db, worker, apiPending, mode, budget>>
      /\ \/ queuedIds' = queuedIds
         \/ /\ queuedIds' = queuedIds \ {Head(preflightQ)}
            /\ db[Head(preflightQ)].status # "queued"
  BY DEF PreflightTake, At
<1>3. \A i \in Known : db'[i].status = "queued" => i \in Known'
  BY <1>2 DEF Known
<1> QED
  BY <1>1, <1>2, <1>3, QuietKeeps DEF Placed

LEMMA PreflightRunKeeps ==
    ASSUME TypeOK, Books, Placed, NEW i \in Ids, PreflightRun(i)
    PROVE  Keeps
<1>1. UNCHANGED <<queuedIds, worker, apiPending, mode, budget>>
  BY DEF PreflightRun, PreflightPasses, PreflightFails, PreflightSkips, PreflightAwaitsNfo,
     PreflightRaises, PreflightCommits, PreflightRollsBack
<1>2. Known' = Known
  BY <1>1 DEF Known
<1>3. ASSUME UNCHANGED db, preflight' \in {At("pending", i), At("raised", i)}
      PROVE  Keeps
  <2>1. Calm(db, db', {}) /\ preflight'.pc \in {"pending", "raised"}
    BY <1>3, SameIsCalm DEF At
  <2> QED
    BY <1>1, <1>2, <2>1, QuietKeeps DEF Placed
<1>4. ASSUME NEW s \in TaskStatuses \ {"retry_wait", "queued"}, Writes(i, s),
             preflight' = At("ended", i)
      PROVE  Keeps
  <2>1. Calm(db, db', {})
    BY <1>4, WritesIsCalm
  <2>2. preflight'.pc = "ended" /\ db'[preflight'.task].status # "queued"
    BY <1>4 DEF Writes, At
  <2> QED
    BY <1>1, <1>2, <2>1, <2>2, QuietKeeps DEF Placed
<1>5. ASSUME Writes(i, "queued"), preflight = At("run", i), preflight' = At("passed", i)
      PROVE  Keeps
  <2>1. Calm(db, db', {i})
    BY <1>5, WritesIsCalm, EndsLawful
  <2>2. i \in queuedIds /\ i # worker.task
    BY <1>5, HeldIsKnown DEF At, NoId, Ids
  <2>3. preflight'.pc = "passed"
    BY <1>5 DEF At
  <2> QED
    BY <1>1, <1>2, <2>1, <2>2, <2>3, QuietKeeps DEF Placed
<1>6. {"failed"} \cup SkipReasons \subseteq TaskStatuses \ {"retry_wait", "queued"}
  BY EndsLawful, QueueAssumption DEF SkippedTaskStatuses
<1>7. "identity" \in Errors /\ "none" \in Errors
  BY DEF Errors, RetryCategories
<1>8. CASE PreflightPasses(i)
  BY <1>5, <1>7, <1>8, EndsLawful, PreflightCommitWrites DEF PreflightPasses
<1>9. CASE PreflightFails(i)
  BY <1>4, <1>6, <1>7, <1>9, PreflightCommitWrites DEF PreflightFails
<1>10. CASE PreflightSkips(i)
  <2>1. PICK s \in SkipReasons : PreflightCommits(i, s, "none", "ended")
    BY <1>10 DEF PreflightSkips
  <2> QED
    BY <1>4, <1>6, <1>7, <2>1, PreflightCommitWrites
<1>11. CASE PreflightAwaitsNfo(i) \/ PreflightRaises(i)
  BY <1>3, <1>11 DEF PreflightAwaitsNfo, PreflightRaises, PreflightRollsBack
<1> QED
  BY <1>8, <1>9, <1>10, <1>11 DEF PreflightRun

\* A step that has the tasks N, new to the queue, join the identifiers T.
Joins(N, T) ==
    /\ Calm(db, db', N) /\ N \cap Known = {}
    /\ T \subseteq queuedIds' /\ queuedIds' \subseteq T \cup N
    /\ \A j \in N : /\ Exists(db', j)
                    /\ db'[j].status = "queued" => j \in queuedIds'
                    /\ j \in queuedIds' => db'[j].status = "queued"

LEMMA NoneJoins ==
    ASSUME NEW T, Calm(db, db', {}), queuedIds' = T
    PROVE  \E N \in SUBSET Ids : Joins(N, T)
<1>1. Joins({}, T)
  BY DEF Joins
<1> QED
  BY <1>1

\* What follows the end of a task brings at most one new task into the queue.
LEMMA ScheduleKeeps ==
    ASSUME TypeOK, Placed, NEW i \in Ids, NEW T \in SUBSET queuedIds,
           ScheduleRetryAfterTerminal(i, T)
    PROVE  \E N \in SUBSET Ids : Joins(N, T)
<1>1. db \in DbType /\ NoId \notin Ids
  BY DEF TypeOK, DbType, NoId, Ids
<1>2. CASE db' = CancelPendingAutoRetries(db, db[i].path, i) /\ queuedIds' = T
  BY <1>1, <1>2, CancelIsCalm, NoneJoins
<1>3. CASE db' = db /\ queuedIds' = T
  BY <1>3, SameIsCalm, NoneJoins
<1>4. ASSUME NEW child \in Ids \cup {NoId}, CreateAutoRetryChild(db, i, db', child),
             IF child # NoId /\ db'[child].status = "queued"
             THEN EnqueueInto(child, T) ELSE queuedIds' = T
      PROVE  \E N \in SUBSET Ids : Joins(N, T)
  <2>1. /\ Calm(db, db', {child})
        /\ child # NoId => ~Exists(db, child) /\ Exists(db', child)
    BY <1>1, <1>4, CreateIsCalm
  <2>2. CASE child = NoId
    <3>1. Calm(db, db', {})
      BY <1>1, <2>1, <2>2 DEF Calm
    <3> QED
      BY <1>4, <2>2, <3>1, NoneJoins
  <2>3. CASE child # NoId
    <3>1. child \in Ids /\ child \notin Known
      BY <2>1, <2>3 DEF Placed
    <3>2. child \notin T
      BY <3>1 DEF Known
    <3>3. \/ queuedIds' = T \cup {child} /\ db'[child].status = "queued"
          \/ queuedIds' = T /\ db'[child].status # "queued"
      BY <1>4, <2>3, <3>2 DEF EnqueueInto
    <3>4. Joins({child}, T)
      BY <2>1, <2>3, <3>1, <3>2, <3>3 DEF Joins
    <3> QED
      BY <3>1, <3>4
  <2> QED
    BY <2>2, <2>3
<1> QED
  BY <1>2, <1>3, <1>4 DEF ScheduleRetryAfterTerminal

LEMMA PreflightReturnsKeeps ==
    ASSUME TypeOK, Books, Placed, PreflightReturns
    PROVE  Keeps
<1>1. UNCHANGED <<worker, apiPending, mode, budget>>
  BY DEF PreflightReturns
<1>2. preflight.pc # "idle" => preflight.task \in Ids /\ preflight.task \in queuedIds
  BY HeldIsKnown DEF TypeOK, Placed, NoId, Ids
<1>3. CASE PreflightForwards
  <2>1. Calm(db, db', {}) /\ preflight'.pc = "idle" /\ UNCHANGED <<queuedIds, db>>
    BY <1>3, SameIsCalm DEF PreflightForwards, Idle, At
  <2>2. Known' = Known
    BY <1>1, <2>1 DEF Known
  <2> QED
    BY <1>1, <2>1, <2>2, QuietKeeps DEF Placed
<1>4. CASE PreflightTriesAgain
  <2>1. Calm(db, db', {}) /\ preflight'.pc = "idle" /\ db' = db
    BY <1>4, SameIsCalm DEF PreflightTriesAgain, Idle, At
  <2>2. /\ queuedIds' \subseteq queuedIds
        /\ mode # "stopping" => queuedIds' = queuedIds
    BY <1>4 DEF PreflightTriesAgain
  <2>3. \A i \in Known' : i \in Known
    BY <1>1, <2>2 DEF Known
  <2>4. Placed'
    BY <1>1, <2>1, <2>2, <2>3, PlacedStep DEF Placed
  <2>5. mode' = "running" => Known' = Known
    BY <1>1, <2>2 DEF Known
  <2>6. ASSUME Remembered PROVE Remembered'
    BY <1>1, <2>1, <2>5, <2>6, RememberedStep
  <2> QED
    BY <2>4, <2>6 DEF Keeps
<1>5. CASE PreflightRecordsFailure
  <2>1. preflight.task \in Ids /\ Exists(db, preflight.task)
    BY <1>2, <1>5 DEF PreflightRecordsFailure, Placed, Known
  <2>2. /\ Writes(preflight.task, "failed") /\ preflight'.task = preflight.task
        /\ preflight'.pc = "ended"
    BY <1>5, <2>1, PreflightFailureWrites
  <2>3. Calm(db, db', {})
    BY <2>1, <2>2, WritesIsCalm, EndsLawful
  <2>4. queuedIds' = queuedIds
    BY <1>5 DEF PreflightRecordsFailure
  <2>5. Known' = Known
    BY <1>1, <2>4 DEF Known
  <2>6. db'[preflight'.task].status # "queued"
    BY <2>2 DEF Writes
  <2> QED
    BY <1>1, <2>2, <2>3, <2>4, <2>5, <2>6, QuietKeeps DEF Placed
<1>6. CASE PreflightEnds
  <2> DEFINE held == preflight.task
  <2>1. /\ preflight.pc = "ended" /\ preflight'.pc = "idle"
        /\ held \in Ids /\ held \in queuedIds
        /\ ScheduleRetryAfterTerminal(held, queuedIds \ {held})
    BY <1>2, <1>6 DEF PreflightEnds, Idle, At
  <2>2. PICK N \in SUBSET Ids : Joins(N, queuedIds \ {held})
    BY <2>1, ScheduleKeeps
  <2>3. worker.task \notin N /\ apiPending \cap N = {}
    BY <2>2 DEF Joins, Known, TypeOK, NoId, Ids
  <2>4. \A i \in Known' : i \in Known \/ (Exists(db', i) /\ db'[i].status # "retry_wait")
    BY <1>1, <2>2 DEF Joins, Known
  <2>5. Placed'
    BY <1>1, <2>1, <2>2, <2>3, <2>4, PlacedStep DEF Joins, Placed
  <2>6. ASSUME Remembered PROVE Remembered'
    <3>1. db[held].status # "queued" /\ held \notin N
      BY <2>1, <2>2, <2>6 DEF Joins, Remembered, Known
    <3>2. db'[held].status # "queued"
      BY <2>1, <2>2, <3>1 DEF Joins, Calm
    <3>3. \A i \in Known \cup N : db'[i].status = "queued" => i \in Known'
      BY <1>1, <2>2, <3>2 DEF Joins, Known
    <3> QED
      BY <1>1, <2>1, <2>2, <2>3, <2>6, <3>3, RememberedStep DEF Joins
  <2> QED
    BY <2>5, <2>6 DEF Keeps
<1> QED
  BY <1>3, <1>4, <1>5, <1>6 DEF PreflightReturns

LEMMA WorkerTakeKeeps ==
    ASSUME TypeOK, Books, Placed, WorkerTake
    PROVE  Keeps
<1>1. UNCHANGED <<db, preflight, apiPending, mode, budget>> /\ worker.task = NoId
  BY DEF WorkerTake, TypeOK
<1>2. PICK p \in Priorities :
        /\ workQ[p] # <<>>
        /\ queuedIds' = queuedIds \ {Head(workQ[p])}
        /\ worker' = IF db[Head(workQ[p])].status = "queued"
                     THEN At("run", Head(workQ[p])) ELSE Idle
  BY DEF WorkerTake
<1> DEFINE head == Head(workQ[p])
<1>3. head \in Ids /\ head \in queuedIds
  <2>1. workQ[p] \in Seq(Ids) /\ (p = 0 \/ p = 1)
    BY DEF TypeOK, Priorities
  <2>2. head \in Ids /\ head \in Elements(workQ[p])
    BY <1>2, <2>1, TailElements
  <2>3. Elements(workQ[0]) \subseteq queuedIds /\ Elements(workQ[1]) \subseteq queuedIds
    BY DEF Books, Booked, Waiting
  <2> QED
    BY <2>1, <2>2, <2>3
<1>4. \/ worker'.task = head /\ worker'.pc = "run"
      \/ worker'.task = NoId /\ worker'.pc = "idle" /\ db[head].status # "queued"
  BY <1>2 DEF At, Idle
<1> HIDE DEF head
<1>5. queuedIds' = queuedIds \ {head} /\ head # NoId /\ NoId \notin Ids
  BY <1>2, <1>3 DEF head, NoId, Ids
<1>6. worker'.task \notin apiPending \cup queuedIds'
  BY <1>3, <1>4, <1>5 DEF Placed, TypeOK
<1>7. \A i \in Known' : i \in Known
  BY <1>1, <1>3, <1>4, <1>5 DEF Known
<1>8. \A i \in Known : db'[i].status = "queued" => i \in Known'
  BY <1>1, <1>3, <1>4, <1>5 DEF Known
<1>9. Calm(db, db', {})
  BY <1>1, SameIsCalm
<1>10. Placed'
  BY <1>1, <1>5, <1>6, <1>7, <1>9, PlacedStep DEF Placed
<1>11. ASSUME Remembered PROVE Remembered'
  BY <1>1, <1>4, <1>8, <1>9, <1>11, RememberedStep
<1> QED
  BY <1>10, <1>11 DEF Keeps

LEMMA ProcessorKeeps ==
    ASSUME TypeOK, Books, Placed, NEW i \in Ids, ProcessorCommits(i) \/ ProcessorReturns(i)
    PROVE  Keeps
<1>1. UNCHANGED <<queuedIds, preflight, apiPending, mode, budget>>
  BY DEF ProcessorCommits, ProcessorReturns, ProcessorCompletes, ProcessorFails,
     ProcessorSkips, ProcessorRaises, ProcessorStep
<1>2. /\ worker.task = i /\ worker'.task = i
      /\ \/ UNCHANGED db /\ worker'.pc = "raised"
         \/ worker'.pc = "run" /\ \E s \in Stages : Writes(i, s)
         \/ worker'.pc = "done" /\ \E s \in {"completed", "failed"} \cup SkipReasons : Writes(i, s)
  BY ProcessorWrites DEF At
<1>3. Stages \cup {"completed", "failed"} \cup SkipReasons \subseteq TaskStatuses \ {"retry_wait"}
  BY EndsLawful
<1>4. "queued" \notin Stages \cup {"completed", "failed"} \cup SkipReasons
  BY QueueAssumption DEF ActiveTaskStatuses, SkippedTaskStatuses
<1>5. Calm(db, db', {})
  BY <1>2, <1>3, <1>4, SameIsCalm, WritesIsCalm
<1>6. worker'.pc = "done" => db'[worker'.task].status # "queued"
  BY <1>2, <1>4 DEF Writes
<1>7. Known' = Known
  BY <1>1, <1>2 DEF Known
<1>8. ASSUME Remembered PROVE Remembered'
  BY <1>1, <1>5, <1>6, <1>7, <1>8, RememberedStep
<1>9. Placed'
  BY <1>1, <1>2, <1>5, <1>7, PlacedStep DEF Placed
<1> QED
  BY <1>8, <1>9 DEF Keeps

LEMMA WorkerEndKeeps ==
    ASSUME TypeOK, Books, Placed, WorkerSchedules \/ WorkerRecordsFailure
    PROVE  Keeps
<1>1. CASE WorkerRecordsFailure
  <2>1. UNCHANGED <<queuedIds, preflight, apiPending, mode, budget>>
    BY <1>1 DEF WorkerRecordsFailure
  <2>2. worker.task \in Ids /\ Exists(db, worker.task)
    BY <1>1, WorkerFailureWrites DEF Placed, Known, NoId, Ids
  <2>3. Writes(worker.task, "failed") /\ worker'.pc = "done"
    BY <1>1, <2>2, WorkerFailureWrites
  <2>4. worker'.task = worker.task
    BY <1>1, <2>2 DEF WorkerRecordsFailure, TypeOK, HolderType
  <2>5. Calm(db, db', {})
    BY <2>2, <2>3, WritesIsCalm, EndsLawful
  <2>6. Known' = Known /\ db'[worker'.task].status # "queued"
    BY <2>1, <2>3, <2>4 DEF Known, Writes
  <2>7. Placed'
    BY <2>1, <2>4, <2>5, <2>6, PlacedStep DEF Placed
  <2>8. ASSUME Remembered PROVE Remembered'
    BY <2>1, <2>5, <2>6, <2>8, RememberedStep
  <2> QED
    BY <2>7, <2>8 DEF Keeps
<1>2. CASE WorkerSchedules
  <2> DEFINE held == worker.task
  <2>1. /\ worker.pc = "done" /\ worker'.pc = "idle" /\ worker'.task = NoId
        /\ held \in Ids /\ ScheduleRetryAfterTerminal(held, queuedIds)
        /\ UNCHANGED <<preflight, apiPending, mode, budget>>
    BY <1>2 DEF WorkerSchedules, Idle, At, TypeOK, HolderType, NoId
  <2>2. PICK N \in SUBSET Ids : Joins(N, queuedIds)
    BY <2>1, ScheduleKeeps
  <2>3. NoId \notin apiPending \cup queuedIds' /\ apiPending \cap N = {}
    BY <2>2 DEF Joins, Known, TypeOK, NoId, Ids
  <2>4. \A i \in Known' : i \in Known \/ (Exists(db', i) /\ db'[i].status # "retry_wait")
    BY <2>1, <2>2 DEF Joins, Known
  <2>5. apiPending' \cap queuedIds' = {}
    BY <2>1, <2>2, <2>3 DEF Joins, Placed
  <2>6. Placed'
    BY <2>1, <2>2, <2>3, <2>4, <2>5, PlacedStep DEF Placed, Joins
  <2>7. ASSUME Remembered PROVE Remembered'
    <3>1. db[held].status # "queued" /\ held \notin N
      BY <2>1, <2>2, <2>7 DEF Remembered, Known, Joins, NoId, Ids
    <3>2. db'[held].status # "queued"
      BY <2>1, <2>2, <3>1 DEF Joins, Calm
    <3>3. \A i \in Known \cup N : db'[i].status = "queued" => i \in Known'
      BY <2>1, <2>2, <3>2 DEF Joins, Known
    <3>4. preflight'.pc = "ended" => preflight.task \notin N
      BY <2>1, <2>2, HeldIsKnown DEF Joins, Known, TypeOK
    <3> QED
      BY <2>1, <2>2, <2>7, <3>3, <3>4, RememberedStep DEF Joins
  <2> QED
    BY <2>6, <2>7 DEF Keeps
<1> QED
  BY <1>1, <1>2

\* A task that is new to the queue comes into it, or is a handler's to enqueue.
LEMMA ArrivalKeeps ==
    ASSUME TypeOK, Books, Placed, NEW i \in Ids, Calm(db, db', {i}), Exists(db', i),
           db'[i].status # "retry_wait", i \notin Known, budget'.deletes = 0,
           UNCHANGED <<preflight, worker, mode>>,
           \/ queuedIds' = queuedIds \cup {i} /\ apiPending' = apiPending
           \/ queuedIds' = queuedIds /\ apiPending' = apiPending \cup {i}
    PROVE  Keeps
<1>1. Known' = Known \cup {i} /\ i # NoId
  BY DEF Known, NoId, Ids
<1>2. /\ i \notin queuedIds /\ i \notin apiPending
      /\ worker.task # i /\ (preflight.task = NoId \/ preflight.task # i)
  BY <1>1, HeldIsKnown DEF Known
<1>3. Placed'
  BY <1>1, <1>2, PlacedStep DEF Placed
<1>4. ASSUME Remembered PROVE Remembered'
  BY <1>1, <1>2, <1>4, RememberedStep
<1> QED
  BY <1>3, <1>4 DEF Keeps

LEMMA WaitKeeps ==
    ASSUME TypeOK, Books, Placed, RetryWait \/ Time
    PROVE  Keeps
<1>1. \A j \in Ids : db[j] \in RowType
  BY DEF TypeOK
<1>2. ASSUME NEW i \in Ids, ActivateRetry(i) PROVE Keeps
  <2>1. /\ db[i].status = "retry_wait" /\ db' = Activate(db, {i}) /\ EnqueueInto(i, queuedIds)
        /\ UNCHANGED <<preflight, worker, apiPending, mode, budget>>
    BY <1>2 DEF ActivateRetry, DueRetries
  <2>2. i \notin Known
    BY <2>1, HeldIsKnown
  <2>3. Calm(db, db', {i}) /\ db'[i].status = "queued"
    BY <2>1, ActivateIsCalm DEF TypeOK, DbType
  <2>4. queuedIds' = queuedIds \cup {i}
    BY <2>1, <2>2 DEF EnqueueInto, Known
  <2> QED
    BY <2>1, <2>2, <2>3, <2>4, ArrivalKeeps DEF Placed, Exists
<1>3. CASE UNCHANGED memory /\ UNCHANGED <<mode, budget>>
           /\ \A j \in Ids : db'[j].status = db[j].status
  <2>1. Calm(db, db', {}) /\ UNCHANGED <<queuedIds, preflight, worker, apiPending, mode, budget>>
    BY <1>3, SameIsCalm DEF memory
  <2>2. Known' = Known
    BY <2>1 DEF Known
  <2>3. Placed'
    BY <2>1, <2>2, PlacedStep DEF Placed
  <2>4. ASSUME Remembered PROVE Remembered'
    BY <2>1, <2>2, <2>4, RememberedStep
  <2> QED
    BY <2>3, <2>4 DEF Keeps
<1>4. CASE RetryPoll
  BY <1>3, <1>4 DEF RetryPoll, vars
<1>5. ASSUME NEW i \in Ids, RetryComesDue(i) \/ NfoWindowCloses(i) PROVE Keeps
  <2>1. \/ db' = [db EXCEPT ![i] = [db[i] EXCEPT !.due = TRUE]]
        \/ db' = [db EXCEPT ![i] = [db[i] EXCEPT !.nfoOpen = FALSE]]
    BY <1>5 DEF RetryComesDue, NfoWindowCloses
  <2>2. /\ [db[i] EXCEPT !.due = TRUE].status = db[i].status
        /\ [db[i] EXCEPT !.nfoOpen = FALSE].status = db[i].status
    BY <1>1 DEF RowType
  <2>3. \A j \in Ids : db'[j].status = db[j].status
    BY <2>1, <2>2 DEF TypeOK
  <2> QED
    BY <1>3, <1>5, <2>3 DEF RetryComesDue, NfoWindowCloses
<1> QED
  BY <1>2, <1>4, <1>5 DEF RetryWait, Time

LEMMA CreatedKeeps ==
    ASSUME TypeOK, Books, Placed, NEW d \in DbType, Calm(db, d, {}), NEW i \in Ids,
           IsNextId(db, i), ~Exists(d, i), NEW r, r.status = "queued",
           NEW cost \in {"adds", "retries"}, ApiCommits([d EXCEPT ![i] = r], {i}, cost)
    PROVE  Keeps
<1>1. ~Exists(db, i)
  BY DEF IsNextId, Ids
<1>2. i \notin Known
  BY <1>1 DEF Placed
<1>3. Calm(d, db', {i}) /\ db'[i].status = "queued"
  BY InsertIsCalm DEF ApiCommits, DbType
<1>4. Calm(db, db', {i})
  BY <1>3, CalmTwice
<1>5. budget'.deletes = 0
  BY DEF ApiCommits, Spend, Placed, TypeOK
<1>6. /\ UNCHANGED <<queuedIds, preflight, worker, mode>>
      /\ apiPending' = apiPending \cup {i}
  BY DEF ApiCommits
<1> QED
  BY <1>2, <1>3, <1>4, <1>5, <1>6, ArrivalKeeps DEF Exists

LEMMA ApiKeeps ==
    ASSUME TypeOK, Books, Placed, Api
    PROVE  Keeps
<1>1. db \in DbType /\ Calm(db, db, {})
  BY SameIsCalm DEF TypeOK, DbType
<1>2. \A i \in Ids : IsNextId(db, i) => ~Exists(db, i)
  BY DEF IsNextId, Ids
<1>3. ASSUME NEW path \in Paths, NEW source \in JobSources, AddJob(path, source)
      PROVE  Keeps
  <2> DEFINE r == NewRow("queued", path, source, 0, NoId, source = "moviepilot-csf")
  <2>1. PICK i \in Ids : IsNextId(db, i) /\ ApiCommits([db EXCEPT ![i] = r], {i}, "adds")
    BY <1>3 DEF AddJob
  <2>2. r.status = "queued"
    BY DEF NewRow
  <2> HIDE DEF r
  <2> QED
    BY <1>1, <1>2, <2>1, <2>2, CreatedKeeps
<1>4. ASSUME NEW o \in Ids, RetryTask(o) PROVE Keeps
  <2> DEFINE r == ManualRetryChild(o)
             d == CancelPendingAutoRetries(db, db[o].path, o)
  <2>1. PICK i \in Ids :
          /\ IsNextId(db, i)
          /\ \/ ApiCommits([db EXCEPT ![i] = r], {i}, "retries")
             \/ ApiCommits([d EXCEPT ![i] = r], {i}, "retries")
    BY <1>4 DEF RetryTask
  <2>2. r.status = "queued"
    BY DEF ManualRetryChild, RetryChild, NewRow
  <2>3. d \in DbType /\ Calm(db, d, {})
    BY <1>1, CancelType, CancelIsCalm
  <2>4. ~Exists(d, i)
    <3>1. i \notin PendingAutoRetries(db, db[o].path, o)
      BY <1>2, <2>1 DEF PendingAutoRetries, PendingTaskStatuses, Exists
    <3> QED
      BY <1>2, <2>1, <3>1 DEF CancelPendingAutoRetries, Exists
  <2> HIDE DEF r, d
  <2>5. CASE ApiCommits([db EXCEPT ![i] = r], {i}, "retries")
    BY <1>1, <1>2, <2>1, <2>2, <2>5, CreatedKeeps
  <2>6. CASE ApiCommits([d EXCEPT ![i] = r], {i}, "retries")
    BY <2>1, <2>2, <2>3, <2>4, <2>6, CreatedKeeps
  <2> QED
    BY <2>1, <2>5, <2>6
<1>5. ASSUME NEW i \in Ids, DeleteTask(i) PROVE FALSE
  BY <1>5 DEF DeleteTask, ApiCommits, Spend, Placed
<1>6. CASE DeleteAllTasks
  <2>1. FALSE
    BY <1>6 DEF DeleteAllTasks, ApiCommits, Spend, Placed
  <2> QED
    BY <2>1
<1>7. ASSUME NEW i \in Ids, ApiEnqueue(i) PROVE Keeps
  <2>1. /\ i \in apiPending /\ apiPending' = apiPending \ {i} /\ EnqueueInto(i, queuedIds)
        /\ UNCHANGED <<db, preflight, worker, mode, budget>>
    BY <1>7 DEF ApiEnqueue
  <2>2. queuedIds' = queuedIds \cup {i}
    BY <2>1 DEF EnqueueInto
  <2>3. Known' = Known /\ Calm(db, db', {})
    BY <2>1, <2>2, SameIsCalm DEF Known
  <2>4. /\ apiPending' \cap queuedIds' = {}
        /\ worker'.task \notin apiPending' \cup queuedIds'
    BY <2>1, <2>2 DEF Placed
  <2>5. Placed'
    BY <2>1, <2>3, <2>4, PlacedStep DEF Placed
  <2>6. ASSUME Remembered PROVE Remembered'
    BY <2>1, <2>3, <2>6, RememberedStep
  <2> QED
    BY <2>5, <2>6 DEF Keeps
<1> QED
  BY <1>3, <1>4, <1>5, <1>6, <1>7, Zenon DEF Api

LEMMA ProcessKeeps ==
    ASSUME TypeOK, Books, DownIsEmpty, Placed, Process
    PROVE  Keeps
<1>1. CASE Crash \/ StopCompletes
  <2>1. /\ mode' = "down" /\ budget'.deletes = 0 /\ EmptyMemory
    BY <1>1 DEF Crash, StopCompletes, Spend, Placed, TypeOK
  <2>2. /\ Known' = {} /\ preflight'.pc = "idle" /\ worker'.pc = "idle"
        /\ apiPending' = {} /\ queuedIds' = {}
    BY <2>1 DEF EmptyMemory, Known, Idle, At
  <2> QED
    BY <2>1, <2>2 DEF Keeps, Placed, Remembered
<1>2. CASE Stop
  <2>1. /\ mode' = "stopping" /\ budget'.deletes = 0
        /\ UNCHANGED <<db, queuedIds, preflight, worker, apiPending>>
    BY <1>2 DEF Stop, Spend, memory, Placed, TypeOK
  <2>2. Known' = Known
    BY <2>1 DEF Known
  <2> QED
    BY <2>1, <2>2 DEF Keeps, Placed, Remembered, Exists
<1>3. CASE Start
  <2>1. /\ preflight'.pc = "idle" /\ worker'.pc = "idle" /\ worker'.task = NoId
        /\ apiPending' = {} /\ budget'.deletes = 0 /\ NoId \notin Ids
    BY <1>3 DEF Start, DownIsEmpty, DownIsIdle, Idle, At, Placed, NoId, Ids
  <2>2. CASE RecoverOnStart
    <3>1. queuedIds' = WithStatus(db', {"queued"})
      BY <1>3, <2>2 DEF Start, Recover
    <3>2. Known' = WithStatus(db', {"queued"})
      BY <2>1, <3>1 DEF Known
    <3> QED
      BY <2>1, <3>1, <3>2 DEF Keeps, Placed, Remembered, WithStatus, Exists
  <2>3. CASE ~RecoverOnStart
    <3>1. UNCHANGED <<db, queuedIds, preflight, worker, apiPending>>
      BY <1>3, <2>3 DEF Start
    <3>2. Known' = Known
      BY <3>1 DEF Known
    <3> QED
      BY <2>1, <2>3, <3>1, <3>2 DEF Keeps, Placed, Exists
  <2> QED
    BY <2>2, <2>3
<1> QED
  BY <1>1, <1>2, <1>3 DEF Process

LEMMA KeepingStep ==
    ASSUME TypeOK, Books, DownIsEmpty, Placed, [Next]_vars
    PROVE  Keeps
<1>1. CASE UNCHANGED vars
  <2>1. UNCHANGED <<db, preflight, worker, queuedIds, apiPending, mode, budget>>
    BY <1>1 DEF vars, memory
  <2>2. Known' = Known
    BY <2>1 DEF Known
  <2> QED
    BY <2>1, <2>2 DEF Keeps, Placed, Remembered, WithStatus, Exists
<1>2. CASE Preflight
  BY <1>2, PreflightTakeKeeps, PreflightRunKeeps, PreflightReturnsKeeps DEF Preflight
<1>3. CASE Worker
  BY <1>3, WorkerTakeKeeps, ProcessorKeeps, WorkerEndKeeps DEF Worker
<1> QED
  BY <1>1, <1>2, <1>3, WaitKeeps, ApiKeeps, ProcessKeeps DEF Next

-----------------------------------------------------------------------------
(* The theorems.                                                           *)

LEMMA KeepingInit ==
    ASSUME Init, MaxDeletes = 0
    PROVE  Placed /\ Remembered
<1>1. /\ Known = {} /\ apiPending = {} /\ queuedIds = {} /\ budget.deletes = 0
      /\ preflight.pc = "idle" /\ worker.pc = "idle"
  BY DEF Init, Known, Idle, At
<1>2. WithStatus(db, {"queued"}) = {}
  BY DEF Init, WithStatus, NoRow, NewRow
<1> QED
  BY <1>1, <1>2 DEF Placed, Remembered

\* A task that is in one place is in one pair of hands.
LEMMA PlacedImpliesApart == TypeOK /\ Books /\ Placed => NoConcurrentRun
BY HeldIsKnown DEF NoConcurrentRun

LEMMA RememberedIsKept ==
    ASSUME TypeOK, Books, Placed, Remembered
    PROVE  NoQueuedTaskForgotten
<1>1. queuedIds \subseteq Elements(preflightQ) \cup InLanes \cup {preflight.task}
  BY BooksAreProperty DEF QueuedOnce, Placed
<1> QED
  BY <1>1 DEF Remembered, Known, NoQueuedTaskForgotten

(* In a service in which no task is deleted, none is preflighted and       *)
(* processed at the same time, whatever crashes, stops and retries happen. *)
THEOREM NeverConcurrent == MaxDeletes = 0 /\ Spec => []NoConcurrentRun
<1>1. MaxDeletes = 0 /\ Init => Placed
  BY KeepingInit
<1>2. TypeOK /\ (Books /\ DownIsEmpty) /\ Placed /\ [Next]_vars => Placed'
  BY KeepingStep DEF Keeps
<1>3. TypeOK /\ (Books /\ DownIsEmpty) /\ Placed => NoConcurrentRun
  BY PlacedImpliesApart
<1> QED
  BY <1>1, <1>2, <1>3, TypeCorrect, BooksCorrect, PTL DEF Spec

(* In a service that recovers its tasks when it starts and in which none   *)
(* is deleted, every queued task has its place in memory while it runs.    *)
THEOREM NothingForgotten ==
    MaxDeletes = 0 /\ RecoverOnStart /\ Spec => []NoQueuedTaskForgotten
<1> DEFINE Inv == Placed /\ Remembered /\ RecoverOnStart
<1>1. MaxDeletes = 0 /\ RecoverOnStart /\ Init => Inv
  BY KeepingInit
<1>2. TypeOK /\ (Books /\ DownIsEmpty) /\ Inv /\ [Next]_vars => Inv'
  BY KeepingStep DEF Keeps
<1>3. TypeOK /\ (Books /\ DownIsEmpty) /\ Inv => NoQueuedTaskForgotten
  BY RememberedIsKept
<1> HIDE DEF Inv
<1> QED
  BY <1>1, <1>2, <1>3, TypeCorrect, BooksCorrect, PTL DEF Spec
=============================================================================
