------------------------ MODULE CandidateLoopProofs ------------------------
(***************************************************************************)
(* Proofs about the candidate loop, for every value of the constants: the  *)
(* budget of attempts, what a retry leaves out, the texts of episodes and  *)
(* the subtitles beside the videos, and the lifecycle.                     *)
(***************************************************************************)
EXTENDS CandidateLoopProperties, FiniteSetTheorems, SequenceTheorems, WellFoundedInduction, TLAPS

TableType == [Ids -> RowType]
FileType == [text : Texts \cup {NoText}, synced : BOOLEAN]
Offered == [candidate : Candidates, cached : BOOLEAN]

\* RunType, with names for the sets of its fields.
Holders == Ids \cup {NoId}
Pcs == {"idle", "next", "search", "download", "sync", "place", "placed"}
Stages == {"queued"} \cup ActiveTaskStatuses
Counts == 0..MaxAttempts
Tries == Seq(AttemptType)

RunSet ==
    [task : Holders, pc : Pcs, row : RowType, lost : BOOLEAN, left : SUBSET Providers,
     batch : SUBSET OfferType, used : Counts, offer : OfferType, stage : Stages,
     attempts : Tries, synced : BOOLEAN, existing : SUBSET Slots, known : SUBSET Texts,
     place : PlaceType]

\* The stretch of a run with a candidate in hand, and the end of it.
Trying == {"download", "sync", "place", "placed"}
Placing == {"place", "placed"}

-----------------------------------------------------------------------------
(* The inductive invariant.                                                *)

\* No run is under way unless the service is up.
Idle == run.pc = "idle" \/ run.task = NoId \/ service # "up" => run = NoRun

\* Attempts are counted, and a task that has not begun has none.
Counted ==
    /\ AttemptsWithinBudget
    /\ Len(run.attempts) <= run.used
    /\ \A t \in Ids : tasks[t].status \in {"absent", "queued"} => tasks[t].attempts = <<>>
    /\ run.task # NoId /\ run.stage = "queued" => run.left = Providers /\ run.pc = "next"

\* What is tried is a candidate, and the last of the attempts is its.
InHand ==
    /\ run.batch \subseteq Offered
    /\ run.pc \in Trying => run.offer \in Offered
    /\ run.pc \in Trying /\ ~run.lost => run.attempts # <<>>

\* The task of a run is there unless the run knows that it is lost.
Owned ==
    /\ run.lost => run.pc \in {"next", "search", "download", "sync"}
    /\ run.task # NoId =>
          /\ tasks[run.task].status # "completed"
          /\ ~run.lost => Exists(tasks, run.task)
    /\ budget.deletes = 0 /\ run.task # NoId =>
          ~run.lost /\ tasks[run.task].video = run.row.video

\* What is about to be placed is nobody's yet.
Accepted ==
    run.pc \in {"sync", "place", "placed"} =>
        /\ OfferText # NoText
        /\ OfferText \notin run.known
        /\ OfferText \notin EpisodeTexts(Video)
        /\ ~run.lost => Last(run.attempts).text = OfferText

\* Each completed task has a subtitle of its own.
Kept ==
    /\ \A t \in Completed :
          /\ tasks[t].attempts # <<>> /\ PlacedText(tasks[t]) # NoText
          /\ tasks[t].place \in [video : Videos, slot : Slots]
    /\ ~Overwrite => \A t, u \in Completed : t # u => tasks[t].place # tasks[u].place

\* What the run has placed is there, and is no other task's.
JustPlaced ==
    run.pc = "placed" =>
        /\ run.place \in [video : Videos, slot : Slots]
        /\ files[run.place.video][run.place.slot].text = OfferText
        /\ ~Overwrite => \A t \in Completed : tasks[t].place # run.place

\* Nothing has come to the video since the run has looked.
Seen ==
    run.task # NoId /\ Supplemental(run.row) /\ run.pc # "placed" =>
        \A s \in Slots \ run.existing : files[Video][s] = NoFile

\* What was downloaded is among the attempts.
Recorded ==
    /\ \A t \in Ids : fetched[t] \subseteq KeysOf(ToSet(tasks[t].attempts))
    /\ run.task # NoId => fetched[run.task] \subseteq KeysOf(ToSet(run.attempts))

\* A chain leads from a task's parent down to the first of the tasks before it.
Linked ==
    /\ \A t \in Existing : tasks[t].parent < t
    /\ \A t \in Ids : \A a \in chain[t] :
          /\ t \in Existing /\ tasks[t].parent \in chain[t]
          /\ a \in Existing /\ a < t
          /\ a = tasks[t].parent \/ \E s \in chain[t] : a < s /\ tasks[s].parent = a
          /\ tasks[a].parent \in chain[t] \/ \A b \in chain[t] : a <= b

\* The run knows what the tasks before it have had.
Excluded ==
    run.task # NoId =>
        /\ run.lost => chain[run.task] = {}
        /\ chain[run.task] # {} => run.row.parent = tasks[run.task].parent
        /\ run.task \in Traced => \A a \in chain[run.task] :
              /\ TextsOf(ToSet(tasks[a].attempts)) \subseteq run.known
              /\ \A o \in run.batch : OfferKey(o) \notin KeysOf(ToSet(tasks[a].attempts))

IInv ==
    /\ TypeOK /\ Idle /\ Counted /\ InHand /\ Owned /\ Accepted
    /\ Kept /\ SubtitleIsKept /\ JustPlaced /\ Seen /\ Recorded /\ Linked /\ Excluded

-----------------------------------------------------------------------------
(* Rows, attempts and texts.                                               *)

LEMMA Statuses ==
    /\ {"queued", "searching", "downloading", "syncing", "placing", "validating", "failed",
        "completed", "interrupted", "skipped_existing_subtitle"} \subseteq TaskStatuses
    /\ {"searching", "downloading", "syncing", "placing", "validating"} \subseteq ActiveTaskStatuses
    /\ ActiveTaskStatuses \subseteq TaskStatuses
    /\ "absent" \notin TaskStatuses /\ "queued" \notin ActiveTaskStatuses
    /\ "completed" \notin ActiveTaskStatuses
BY DEF TaskStatuses, InFlightTaskStatuses, TerminalTaskStatuses, ActiveTaskStatuses,
   PendingTaskStatuses, SuccessTaskStatuses, SkippedTaskStatuses, FailedTaskStatuses

LEMMA NoPlaceType == NoPlace \in PlaceType
BY DEF PlaceType

LEMMA PlaceIsPlace ==
    ASSUME NEW v \in Videos, NEW s \in Slots
    PROVE  /\ Place(v, s) \in [video : Videos, slot : Slots] \cap PlaceType
           /\ Place(v, s).video = v /\ Place(v, s).slot = s
BY DEF Place, PlaceType

LEMMA NewTaskType ==
    ASSUME NEW st \in TaskStatuses \cup {"absent"}, NEW v \in Videos,
           NEW src \in EntrySources \cup RetrySources, NEW par \in Ids \cup {NoId}
    PROVE  /\ NewTask(st, v, src, par) \in RowType
           /\ NewTask(st, v, src, par).status = st
           /\ NewTask(st, v, src, par).video = v
           /\ NewTask(st, v, src, par).parent = par
           /\ NewTask(st, v, src, par).attempts = <<>>
<1>1. <<>> \in Seq(AttemptType)
  BY EmptySeq
<1> QED
  BY <1>1, NoPlaceType DEF NewTask, RowType

LEMMA NoTaskType == NoTask \in RowType /\ NoTask.status = "absent" /\ NoTask.attempts = <<>>
<1>1. SomeVideo \in Videos
  BY LoopAssumption DEF SomeVideo
<1>2. "auto-retry" \in EntrySources \cup RetrySources
  BY DEF RetrySources
<1> QED
  BY <1>1, <1>2, NewTaskType DEF NoTask

LEMMA Members ==
    /\ {"idle", "next", "search", "download", "sync", "place", "placed"} \subseteq Pcs
    /\ {"queued", "searching", "downloading", "syncing", "placing", "validating"} \subseteq Stages
    /\ Stages \subseteq TaskStatuses
    /\ NoId \in Holders /\ NoId \notin Ids /\ Ids \subseteq Holders
BY Statuses DEF Pcs, Stages, Holders, Ids, NoId

LEMMA NoRunType == NoRun \in RunSet /\ NoRun.task = NoId /\ NoRun.pc = "idle" /\ ~NoRun.lost
<1>1. <<>> \in Tries
  BY EmptySeq DEF Tries
<1>2. Offer(NoCandidate, FALSE) \in OfferType
  BY DEF Offer, OfferType
<1>3. 0 \in Counts
  BY LoopAssumption DEF Counts
<1> QED
  BY <1>1, <1>2, <1>3, NoPlaceType, NoTaskType, Members DEF NoRun, RunSet

LEMMA RowWritten ==
    ASSUME NEW i \in Ids, tasks \in TableType, run.task = i,
           NEW st \in TaskStatuses, NEW s \in Seq(AttemptType), NEW pl \in PlaceType
    PROVE  /\ Committed(st, s, pl) \in TableType
           /\ \A j \in Ids \ {i} : Committed(st, s, pl)[j] = tasks[j]
           /\ Committed(st, s, pl)[i].status = st
           /\ Committed(st, s, pl)[i].attempts = s
           /\ Committed(st, s, pl)[i].place = pl
           /\ Committed(st, s, pl)[i].video = tasks[i].video
           /\ Committed(st, s, pl)[i].parent = tasks[i].parent
           /\ Committed(st, s, pl)[i].source = tasks[i].source
<1>1. tasks[i] \in RowType
  BY DEF TableType
<1> DEFINE d == [tasks EXCEPT ![i].status = st]
           e == [d EXCEPT ![i].attempts = s]
           f == [e EXCEPT ![i].place = pl]
<1>2. /\ d \in TableType /\ \A j \in Ids \ {i} : d[j] = tasks[j]
      /\ d[i].status = st /\ d[i].video = tasks[i].video
      /\ d[i].parent = tasks[i].parent /\ d[i].source = tasks[i].source
  BY <1>1 DEF TableType, RowType
<1>3. d[i] \in RowType
  BY <1>2 DEF TableType
<1> HIDE DEF d
<1>4. /\ e \in TableType /\ \A j \in Ids \ {i} : e[j] = tasks[j]
      /\ e[i].status = st /\ e[i].attempts = s /\ e[i].video = tasks[i].video
      /\ e[i].parent = tasks[i].parent /\ e[i].source = tasks[i].source
  BY <1>2, <1>3 DEF TableType, RowType
<1>5. e[i] \in RowType
  BY <1>4 DEF TableType
<1> HIDE DEF e
<1>6. /\ f \in TableType /\ \A j \in Ids \ {i} : f[j] = tasks[j]
      /\ f[i].status = st /\ f[i].attempts = s /\ f[i].place = pl
      /\ f[i].video = tasks[i].video
      /\ f[i].parent = tasks[i].parent /\ f[i].source = tasks[i].source
  BY <1>4, <1>5 DEF TableType, RowType
<1>7. Committed(st, s, pl) = f
  BY DEF Committed, d, e
<1> QED
  BY <1>6, <1>7

LEMMA AttemptsType ==
    ASSUME NEW s \in Seq(AttemptType)
    PROVE  /\ ToSet(s) \subseteq AttemptType
           /\ KeysOf(ToSet(s)) \subseteq Keys
           /\ TextsOf(ToSet(s)) \subseteq Texts
<1>1. ToSet(s) \subseteq AttemptType
  BY ElementOfSeq, LenProperties DEF ToSet
<1> QED
  BY <1>1 DEF KeysOf, TextsOf, AttemptType

LEMMA NoAttempts ==
    <<>> \in Seq(AttemptType) /\ ToSet(<<>>) = {} /\ KeysOf(ToSet(<<>>)) = {} /\ Len(<<>>) = 0
<1>1. <<>> \in Seq(AttemptType) /\ Len(<<>>) = 0
  BY EmptySeq
<1>2. DOMAIN <<>> = {}
  BY <1>1, LenProperties
<1> QED
  BY <1>1, <1>2 DEF ToSet, KeysOf

LEMMA AttemptAdded ==
    ASSUME NEW s \in Seq(AttemptType), NEW a \in AttemptType
    PROVE  /\ Append(s, a) \in Seq(AttemptType)
           /\ Append(s, a) # <<>> /\ Len(Append(s, a)) = Len(s) + 1
           /\ KeysOf(ToSet(Append(s, a))) = KeysOf(ToSet(s)) \cup ({a.key} \ {NoKey})
<1> DEFINE bs == Append(s, a)
<1>1. bs \in Seq(AttemptType) /\ Len(bs) = Len(s) + 1 /\ Len(s) \in Nat
  BY LenProperties, AppendProperties
<1>2. bs[Len(s) + 1] = a /\ \A i \in 1..Len(s) : bs[i] = s[i]
  OBVIOUS
<1>3. DOMAIN bs = 1..(Len(s) + 1) /\ DOMAIN s = 1..Len(s)
  BY <1>1, LenProperties
<1>4. ToSet(bs) = ToSet(s) \cup {a}
  <2>1. ToSet(bs) = {bs[i] : i \in 1..(Len(s) + 1)} /\ ToSet(s) = {s[i] : i \in 1..Len(s)}
    BY <1>3 DEF ToSet
  <2> HIDE DEF bs
  <2>2. 1..(Len(s) + 1) = 1..Len(s) \cup {Len(s) + 1}
    BY <1>1
  <2> QED
    BY <1>2, <2>1, <2>2
<1>5. bs # <<>>
  <2> HIDE DEF bs
  <2> QED
    BY <1>1, NoAttempts
<1> QED
  BY <1>1, <1>4, <1>5 DEF KeysOf

LEMMA LastRead ==
    ASSUME NEW s \in Seq(AttemptType), s # <<>>, NEW x \in Texts
    PROVE  LET bs == [s EXCEPT ![Len(s)].text = x]
           IN  /\ bs \in Seq(AttemptType)
               /\ bs # <<>> /\ Len(bs) = Len(s)
               /\ KeysOf(ToSet(bs)) = KeysOf(ToSet(s))
               /\ Last(bs).text = x
<1> DEFINE n == Len(s)
           e == [s[n] EXCEPT !.text = x]
           bs == [s EXCEPT ![n] = e]
<1>1. n \in Nat /\ n \in 1..n
  <2>1. n # 0
    OBVIOUS
  <2> QED
    BY <2>1, LenProperties
<1>2. s[n] \in AttemptType
  BY <1>1, ElementOfSeq
<1>3. e \in AttemptType /\ e.text = x /\ e.key = s[n].key
  BY <1>2 DEF AttemptType
<1>4. /\ bs \in Seq(AttemptType) /\ Len(bs) = n
      /\ \A j \in 1..n : bs[j] = IF j = n THEN e ELSE s[j]
  <2> HIDE DEF e
  <2> QED
    BY <1>1, <1>3, ExceptSeq
<1>5. DOMAIN bs = 1..n /\ DOMAIN s = 1..n
  BY <1>4, LenProperties
<1> HIDE DEF bs, e
<1>6. {a.key : a \in ToSet(bs)} = {a.key : a \in ToSet(s)}
  BY <1>1, <1>3, <1>4, <1>5 DEF ToSet
<1>7. Last(bs).text = x
  BY <1>1, <1>3, <1>4 DEF Last
<1>8. bs # <<>>
  BY <1>1, <1>4, EmptySeq
<1>9. [s EXCEPT ![Len(s)].text = x] = bs
  BY DEF bs, e
<1> QED
  BY <1>4, <1>6, <1>7, <1>8, <1>9 DEF KeysOf

LEMMA AttemptedOf ==
    ASSUME NEW S, NEW t \in S
    PROVE  /\ KeysOf(ToSet(tasks[t].attempts)) \subseteq KeysOf(Attempted(S))
           /\ TextsOf(ToSet(tasks[t].attempts)) \subseteq TextsOf(Attempted(S))
BY DEF Attempted, KeysOf, TextsOf

LEMMA KnownTexts ==
    ASSUME tasks \in TableType, NEW S, S \subseteq Ids
    PROVE  TextsOf(Attempted(S)) \subseteq Texts
<1>1. \A t \in S : ToSet(tasks[t].attempts) \subseteq AttemptType
  <2> SUFFICES ASSUME NEW t \in S PROVE ToSet(tasks[t].attempts) \subseteq AttemptType
    OBVIOUS
  <2>1. tasks[t].attempts \in Seq(AttemptType)
    BY DEF TableType, RowType
  <2> QED
    BY <2>1, AttemptsType
<1>2. Attempted(S) \subseteq AttemptType
  BY <1>1 DEF Attempted
<1> QED
  BY <1>2 DEF TextsOf, AttemptType

LEMMA StartBatchType ==
    ASSUME tasks \in TableType, NEW offers, NEW row
    PROVE  /\ StartBatch(offers, row).batch \subseteq offers
           /\ StartBatch(offers, row).known \subseteq Texts
<1>1. Ancestors(row.parent) \subseteq Ids
  BY DEF Ancestors, Behind, Existing
<1>2. TextsOf(Attempted(Ancestors(row.parent))) \subseteq Texts
  BY <1>1, KnownTexts
<1> QED
  BY <1>2 DEF StartBatch, Admissible

LEMMA OfferTypes ==
    ASSUME NEW o \in Offered
    PROVE  o \in OfferType /\ OfferKey(o) \in Keys
BY DEF Offered, OfferType, OfferKey, Keys

LEMMA OfferedIs ==
    ASSUME NEW c \in Candidates, NEW b \in BOOLEAN
    PROVE  Offer(c, b) \in Offered
BY DEF Offer, Offered

LEMMA Busy ==
    ASSUME TypeOK, Idle, run.pc # "idle"
    PROVE  run.task \in Ids /\ run.task # NoId /\ service = "up" /\ run # NoRun
<1>1. run # NoRun
  BY NoRunType
<1>2. run.task \in Ids \cup {NoId}
  BY DEF TypeOK, RunType
<1> QED
  BY <1>1, <1>2 DEF Idle, Ids, NoId

LEMMA Handy ==
    ASSUME TypeOK, InHand, run.pc \in Trying
    PROVE  OfferText \in Texts \cup {NoText}
<1>1. run.offer \in Offered /\ run.row.video \in Videos
  BY DEF InHand, TypeOK, RunType, RowType
<1> QED
  BY <1>1, LoopAssumption DEF OfferText, Video, Offered

LEMMA ReadType ==
    ASSUME TypeOK, InHand, run.pc \in Trying, ~run.lost, OfferText # NoText
    PROVE  /\ AttemptsRead \in Seq(AttemptType)
           /\ AttemptsRead # <<>> /\ Len(AttemptsRead) = Len(run.attempts)
           /\ KeysOf(ToSet(AttemptsRead)) = KeysOf(ToSet(run.attempts))
           /\ Last(AttemptsRead).text = OfferText
<1>1. run.attempts \in Seq(AttemptType) /\ run.attempts # <<>> /\ OfferText \in Texts
  BY Handy DEF InHand, TypeOK, RunType
<1> QED
  BY <1>1, LastRead DEF AttemptsRead

-----------------------------------------------------------------------------
(* Types.                                                                  *)

\* The variables that the run's steps leave alone but for its own.
RestType ==
    /\ files \in [Videos -> [Slots -> FileType]]
    /\ bundles \in [Videos -> Packs \cup {NoCandidate}]
    /\ service \in {"up", "stuck", "down"}
    /\ fetched \in [Ids -> SUBSET Keys]
    /\ chain \in [Ids -> SUBSET Ids]
    /\ budget \in [{"adds", "crashes", "deletes"} -> Nat]

LEMMA TypeParts == TypeOK => tasks \in TableType /\ run \in RunSet /\ RestType
BY DEF TypeOK, TableType, RestType, FileType, RunType, RunSet, Holders, Pcs, Stages, Counts, Tries

LEMMA TypeInit == tasks \in TableType /\ run \in RunSet /\ RestType => TypeOK
BY DEF TypeOK, TableType, RestType, FileType, RunType, RunSet, Holders, Pcs, Stages, Counts, Tries

LEMMA TypeNext == tasks' \in TableType /\ run' \in RunSet /\ RestType' => TypeOK'
BY DEF TypeOK, TableType, RestType, FileType, RunType, RunSet, Holders, Pcs, Stages, Counts, Tries

LEMMA InitType == Init => TypeOK
<1> SUFFICES ASSUME Init PROVE TypeOK
  OBVIOUS
<1>1. tasks \in TableType
  BY NoTaskType DEF Init, TableType
<1>2. NoFile \in FileType
  BY DEF NoFile, File, FileType
<1>3. RestType
  BY <1>2 DEF Init, RestType
<1>4. run \in RunSet
  BY NoRunType DEF Init
<1> QED
  BY <1>1, <1>3, <1>4, TypeInit

LEMMA SearchType ==
    ASSUME TypeOK, Idle, SearchStarts \/ SearchGoesOn
    PROVE  TypeOK'
<1> USE TypeParts
<1>1. run.task \in Ids
  BY Busy DEF SearchStarts, SearchGoesOn
<1>2. run.attempts \in Seq(AttemptType) /\ run.stage \in TaskStatuses
  BY Members DEF RunSet, Tries
<1>3. tasks' \in TableType
  BY <1>1, <1>2, RowWritten, Statuses, NoPlaceType DEF SearchStarts, SearchGoesOn
<1>4. run' \in RunSet
  BY Members DEF SearchStarts, SearchGoesOn, RunSet
<1>5. RestType'
  BY DEF SearchStarts, SearchGoesOn, world, history, RestType
<1> QED
  BY <1>3, <1>4, <1>5, TypeNext

LEMMA AnswerType ==
    ASSUME TypeOK, NEW p \in Providers, SearchReturns(p)
    PROVE  TypeOK' /\ run'.batch \subseteq Offered
<1> USE TypeParts
<1>1. PICK found \in SUBSET Offers[p] :
        LET start == StartBatch({Offer(c, FALSE) : c \in found}, run.row)
        IN  run' = [run EXCEPT !.pc = "next", !.left = @ \ {p},
                               !.batch = start.batch, !.known = start.known]
  BY DEF SearchReturns
<1> DEFINE start == StartBatch({Offer(c, FALSE) : c \in found}, run.row)
<1>2. start.known \subseteq Texts /\ start.batch \subseteq {Offer(c, FALSE) : c \in found}
  BY StartBatchType
<1>3. found \subseteq Candidates
  BY LoopAssumption
<1>4. start.batch \subseteq Offered
  BY <1>2, <1>3, OfferedIs
<1>5. start.batch \subseteq OfferType
  BY <1>4, OfferTypes
<1> HIDE DEF start
<1>6. run' = [run EXCEPT !.pc = "next", !.left = run.left \ {p},
                         !.batch = start.batch, !.known = start.known]
  BY <1>1 DEF start
<1>7. run' \in RunSet /\ run'.batch \subseteq Offered
  BY <1>2, <1>4, <1>5, <1>6, Members DEF RunSet
<1>8. tasks' \in TableType /\ RestType'
  BY DEF SearchReturns, world, history, RestType
<1> QED
  BY <1>7, <1>8, TypeNext

LEMMA TryType ==
    ASSUME TypeOK, Idle, InHand, NEW o \in run.batch, TryCandidate(o)
    PROVE  TypeOK'
<1> USE TypeParts
<1> DEFINE s == Append(run.attempts, Attempt(OfferKey(o), NoText))
<1>1. run.task \in Ids
  BY Busy DEF TryCandidate
<1>2. o \in OfferType /\ OfferKey(o) \in Keys
  BY OfferTypes DEF InHand
<1>3. s \in Seq(AttemptType) /\ s \in Tries
  <2>1. Attempt(OfferKey(o), NoText) \in AttemptType
    BY <1>2 DEF Attempt, AttemptType
  <2>2. run.attempts \in Seq(AttemptType)
    BY DEF RunSet, Tries
  <2> QED
    BY <2>1, <2>2, AttemptAdded DEF Tries
<1>4. UsedBy(o) \in Counts
  <2>1. run.used \in Counts /\ run.used < MaxAttempts
    BY DEF TryCandidate, BudgetLeft, RunSet
  <2> QED
    BY <2>1, LoopAssumption DEF UsedBy, Counts
<1>5. run' = [run EXCEPT !.pc = "download", !.lost = FALSE, !.used = UsedBy(o),
                         !.batch = run.batch \ {o}, !.offer = o, !.synced = FALSE,
                         !.stage = "downloading", !.attempts = s]
  BY DEF TryCandidate
<1>6. tasks' = Committed("downloading", s, NoPlace)
  BY DEF TryCandidate
<1> HIDE DEF s
<1>7. run' \in RunSet
  BY <1>2, <1>3, <1>4, <1>5, Members DEF RunSet
<1>8. tasks' \in TableType
  BY <1>1, <1>3, <1>6, RowWritten, Statuses, NoPlaceType
<1>9. RestType'
  BY <1>1, <1>2 DEF TryCandidate, world, history, RestType
<1> QED
  BY <1>7, <1>8, <1>9, TypeNext

LEMMA ReadTypes ==
    ASSUME TypeOK, Idle, InHand, DownloadFails \/ ContentRejected \/ ContentAccepted
    PROVE  TypeOK'
<1> USE TypeParts
<1>1. RestType'
  BY DEF DownloadFails, ContentRejected, ContentAccepted, world, history, RestType
<1>2. CASE DownloadFails
  <2>1. run' \in RunSet /\ tasks' \in TableType
    BY <1>2, Members DEF DownloadFails, RunSet
  <2> QED
    BY <1>1, <2>1, TypeNext
<1>3. CASE ContentRejected \/ ContentAccepted
  <2>1. run.pc = "download" /\ ~run.lost /\ OfferText # NoText /\ run.task \in Ids
    BY <1>3, Busy DEF ContentRejected, ContentAccepted, Orphaned
  <2>2. AttemptsRead \in Seq(AttemptType) /\ AttemptsRead \in Tries
    BY <2>1, ReadType DEF Trying, Tries
  <2>3. run' \in RunSet
    <3>1. \/ run' = [run EXCEPT !.pc = "next", !.stage = "validating", !.attempts = AttemptsRead]
          \/ run' = [run EXCEPT !.pc = "sync", !.stage = "syncing", !.attempts = AttemptsRead]
          \/ run' = [run EXCEPT !.pc = "place", !.stage = "validating", !.attempts = AttemptsRead]
      BY <1>3 DEF ContentRejected, ContentAccepted
    <3>2. CASE run' = [run EXCEPT !.pc = "next", !.stage = "validating", !.attempts = AttemptsRead]
      BY <2>2, <3>2, Members DEF RunSet
    <3>3. CASE run' = [run EXCEPT !.pc = "sync", !.stage = "syncing", !.attempts = AttemptsRead]
      BY <2>2, <3>3, Members DEF RunSet
    <3>4. CASE run' = [run EXCEPT !.pc = "place", !.stage = "validating", !.attempts = AttemptsRead]
      BY <2>2, <3>4, Members DEF RunSet
    <3> QED
      BY <3>1, <3>2, <3>3, <3>4
  <2>4. tasks' \in TableType
    BY <1>3, <2>1, <2>2, RowWritten, Statuses, NoPlaceType DEF ContentRejected, ContentAccepted
  <2> QED
    BY <1>1, <2>3, <2>4, TypeNext
<1> QED
  BY <1>2, <1>3

LEMMA SyncType ==
    ASSUME TypeOK, SyncSucceeds \/ SyncFails
    PROVE  TypeOK'
<1>1. run' \in RunSet
  BY TypeParts, Members DEF SyncSucceeds, SyncFails, RunSet
<1>2. tasks' \in TableType /\ RestType'
  BY TypeParts DEF SyncSucceeds, SyncFails, world, history, RestType
<1> QED
  BY <1>1, <1>2, TypeNext

LEMMA StoredType ==
    ASSUME TypeOK, InHand, run.pc \in Trying
    PROVE  Stored \in [Videos -> Packs \cup {NoCandidate}]
<1>1. run.offer.candidate \in Candidates /\ bundles \in [Videos -> Packs \cup {NoCandidate}]
  BY DEF InHand, Offered, TypeOK
<1> QED
  BY <1>1 DEF Stored

LEMMA TargetSlots == Target \subseteq Slots
BY LoopAssumption DEF Target, FreeExtras, Slots, Main

LEMMA FilePlaced ==
    ASSUME RestType, NEW v \in Videos, NEW s \in Slots, NEW f \in FileType
    PROVE  /\ [files EXCEPT ![v][s] = f] \in [Videos -> [Slots -> FileType]]
           /\ \A w \in Videos, r \in Slots :
                 [files EXCEPT ![v][s] = f][w][r] = IF w = v /\ r = s THEN f ELSE files[w][r]
BY DEF RestType

LEMMA VideoType == TypeOK => Video \in Videos
BY DEF TypeOK, RunType, RowType, Video

LEMMA ResultType ==
    ASSUME TypeOK, InHand, run.pc \in Trying, NEW b \in BOOLEAN
    PROVE  File(OfferText, b) \in FileType /\ File(OfferText, b).text = OfferText
BY Handy DEF File, FileType

LEMMA NotPlacedType ==
    ASSUME TypeOK, InHand, PlaceSkips \/ PlaceFails
    PROVE  TypeOK'
<1> USE TypeParts
<1>1. run.pc \in Trying
  BY DEF PlaceSkips, PlaceFails, Trying
<1>2. tasks' \in TableType /\ run' \in RunSet
  BY Members DEF PlaceSkips, PlaceFails, RunSet
<1>3. RestType'
  BY <1>1, StoredType DEF PlaceSkips, PlaceFails, history, RestType
<1> QED
  BY <1>2, <1>3, TypeNext

LEMMA PlacedType ==
    ASSUME TypeOK, InHand, NEW slot \in Slots, PlaceSucceeds(slot)
    PROVE  TypeOK'
<1> USE TypeParts
<1>1. run.pc \in Trying /\ run.synced \in BOOLEAN
  BY DEF PlaceSucceeds, Trying, RunSet
<1>2. Result \in FileType
  BY <1>1, ResultType DEF Result
<1>3. Place(Video, slot) \in PlaceType
  BY VideoType, PlaceIsPlace
<1>4. tasks' \in TableType /\ run' \in RunSet
  BY <1>3, Members DEF PlaceSucceeds, RunSet
<1>5. files' \in [Videos -> [Slots -> FileType]]
  BY <1>2, VideoType, FilePlaced DEF PlaceSucceeds
<1>6. bundles' \in [Videos -> Packs \cup {NoCandidate}]
  BY <1>1, StoredType DEF PlaceSucceeds
<1>7. RestType'
  BY <1>5, <1>6 DEF PlaceSucceeds, history, RestType
<1> QED
  BY <1>4, <1>7, TypeNext

\* A status that is written alone.
LEMMA StatusWritten ==
    ASSUME tasks \in TableType, NEW i \in Ids, NEW st \in TaskStatuses
    PROVE  LET d == [tasks EXCEPT ![i].status = st]
           IN  /\ d \in TableType
               /\ \A j \in Ids \ {i} : d[j] = tasks[j]
               /\ d[i].status = st /\ d[i].attempts = tasks[i].attempts
               /\ d[i].place = tasks[i].place /\ d[i].video = tasks[i].video
               /\ d[i].parent = tasks[i].parent /\ d[i].source = tasks[i].source
<1>1. tasks[i] \in RowType
  BY DEF TableType
<1> QED
  BY <1>1 DEF TableType, RowType

LEMMA EndType ==
    ASSUME TypeOK, Idle, Completes \/ Fails
    PROVE  TypeOK'
<1> USE TypeParts
<1>1. run.task \in Ids
  BY Busy DEF Completes, Fails
<1>2. run.attempts \in Seq(AttemptType) /\ run.place \in PlaceType
  BY DEF RunSet, Tries
<1>3. run' \in RunSet
  BY NoRunType DEF Completes, Fails
<1>4. RestType'
  BY DEF Completes, Fails, world, history, RestType
<1>5. tasks' \in TableType
  <2>1. CASE tasks' = [tasks EXCEPT ![run.task].status = "failed"]
    BY <1>1, <2>1, StatusWritten, Statuses
  <2>2. CASE tasks' = Committed("failed", run.attempts, NoPlace)
    BY <1>1, <1>2, <2>2, RowWritten, Statuses, NoPlaceType
  <2>3. CASE tasks' = Committed("completed", run.attempts, run.place)
    BY <1>1, <1>2, <2>3, RowWritten, Statuses
  <2> QED
    BY <2>1, <2>2, <2>3 DEF Completes, Fails
<1> QED
  BY <1>3, <1>4, <1>5, TypeNext

\* What the synchronisation of a lost run leaves behind.
LEMMA RaiseWorld ==
    ASSUME TypeOK, InHand, Raises
    PROVE  /\ bundles' \in [Videos -> Packs \cup {NoCandidate}]
           /\ \/ files' = files
              \/ /\ run.pc = "sync"
                 /\ \E slot \in Target, b \in BOOLEAN :
                       /\ ~AlreadyThere(File(OfferText, b))
                       /\ Occupied(slot) => Overwrite
                       /\ files' = [files EXCEPT ![Video][slot] = File(OfferText, b)]
<1>1. CASE UNCHANGED world
  BY <1>1, TypeParts DEF world, RestType
<1>2. CASE run.pc = "sync" /\ bundles' = Stored /\ UNCHANGED files
  BY <1>2, StoredType DEF Trying
<1>3. CASE /\ run.pc = "sync" /\ Exists(tasks, run.task)
           /\ bundles' = Stored
           /\ \E slot \in Target, synced \in {TRUE, ~SaveUnsynced} :
                 /\ ~AlreadyThere(File(OfferText, synced))
                 /\ Occupied(slot) => Overwrite
                 /\ files' = [files EXCEPT ![Video][slot] = File(OfferText, synced)]
  <2>1. {TRUE, ~SaveUnsynced} \subseteq BOOLEAN
    BY LoopAssumption
  <2> QED
    BY <1>3, <2>1, StoredType DEF Trying
<1> QED
  BY <1>1, <1>2, <1>3 DEF Raises

LEMMA RaiseType ==
    ASSUME TypeOK, Idle, InHand, Owned, Raises
    PROVE  TypeOK'
<1> USE TypeParts
<1>1. run' \in RunSet
  BY NoRunType DEF Raises
<1>2. tasks' \in TableType
  <2>1. run.task \in Ids
    BY Busy, NoRunType DEF Raises, Orphaned, Owned, Idle
  <2> QED
    BY <2>1, StatusWritten, Statuses DEF Raises
<1>3. files' \in [Videos -> [Slots -> FileType]]
  <2>1. CASE files' = files
    BY <2>1 DEF RestType
  <2>2. ASSUME run.pc = "sync", NEW slot \in Target, NEW b \in BOOLEAN,
               files' = [files EXCEPT ![Video][slot] = File(OfferText, b)]
        PROVE  files' \in [Videos -> [Slots -> FileType]]
    <3>1. File(OfferText, b) \in FileType
      BY <2>2, ResultType DEF Trying
    <3> QED
      BY <2>2, <3>1, VideoType, TargetSlots, FilePlaced
  <2> QED
    BY <2>1, <2>2, RaiseWorld
<1>4. service' \in {"up", "stuck", "down"}
  BY DEF Raises, RestType
<1>5. RestType'
  BY <1>3, <1>4, RaiseWorld DEF Raises, history, RestType
<1> QED
  BY <1>1, <1>2, <1>5, TypeNext

LEMMA CachedOffered ==
    ASSUME TypeOK, NEW v \in Videos, NEW offers \in CachedOffers(v) \cup {{}}
    PROVE  offers \subseteq Offered
<1>1. CASE bundles[v] = NoCandidate
  BY <1>1 DEF CachedOffers
<1>2. CASE bundles[v] \in Candidates
  <2>1. offers \in {{}, {Offer(bundles[v], TRUE)}}
    BY DEF CachedOffers
  <2>2. Offer(bundles[v], TRUE) \in Offered
    BY <1>2, OfferedIs
  <2> QED
    BY <2>1, <2>2
<1>3. bundles[v] \in Packs \cup {NoCandidate} /\ Packs \subseteq Candidates
  BY LoopAssumption DEF TypeOK
<1> QED
  BY <1>1, <1>2, <1>3

\* The record of a run that begins.
Begun(t, offers) ==
    /\ run'.task = t /\ run'.pc = "next" /\ run'.row = tasks[t] /\ ~run'.lost
    /\ run'.left = Providers /\ run'.used = 0 /\ run'.attempts = tasks[t].attempts
    /\ run'.batch = StartBatch(offers, tasks[t]).batch
    /\ run'.known = StartBatch(offers, tasks[t]).known
    /\ run'.existing = IF Supplemental(tasks[t])
                       THEN {s \in Slots : files[tasks[t].video][s] # NoFile} ELSE {}

LEMMA BeginType ==
    ASSUME TypeOK, NEW t \in Ids, Begin(t)
    PROVE  /\ TypeOK'
           /\ \E offers \in CachedOffers(tasks[t].video) \cup {{}} : Begun(t, offers)
           /\ run'.batch \subseteq Offered
<1> USE TypeParts
<1> DEFINE row == tasks[t]
           there == IF Supplemental(row) THEN {s \in Slots : files[row.video][s] # NoFile} ELSE {}
<1>1. row \in RowType /\ row.video \in Videos /\ row.attempts \in Tries
  BY DEF TableType, RowType, Tries
<1>2. there \subseteq Slots
  OBVIOUS
<1>3. PICK offers \in CachedOffers(row.video) \cup {{}} :
        run' = [NoRun EXCEPT
                  !.task = t, !.pc = "next", !.row = row, !.left = Providers,
                  !.attempts = row.attempts,
                  !.batch = StartBatch(offers, row).batch,
                  !.known = StartBatch(offers, row).known,
                  !.existing = there,
                  !.stage = IF offers = {} THEN "queued" ELSE "searching"]
  BY DEF Begin
<1> DEFINE start == StartBatch(offers, row)
           stage == IF offers = {} THEN "queued" ELSE "searching"
<1>4. start.known \subseteq Texts /\ start.batch \subseteq Offered
  BY <1>1, CachedOffered, StartBatchType
<1>5. start.batch \subseteq OfferType
  BY <1>4, OfferTypes
<1>6. stage \in Stages
  BY Members
<1>7. NoRun \in RunSet /\ NoRun.used = 0 /\ ~NoRun.lost
  BY NoRunType DEF NoRun
<1> HIDE DEF start, there, stage, row
<1>8. run' = [NoRun EXCEPT !.task = t, !.pc = "next", !.row = row, !.left = Providers,
                           !.attempts = row.attempts, !.batch = start.batch,
                           !.known = start.known, !.existing = there, !.stage = stage]
  BY <1>3 DEF start, there, stage, row
<1>9. run' \in RunSet
  BY <1>1, <1>2, <1>4, <1>5, <1>6, <1>7, <1>8, Members DEF RunSet
<1>10. /\ run'.task = t /\ run'.pc = "next" /\ run'.row = row /\ ~run'.lost
       /\ run'.left = Providers /\ run'.used = 0 /\ run'.attempts = row.attempts
       /\ run'.batch = start.batch /\ run'.known = start.known /\ run'.existing = there
  BY <1>7, <1>8 DEF RunSet
<1>11. Begun(t, offers) /\ run'.batch \subseteq Offered
  BY <1>4, <1>10 DEF Begun, start, there, row
<1>12. tasks' \in TableType /\ RestType'
  BY DEF Begin, world, history, RestType
<1>13. TypeOK'
  BY <1>9, <1>12, TypeNext
<1> QED
  BY <1>11, <1>13 DEF row

-----------------------------------------------------------------------------
(* Tasks that come and go.                                                 *)

LEMMA SpendType ==
    ASSUME NEW what \in {"adds", "crashes", "deletes"}, NEW bound, Spend(what, bound),
           budget \in [{"adds", "crashes", "deletes"} -> Nat]
    PROVE  /\ budget' \in [{"adds", "crashes", "deletes"} -> Nat]
           /\ budget'[what] = budget[what] + 1
           /\ \A other \in {"adds", "crashes", "deletes"} \ {what} : budget'[other] = budget[other]
BY DEF Spend

LEMMA CancelledRows ==
    ASSUME tasks \in TableType, NEW v, NEW o
    PROVE  LET d == WithoutPendingAutoRetries(v, o)
           IN  /\ d \in TableType
               /\ \A j \in Ids :
                     \/ d[j] = tasks[j]
                     \/ /\ tasks[j].status = "queued" /\ d[j].status = "skipped_existing_subtitle"
                        /\ d[j].attempts = tasks[j].attempts /\ d[j].place = tasks[j].place
                        /\ d[j].video = tasks[j].video /\ d[j].parent = tasks[j].parent
<1> DEFINE d == WithoutPendingAutoRetries(v, o)
<1> SUFFICES ASSUME NEW j \in Ids
             PROVE  /\ d[j] \in RowType
                    /\ \/ d[j] = tasks[j]
                       \/ /\ tasks[j].status = "queued" /\ d[j].status = "skipped_existing_subtitle"
                          /\ d[j].attempts = tasks[j].attempts /\ d[j].place = tasks[j].place
                          /\ d[j].video = tasks[j].video /\ d[j].parent = tasks[j].parent
  BY DEF WithoutPendingAutoRetries, TableType
<1>1. tasks[j] \in RowType
  BY DEF TableType
<1>2. CASE j \in PendingAutoRetries(v, o)
  <2>1. tasks[j].status = "queued"
    BY <1>2 DEF PendingAutoRetries
  <2>2. d[j] = [tasks[j] EXCEPT !.status = "skipped_existing_subtitle"]
    BY <1>2 DEF WithoutPendingAutoRetries
  <2> HIDE DEF d
  <2> QED
    BY <1>1, <2>1, <2>2, Statuses DEF RowType
<1>3. CASE j \notin PendingAutoRetries(v, o)
  BY <1>1, <1>3 DEF WithoutPendingAutoRetries
<1> QED
  BY <1>2, <1>3

\* A table like this one, but for waiting retries that were cancelled.
Before(d) ==
    /\ d \in TableType
    /\ \A j \in Ids :
          \/ d[j] = tasks[j]
          \/ /\ tasks[j].status = "queued" /\ d[j].status = "skipped_existing_subtitle"
             /\ d[j].attempts = tasks[j].attempts /\ d[j].place = tasks[j].place
             /\ d[j].video = tasks[j].video /\ d[j].parent = tasks[j].parent

\* A new task t, whose parent exists if it has one.
Inserts(t) ==
    \E row \in RowType, d \in TableType :
        /\ InsertTask(t, row, d) /\ Before(d)
        /\ row.status = "queued" /\ row.attempts = <<>>
        /\ row.parent = NoId \/ row.parent \in Existing

LEMMA Adds ==
    ASSUME TypeOK, NEW t \in Ids, NEW v \in Videos, NEW src \in JobSources, AddTask(t, v, src)
    PROVE  Inserts(t) /\ UNCHANGED service
           /\ budget' \in [{"adds", "crashes", "deletes"} -> Nat]
           /\ budget'["deletes"] = budget["deletes"]
<1>1. NewTask("queued", v, src, NoId) \in RowType
  BY NewTaskType, LoopAssumption, Statuses
<1>2. Before(tasks) /\ tasks \in TableType
  BY TypeParts DEF Before
<1>3. Inserts(t)
  BY <1>1, <1>2 DEF AddTask, Inserts, NewTask
<1>4. Spend("adds", MaxAdds) /\ budget \in [{"adds", "crashes", "deletes"} -> Nat]
  BY DEF AddTask, TypeOK
<1> QED
  BY <1>3, <1>4, SpendType DEF AddTask, InsertTask

LEMMA Retries ==
    ASSUME TypeOK, NEW t \in Ids, NEW o \in Ids, RetryTask(t, o) \/ AutoRetry(t, o)
    PROVE  Inserts(t) /\ UNCHANGED <<service, budget>>
<1>1. tasks[o].video \in Videos /\ o \in Ids \cup {NoId}
  BY DEF TypeOK, RowType
<1>2. /\ NewTask("queued", tasks[o].video, "manual-retry", o) \in RowType
      /\ NewTask("queued", tasks[o].video, "auto-retry", o) \in RowType
  BY <1>1, NewTaskType, Statuses DEF RetrySources
<1>3. /\ Before(tasks) /\ Before(WithoutPendingAutoRetries(tasks[o].video, o))
      /\ tasks \in TableType /\ WithoutPendingAutoRetries(tasks[o].video, o) \in TableType
  BY TypeParts, CancelledRows DEF Before
<1>4. o \in Existing
  BY DEF RetryTask, AutoRetry, Existing, Exists, FailedTaskStatuses
<1>5. Inserts(t)
  BY <1>2, <1>3, <1>4 DEF RetryTask, AutoRetry, Inserts, NewTask
<1> QED
  BY <1>5 DEF RetryTask, AutoRetry, InsertTask

LEMMA InsertedRows ==
    ASSUME TypeOK, NEW t \in Ids, NEW row \in RowType, NEW d, InsertTask(t, row, d), Before(d)
    PROVE  /\ tasks' \in TableType
           /\ tasks'[t] = row /\ t \notin Existing
           /\ \A j \in Ids \ {t} : tasks'[j] = d[j]
BY DEF InsertTask, Before, TableType, IsNextId, Existing, TypeOK, Ids

LEMMA InsertType ==
    ASSUME TypeOK, NEW t \in Ids, Inserts(t), service' = service,
           budget' \in [{"adds", "crashes", "deletes"} -> Nat]
    PROVE  TypeOK'
<1> USE TypeParts
<1>1. PICK row \in RowType, d \in TableType :
        InsertTask(t, row, d) /\ Before(d) /\ (row.parent = NoId \/ row.parent \in Existing)
  BY DEF Inserts
<1>2. tasks' \in TableType /\ run' \in RunSet
  BY <1>1, InsertedRows DEF InsertTask
<1>3. chain' \in [Ids -> SUBSET Ids]
  <2>1. row.parent # NoId => {row.parent} \cup chain[row.parent] \subseteq Ids
    BY <1>1 DEF Existing, RestType
  <2> QED
    BY <1>1, <2>1 DEF InsertTask, RestType
<1>4. RestType'
  BY <1>1, <1>3 DEF InsertTask, world, RestType
<1> QED
  BY <1>2, <1>4, TypeNext

LEMMA PreflightType ==
    ASSUME TypeOK, NEW t \in Ids, Preflight(t)
    PROVE  /\ TypeOK'
           /\ \A j \in Ids \ {t} : tasks'[j] = tasks[j]
           /\ tasks'[t].status \in {"queued", "skipped_existing_subtitle"}
           /\ tasks'[t].attempts = tasks[t].attempts /\ tasks'[t].place = tasks[t].place
           /\ tasks'[t].video = tasks[t].video /\ tasks'[t].parent = tasks[t].parent
<1> USE TypeParts
<1>1. tasks[t] \in RowType /\ tasks[t].status = "queued"
  BY DEF TableType, Preflight
<1>2. \/ tasks' = [tasks EXCEPT ![t].status = "skipped_existing_subtitle"]
      \/ tasks' = [tasks EXCEPT ![t].checked = TRUE]
  BY DEF Preflight
<1>3. /\ tasks' \in TableType
      /\ \A j \in Ids \ {t} : tasks'[j] = tasks[j]
      /\ tasks'[t].status \in {"queued", "skipped_existing_subtitle"}
      /\ tasks'[t].attempts = tasks[t].attempts /\ tasks'[t].place = tasks[t].place
      /\ tasks'[t].video = tasks[t].video /\ tasks'[t].parent = tasks[t].parent
  <2>1. CASE tasks' = [tasks EXCEPT ![t].status = "skipped_existing_subtitle"]
    <3>1. "skipped_existing_subtitle" \in TaskStatuses
      BY Statuses
    <3> DEFINE d == [tasks EXCEPT ![t].status = "skipped_existing_subtitle"]
    <3>2. /\ d \in TableType /\ \A j \in Ids \ {t} : d[j] = tasks[j]
          /\ d[t].status = "skipped_existing_subtitle" /\ d[t].attempts = tasks[t].attempts
          /\ d[t].place = tasks[t].place /\ d[t].video = tasks[t].video
          /\ d[t].parent = tasks[t].parent
      BY <3>1, StatusWritten
    <3> HIDE DEF d
    <3> QED
      BY <2>1, <3>2 DEF d
  <2>2. CASE tasks' = [tasks EXCEPT ![t].checked = TRUE]
    BY <1>1, <2>2 DEF TableType, RowType
  <2> QED
    BY <1>2, <2>1, <2>2
<1>4. run' \in RunSet /\ RestType'
  BY DEF Preflight, world, history, RestType
<1> QED
  BY <1>3, <1>4, TypeNext

\* A task goes, and takes the run's attempts with it if it is the run's.
Gone(t) ==
    /\ tasks' = [tasks EXCEPT ![t] = NoTask]
    /\ IF run.task = t
       THEN /\ run'.lost /\ run'.attempts = <<>> /\ run'.task = run.task /\ run'.pc = run.pc
            /\ run'.row = run.row /\ run'.left = run.left /\ run'.batch = run.batch
            /\ run'.used = run.used /\ run'.offer = run.offer /\ run'.stage = run.stage
            /\ run'.synced = run.synced /\ run'.existing = run.existing
            /\ run'.known = run.known /\ run'.place = run.place
       ELSE run' = run

LEMMA DeleteType ==
    ASSUME TypeOK, NEW t \in Ids, NEW b \in BOOLEAN, DeleteTask(t, b)
    PROVE  TypeOK' /\ Gone(t) /\ budget'["deletes"] # 0
<1> USE TypeParts
<1>1. <<>> \in Tries
  BY EmptySeq DEF Tries
<1>2. run' = IF run.task = t THEN [run EXCEPT !.lost = TRUE, !.attempts = <<>>] ELSE run
  BY DEF DeleteTask
<1>3. run' \in RunSet /\ Gone(t)
  BY <1>1, <1>2 DEF RunSet, Gone, DeleteTask
<1>4. tasks' \in TableType
  BY NoTaskType DEF DeleteTask, TableType
<1>5. files' \in [Videos -> [Slots -> FileType]]
  <2>1. NoFile \in FileType
    BY DEF NoFile, File, FileType
  <2> QED
    BY <2>1 DEF DeleteTask, RestType
<1>6. budget' \in [{"adds", "crashes", "deletes"} -> Nat] /\ budget'["deletes"] # 0
  <2>1. Spend("deletes", MaxDeletes) /\ budget \in [{"adds", "crashes", "deletes"} -> Nat]
    BY DEF DeleteTask, RestType
  <2> QED
    BY <2>1, SpendType
<1>7. RestType'
  BY <1>5, <1>6 DEF DeleteTask, RestType
<1> QED
  BY <1>3, <1>4, <1>6, <1>7, TypeNext

LEMMA CrashType ==
    ASSUME TypeOK, Crash
    PROVE  TypeOK' /\ budget'["deletes"] = budget["deletes"]
<1>1. budget' \in [{"adds", "crashes", "deletes"} -> Nat] /\ budget'["deletes"] = budget["deletes"]
  <2>1. Spend("crashes", MaxCrashes) /\ budget \in [{"adds", "crashes", "deletes"} -> Nat]
    BY DEF Crash, TypeOK
  <2> QED
    BY <2>1, SpendType
<1>2. tasks' \in TableType /\ run' \in RunSet
  BY NoRunType, TypeParts DEF Crash
<1>3. RestType'
  BY <1>1, TypeParts DEF Crash, world, history, RestType
<1> QED
  BY <1>1, <1>2, <1>3, TypeNext

LEMMA RestartType ==
    ASSUME TypeOK, Restart
    PROVE  /\ TypeOK'
           /\ \A j \in Ids :
                 /\ tasks'[j].status = IF tasks[j].status \in ActiveTaskStatuses
                                       THEN "interrupted" ELSE tasks[j].status
                 /\ tasks'[j].attempts = tasks[j].attempts /\ tasks'[j].place = tasks[j].place
                 /\ tasks'[j].video = tasks[j].video /\ tasks'[j].parent = tasks[j].parent
<1> USE TypeParts
<1>1. ASSUME NEW j \in Ids
      PROVE  /\ tasks'[j] \in RowType
             /\ tasks'[j].status = IF tasks[j].status \in ActiveTaskStatuses
                                   THEN "interrupted" ELSE tasks[j].status
             /\ tasks'[j].attempts = tasks[j].attempts /\ tasks'[j].place = tasks[j].place
             /\ tasks'[j].video = tasks[j].video /\ tasks'[j].parent = tasks[j].parent
  <2>1. tasks[j] \in RowType
    BY DEF TableType
  <2>2. tasks'[j] = [tasks[j] EXCEPT !.checked = FALSE,
                                     !.status = IF tasks[j].status \in ActiveTaskStatuses
                                                THEN "interrupted" ELSE tasks[j].status]
    BY <2>1 DEF Restart, RowType
  <2> QED
    BY <2>1, <2>2, Statuses DEF RowType
<1>2. tasks' \in TableType
  <2>1. tasks' = [j \in Ids |-> tasks'[j]]
    BY DEF Restart
  <2> QED
    BY <1>1, <2>1 DEF TableType
<1>3. run' \in RunSet /\ RestType'
  BY DEF Restart, world, history, RestType
<1> QED
  BY <1>1, <1>2, <1>3, TypeNext

-----------------------------------------------------------------------------
(* What the steps of a run do, field by field.                             *)

\* The run goes on, with the same task and the same view of its row.
Going ==
    /\ run'.task = run.task /\ run'.row = run.row /\ run'.existing = run.existing
    /\ UNCHANGED <<service, chain, budget>>

\* It has in hand what it had.
SameHand ==
    /\ run'.batch = run.batch /\ run'.left = run.left /\ run'.used = run.used
    /\ run'.known = run.known /\ run'.lost = run.lost

\* The row of the run's task is written.
Recording(st, s, pl) ==
    /\ \A j \in Ids \ {run.task} : tasks'[j] = tasks[j]
    /\ tasks'[run.task].status = st
    /\ tasks'[run.task].attempts = s
    /\ tasks'[run.task].place = pl
    /\ tasks'[run.task].video = tasks[run.task].video
    /\ tasks'[run.task].parent = tasks[run.task].parent

LEMMA Records ==
    ASSUME TypeOK, NEW i \in Ids, run.task = i,
           NEW st \in TaskStatuses, NEW s \in Seq(AttemptType), NEW pl \in PlaceType,
           tasks' = Committed(st, s, pl)
    PROVE  Recording(st, s, pl)
<1>1. tasks \in TableType
  BY TypeParts
<1> QED
  BY <1>1, RowWritten DEF Recording

\* A stage is one of a task under way once the run has looked for candidates.
LEMMA StageSet ==
    ASSUME TypeOK, Idle, Counted, run.pc # "idle",
           run.pc # "next" \/ run.left # Providers
    PROVE  run.stage \in ActiveTaskStatuses
<1>1. run.task # NoId /\ run.stage \in Stages
  BY Busy, TypeParts DEF RunSet
<1> QED
  BY <1>1 DEF Counted, Stages

LEMMA SearchEffect ==
    ASSUME TypeOK, Idle, Counted, Owned, SearchStarts \/ SearchGoesOn
    PROVE  /\ Going /\ run'.pc = "search" /\ run'.stage \in ActiveTaskStatuses
           /\ run'.batch = run.batch /\ run'.left = run.left /\ run'.used = run.used
           /\ run'.known = run.known /\ run'.attempts = run.attempts
           /\ UNCHANGED <<files, fetched>>
           /\ \/ run.lost /\ run'.lost /\ tasks' = tasks
              \/ /\ ~run'.lost /\ Exists(tasks, run.task)
                 /\ \E st \in ActiveTaskStatuses : Recording(st, run.attempts, NoPlace)
<1> USE TypeParts
<1>1. run.task \in Ids /\ run.task # NoId /\ run.pc = "next"
  BY Busy DEF SearchStarts, SearchGoesOn
<1>2. run.attempts \in Seq(AttemptType) /\ run.lost \in BOOLEAN
  BY DEF RunSet, Tries
<1>3. CASE SearchStarts
  <2>1. Exists(tasks, run.task)
    BY <1>1, <1>2, <1>3 DEF SearchStarts, Orphaned, Owned
  <2>2. Recording("searching", run.attempts, NoPlace)
    BY <1>1, <1>2, <1>3, Records, Statuses, NoPlaceType DEF SearchStarts
  <2> QED
    BY <1>3, <2>1, <2>2, Statuses DEF SearchStarts, world, history, Going, RunSet
<1>4. CASE SearchGoesOn
  <2>1. run.stage \in ActiveTaskStatuses
    BY <1>1, <1>4, StageSet DEF SearchGoesOn
  <2>2. CASE run.lost
    BY <1>4, <2>1, <2>2 DEF SearchGoesOn, world, history, Going, RunSet
  <2>3. CASE ~run.lost
    <3>1. Exists(tasks, run.task)
      BY <1>1, <2>3 DEF Owned
    <3>2. Recording(run.stage, run.attempts, NoPlace)
      BY <1>1, <1>2, <1>4, <2>1, <2>3, Records, Statuses, NoPlaceType DEF SearchGoesOn
    <3> QED
      BY <1>4, <2>1, <2>3, <3>1, <3>2 DEF SearchGoesOn, world, history, Going, RunSet
  <2> QED
    BY <2>2, <2>3
<1> QED
  BY <1>3, <1>4

LEMMA AnswerEffect ==
    ASSUME TypeOK, Idle, Counted, NEW p \in Providers, SearchReturns(p)
    PROVE  /\ Going /\ run'.pc = "next" /\ run'.stage \in ActiveTaskStatuses
           /\ run'.batch \subseteq Offered
           /\ \E offers : /\ run'.batch = StartBatch(offers, run.row).batch
                          /\ run'.known = StartBatch(offers, run.row).known
           /\ run'.used = run.used /\ run'.attempts = run.attempts /\ run'.lost = run.lost
           /\ UNCHANGED <<tasks, files, fetched>>
<1> USE TypeParts
<1>1. PICK found \in SUBSET Offers[p] :
        LET start == StartBatch({Offer(c, FALSE) : c \in found}, run.row)
        IN  run' = [run EXCEPT !.pc = "next", !.left = @ \ {p},
                               !.batch = start.batch, !.known = start.known]
  BY DEF SearchReturns
<1> DEFINE start == StartBatch({Offer(c, FALSE) : c \in found}, run.row)
<1>2. run.stage \in ActiveTaskStatuses
  BY StageSet DEF SearchReturns
<1>3. run' = [run EXCEPT !.pc = "next", !.left = run.left \ {p},
                         !.batch = start.batch, !.known = start.known]
  BY <1>1
<1>4. run'.batch = start.batch /\ run'.known = start.known
  <2> HIDE DEF start
  <2> QED
    BY <1>3 DEF RunSet
<1>5. \E offers : /\ run'.batch = StartBatch(offers, run.row).batch
                  /\ run'.known = StartBatch(offers, run.row).known
  BY <1>4
<1> HIDE DEF start
<1>6. /\ Going /\ run'.pc = "next" /\ run'.stage = run.stage
      /\ run'.used = run.used /\ run'.attempts = run.attempts /\ run'.lost = run.lost
  BY <1>3 DEF RunSet, SearchReturns, Going, history
<1>7. UNCHANGED <<tasks, files, fetched>>
  BY DEF SearchReturns, world, history
<1> QED
  BY <1>2, <1>5, <1>6, <1>7, AnswerType

LEMMA TryEffect ==
    ASSUME TypeOK, Idle, InHand, Owned, NEW o \in run.batch, TryCandidate(o)
    PROVE  /\ Going /\ run'.pc = "download" /\ run'.stage \in ActiveTaskStatuses
           /\ ~run'.lost /\ run'.used = run.used + 1 /\ run.used < MaxAttempts
           /\ run'.batch \subseteq run.batch /\ run'.offer = o /\ run'.known = run.known
           /\ run'.attempts = Append(run.attempts, Attempt(OfferKey(o), NoText))
           /\ Recording("downloading", run'.attempts, NoPlace) /\ Exists(tasks, run.task)
           /\ UNCHANGED files
           /\ \/ fetched' = fetched
              \/ fetched' = [fetched EXCEPT ![run.task] = @ \cup ({OfferKey(o)} \ {NoKey})]
<1> USE TypeParts
<1> DEFINE s == Append(run.attempts, Attempt(OfferKey(o), NoText))
<1>1. run.task \in Ids /\ run.task # NoId /\ run.pc = "next"
  BY Busy DEF TryCandidate
<1>2. s \in Seq(AttemptType)
  <2>1. Attempt(OfferKey(o), NoText) \in AttemptType
    BY OfferTypes DEF Attempt, AttemptType, InHand
  <2>2. run.attempts \in Seq(AttemptType)
    BY DEF RunSet, Tries
  <2> QED
    BY <2>1, <2>2, AttemptAdded
<1>3. Exists(tasks, run.task)
  BY <1>1 DEF TryCandidate, Orphaned, Owned
<1>4. run' = [run EXCEPT !.pc = "download", !.lost = FALSE, !.used = UsedBy(o),
                         !.batch = run.batch \ {o}, !.offer = o, !.synced = FALSE,
                         !.stage = "downloading", !.attempts = s]
  BY DEF TryCandidate
<1>5. tasks' = Committed("downloading", s, NoPlace)
  BY DEF TryCandidate
<1> HIDE DEF s
<1>6. Recording("downloading", s, NoPlace)
  BY <1>1, <1>2, <1>5, Records, Statuses, NoPlaceType
<1>7. /\ run'.task = run.task /\ run'.row = run.row /\ run'.existing = run.existing
      /\ run'.pc = "download" /\ run'.stage = "downloading" /\ ~run'.lost
      /\ run'.used = UsedBy(o) /\ run'.batch = run.batch \ {o} /\ run'.offer = o
      /\ run'.known = run.known /\ run'.attempts = s
  BY <1>4 DEF RunSet
<1>8. Going /\ UNCHANGED files /\ run.used < MaxAttempts
  BY <1>7 DEF Going, TryCandidate, world, BudgetLeft
<1>9. \/ fetched' = fetched
      \/ fetched' = [fetched EXCEPT ![run.task] = @ \cup ({OfferKey(o)} \ {NoKey})]
  BY DEF TryCandidate
<1> QED
  BY <1>3, <1>6, <1>7, <1>8, <1>9, Statuses DEF UsedBy, s

\* The candidate in hand is given up.
TurnedDown ==
    DownloadFails \/ ContentRejected \/ (SyncFails /\ run'.pc = "next") \/ PlaceSkips \/ PlaceFails

LEMMA TurnedDownEffect ==
    ASSUME TypeOK, Idle, Counted, InHand, TurnedDown
    PROVE  /\ Going /\ SameHand /\ run'.pc = "next" /\ run'.stage \in ActiveTaskStatuses
           /\ UNCHANGED <<tasks, files, fetched>>
           /\ \/ run'.attempts = run.attempts
              \/ /\ run'.attempts # <<>> /\ Len(run'.attempts) = Len(run.attempts)
                 /\ KeysOf(ToSet(run'.attempts)) = KeysOf(ToSet(run.attempts))
<1> USE TypeParts
<1>1. run.pc \in Trying /\ run.pc # "idle" /\ run.pc # "next"
  BY DEF TurnedDown, DownloadFails, ContentRejected, SyncFails, PlaceSkips, PlaceFails, Trying
<1>2. run.stage \in ActiveTaskStatuses
  BY <1>1, StageSet
<1>3. UNCHANGED <<tasks, files, fetched, chain, service, budget>>
  BY DEF TurnedDown, DownloadFails, ContentRejected, SyncFails, PlaceSkips, PlaceFails, world, history
<1>4. CASE run' = [run EXCEPT !.pc = "next"]
  BY <1>2, <1>3, <1>4 DEF Going, SameHand, RunSet
<1>5. CASE \/ run' = [run EXCEPT !.pc = "next", !.stage = "validating"]
           \/ run' = [run EXCEPT !.pc = "next", !.stage = "placing"]
  <2>1. CASE run' = [run EXCEPT !.pc = "next", !.stage = "validating"]
    BY <1>3, <2>1, Statuses DEF Going, SameHand, RunSet
  <2>2. CASE run' = [run EXCEPT !.pc = "next", !.stage = "placing"]
    BY <1>3, <2>2, Statuses DEF Going, SameHand, RunSet
  <2> QED
    BY <1>5, <2>1, <2>2
<1>6. CASE ContentRejected
  <2>1. run' = [run EXCEPT !.pc = "next", !.stage = "validating", !.attempts = AttemptsRead]
    BY <1>6 DEF ContentRejected
  <2>2. /\ AttemptsRead # <<>> /\ Len(AttemptsRead) = Len(run.attempts)
        /\ KeysOf(ToSet(AttemptsRead)) = KeysOf(ToSet(run.attempts))
    BY <1>1, <1>6, ReadType DEF ContentRejected, Orphaned
  <2>3. /\ run'.task = run.task /\ run'.row = run.row /\ run'.existing = run.existing
        /\ SameHand /\ run'.pc = "next" /\ run'.stage = "validating"
        /\ run'.attempts = AttemptsRead
    BY <2>1 DEF RunSet, SameHand
  <2> QED
    BY <1>3, <2>2, <2>3, Statuses DEF Going
<1>7. CASE SyncFails /\ run'.pc = "next"
  <2>1. run' = [run EXCEPT !.pc = "next"]
    BY <1>7 DEF SyncFails, RunSet
  <2> QED
    BY <1>4, <2>1
<1> QED
  BY <1>4, <1>5, <1>6, <1>7 DEF TurnedDown, DownloadFails, PlaceSkips, PlaceFails

LEMMA AcceptEffect ==
    ASSUME TypeOK, Idle, InHand, Owned, ContentAccepted
    PROVE  /\ Going /\ SameHand /\ run'.pc \in {"sync", "place"} /\ ~run.lost
           /\ run'.stage \in ActiveTaskStatuses /\ run'.offer = run.offer
           /\ run'.attempts # <<>> /\ Len(run'.attempts) = Len(run.attempts)
           /\ KeysOf(ToSet(run'.attempts)) = KeysOf(ToSet(run.attempts))
           /\ Last(run'.attempts).text = OfferText
           /\ OfferText # NoText /\ OfferText \notin run.known /\ OfferText \notin EpisodeTexts(Video)
           /\ UNCHANGED <<files, fetched>>
           /\ \/ tasks' = tasks
              \/ Recording("syncing", run'.attempts, NoPlace) /\ Exists(tasks, run.task)
<1> USE TypeParts
<1>1. run.pc = "download" /\ run.pc \in Trying /\ ~run.lost
  BY DEF ContentAccepted, Orphaned, Trying
<1>2. run.task \in Ids /\ run.task # NoId
  BY <1>1, Busy
<1>3. OfferText # NoText /\ OfferText \notin run.known /\ OfferText \notin EpisodeTexts(Video)
  BY DEF ContentAccepted, IsDuplicate
<1>4. /\ AttemptsRead # <<>> /\ Len(AttemptsRead) = Len(run.attempts)
      /\ KeysOf(ToSet(AttemptsRead)) = KeysOf(ToSet(run.attempts))
      /\ Last(AttemptsRead).text = OfferText
      /\ AttemptsRead \in Seq(AttemptType)
  BY <1>1, <1>3, ReadType
<1>5. /\ run'.task = run.task /\ run'.row = run.row /\ run'.existing = run.existing
      /\ SameHand /\ run'.pc \in {"sync", "place"} /\ run'.offer = run.offer
      /\ run'.stage \in ActiveTaskStatuses /\ run'.attempts = AttemptsRead
  <2>1. \/ run' = [run EXCEPT !.pc = "sync", !.stage = "syncing", !.attempts = AttemptsRead]
        \/ run' = [run EXCEPT !.pc = "place", !.stage = "validating", !.attempts = AttemptsRead]
    BY DEF ContentAccepted
  <2>2. CASE run' = [run EXCEPT !.pc = "sync", !.stage = "syncing", !.attempts = AttemptsRead]
    BY <2>2, Statuses DEF RunSet, SameHand
  <2>3. CASE run' = [run EXCEPT !.pc = "place", !.stage = "validating", !.attempts = AttemptsRead]
    BY <2>3, Statuses DEF RunSet, SameHand
  <2> QED
    BY <2>1, <2>2, <2>3
<1>6. \/ tasks' = tasks
      \/ Recording("syncing", AttemptsRead, NoPlace) /\ Exists(tasks, run.task)
  <2>1. Exists(tasks, run.task)
    BY <1>1, <1>2 DEF Owned
  <2>2. tasks' = tasks \/ tasks' = Committed("syncing", AttemptsRead, NoPlace)
    BY DEF ContentAccepted
  <2> QED
    BY <1>2, <1>4, <2>1, <2>2, Records, Statuses, NoPlaceType
<1>7. UNCHANGED <<files, fetched, chain, service, budget>>
  BY DEF ContentAccepted, world, history
<1> QED
  BY <1>1, <1>3, <1>4, <1>5, <1>6, <1>7 DEF Going

\* The synchronised subtitle, or the other one, goes on to be placed.
Synced == SyncSucceeds \/ (SyncFails /\ run'.pc = "place")

LEMMA SyncIsOne ==
    ASSUME TypeOK, SyncSucceeds \/ SyncFails
    PROVE  Synced \/ TurnedDown
BY TypeParts DEF Synced, TurnedDown, SyncFails, RunSet

LEMMA SyncedEffect ==
    ASSUME TypeOK, Synced
    PROVE  /\ Going /\ SameHand /\ run.pc = "sync" /\ run'.pc = "place" /\ ~run.lost
           /\ run'.stage = run.stage /\ run'.offer = run.offer /\ run'.attempts = run.attempts
           /\ UNCHANGED <<tasks, files, fetched>>
<1> USE TypeParts
<1>1. \/ run' = [run EXCEPT !.pc = "place", !.synced = TRUE]
      \/ run' = [run EXCEPT !.pc = "place"]
  BY DEF Synced, SyncSucceeds, SyncFails, RunSet
<1>2. run.pc = "sync" /\ ~run.lost /\ UNCHANGED <<tasks, files, fetched, chain, service, budget>>
  BY DEF Synced, SyncSucceeds, SyncFails, Orphaned, world, history
<1>3. CASE run' = [run EXCEPT !.pc = "place", !.synced = TRUE]
  BY <1>2, <1>3 DEF RunSet, Going, SameHand
<1>4. CASE run' = [run EXCEPT !.pc = "place"]
  BY <1>2, <1>4 DEF RunSet, Going, SameHand
<1> QED
  BY <1>1, <1>3, <1>4

\* One file is written, with the text in hand, where nothing is lost by it.
Writes(v, s) ==
    /\ Occupied(s) => Overwrite
    /\ v = Video
    /\ files'[v][s].text = OfferText
    /\ ~AlreadyThere(files'[v][s])
    /\ \A w \in Videos, r \in Slots : files'[w][r] # files[w][r] => w = v /\ r = s

LEMMA PlacedEffect ==
    ASSUME TypeOK, InHand, NEW slot \in Slots, PlaceSucceeds(slot)
    PROVE  /\ Going /\ SameHand /\ run.pc = "place" /\ run'.pc = "placed"
           /\ run'.stage \in ActiveTaskStatuses /\ run'.offer = run.offer
           /\ run'.attempts = run.attempts /\ run'.place = Place(Video, slot)
           /\ Writes(Video, slot)
           /\ UNCHANGED <<tasks, fetched>>
<1> USE TypeParts
<1>1. run.pc = "place" /\ run.pc \in Trying /\ run.synced \in BOOLEAN
  BY DEF PlaceSucceeds, Trying, RunSet
<1>2. Result \in FileType /\ Result.text = OfferText
  BY <1>1, ResultType DEF Result
<1>3. \A w \in Videos, r \in Slots :
        files'[w][r] = IF w = Video /\ r = slot THEN Result ELSE files[w][r]
  BY <1>2, VideoType, FilePlaced DEF PlaceSucceeds
<1>4. Writes(Video, slot)
  BY <1>2, <1>3, VideoType DEF Writes, PlaceSucceeds
<1>5. run' = [run EXCEPT !.pc = "placed", !.stage = "placing", !.place = Place(Video, slot)]
  BY DEF PlaceSucceeds
<1>6. /\ run'.task = run.task /\ run'.row = run.row /\ run'.existing = run.existing
      /\ SameHand /\ run'.pc = "placed" /\ run'.stage = "placing" /\ run'.offer = run.offer
      /\ run'.attempts = run.attempts /\ run'.place = Place(Video, slot)
  BY <1>5 DEF RunSet, SameHand
<1>7. UNCHANGED <<tasks, fetched, chain, service, budget>>
  BY DEF PlaceSucceeds, history
<1> QED
  BY <1>1, <1>4, <1>6, <1>7, Statuses DEF Going

LEMMA CompleteEffect ==
    ASSUME TypeOK, Idle, Owned, Completes
    PROVE  /\ run' = NoRun /\ run.pc = "placed" /\ ~run.lost
           /\ run.task \in Ids /\ Exists(tasks, run.task)
           /\ Recording("completed", run.attempts, run.place)
           /\ UNCHANGED <<files, fetched, chain, service, budget>>
<1>1. run.pc = "placed" /\ run.task \in Ids /\ run.task # NoId
  BY Busy DEF Completes
<1>2. ~run.lost /\ Exists(tasks, run.task)
  BY <1>1 DEF Owned
<1>3. run.attempts \in Seq(AttemptType) /\ run.place \in PlaceType
  BY TypeParts DEF RunSet, Tries
<1>4. Recording("completed", run.attempts, run.place)
  BY <1>1, <1>3, Records, Statuses DEF Completes
<1> QED
  BY <1>1, <1>2, <1>4 DEF Completes, world, history

\* The status alone, or what the run has written too.
LEMMA FailEffect ==
    ASSUME TypeOK, Idle, InHand, Owned, Fails \/ Raises
    PROVE  /\ run' = NoRun /\ run.task \in Ids
           /\ \/ tasks' = tasks
              \/ /\ Exists(tasks, run.task)
                 /\ \/ Recording("failed", tasks[run.task].attempts, tasks[run.task].place)
                    \/ ~run.lost /\ Recording("failed", run.attempts, NoPlace)
           /\ UNCHANGED <<fetched, chain, budget>>
           /\ \/ files' = files
              \/ run.pc = "sync" /\ \E slot \in Slots : Writes(Video, slot)
<1> USE TypeParts
<1>1. run.task \in Ids /\ run.task # NoId
  BY Busy, NoRunType DEF Fails, Raises, Orphaned, Owned, Idle
<1>2. run' = NoRun /\ UNCHANGED <<fetched, chain, budget>>
  BY DEF Fails, Raises, history
<1>3. ASSUME tasks' = [tasks EXCEPT ![run.task].status = "failed"]
      PROVE  Recording("failed", tasks[run.task].attempts, tasks[run.task].place)
  BY <1>1, <1>3, StatusWritten, Statuses DEF Recording
<1>4. \/ tasks' = tasks
      \/ /\ Exists(tasks, run.task)
         /\ \/ Recording("failed", tasks[run.task].attempts, tasks[run.task].place)
            \/ ~run.lost /\ Recording("failed", run.attempts, NoPlace)
  <2>1. CASE Fails
    <3>1. Exists(tasks, run.task)
      BY <1>1, <2>1 DEF Fails, Orphaned, Owned
    <3>2. run.attempts \in Seq(AttemptType)
      BY DEF RunSet, Tries
    <3>3. CASE run.lost
      BY <1>3, <2>1, <3>1, <3>3 DEF Fails
    <3>4. CASE ~run.lost
      <4>1. Recording("failed", run.attempts, NoPlace)
        BY <1>1, <2>1, <3>2, <3>4, Records, Statuses, NoPlaceType DEF Fails
      <4> QED
        BY <3>1, <3>4, <4>1
    <3> QED
      BY <3>3, <3>4
  <2>2. CASE Raises
    BY <1>3, <2>2 DEF Raises
  <2> QED
    BY <2>1, <2>2
<1>5. files' = files \/ (run.pc = "sync" /\ \E slot \in Slots : Writes(Video, slot))
  <2>1. ASSUME run.pc = "sync", NEW slot \in Target, NEW b \in BOOLEAN,
               ~AlreadyThere(File(OfferText, b)), Occupied(slot) => Overwrite,
               files' = [files EXCEPT ![Video][slot] = File(OfferText, b)]
        PROVE  slot \in Slots /\ Writes(Video, slot)
    <3>1. File(OfferText, b) \in FileType /\ File(OfferText, b).text = OfferText /\ slot \in Slots
      BY <2>1, ResultType, TargetSlots DEF Trying
    <3>2. \A w \in Videos, r \in Slots :
            files'[w][r] = IF w = Video /\ r = slot THEN File(OfferText, b) ELSE files[w][r]
      BY <2>1, <3>1, VideoType, FilePlaced
    <3> QED
      BY <2>1, <3>1, <3>2, VideoType DEF Writes
  <2>2. CASE Fails
    BY <2>2 DEF Fails, world
  <2>3. CASE Raises
    BY <2>1, <2>3, RaiseWorld
  <2> QED
    BY <2>2, <2>3
<1> QED
  BY <1>1, <1>2, <1>4, <1>5

-----------------------------------------------------------------------------
(* The steps of a run preserve the invariant.                              *)

LEMMA RunCases ==
    ASSUME TypeOK, RunStep
    PROVE  \/ SearchStarts \/ SearchGoesOn
           \/ \E p \in Providers : SearchReturns(p)
           \/ \E o \in run.batch : TryCandidate(o)
           \/ TurnedDown \/ ContentAccepted \/ Synced
           \/ \E slot \in Slots : PlaceSucceeds(slot)
           \/ Completes \/ Fails \/ Raises
BY SyncIsOne DEF RunStep, TurnedDown

LEMMA RunStepType ==
    ASSUME IInv, RunStep
    PROVE  TypeOK' /\ run.task \in Ids /\ run.task # NoId /\ run.pc # "idle"
<1>1. TypeOK'
  BY SearchType, AnswerType, TryType, ReadTypes, SyncType, NotPlacedType, PlacedType, EndType,
     RaiseType DEF RunStep, IInv
<1>2. run.pc # "idle"
  BY NoRunType DEF RunStep, SearchStarts, SearchGoesOn, SearchReturns, TryCandidate, DownloadFails,
     ContentRejected, ContentAccepted, SyncSucceeds, SyncFails, PlaceSkips, PlaceFails,
     PlaceSucceeds, Completes, Fails, Raises, Orphaned, IInv, Owned
<1> QED
  BY <1>1, <1>2, Busy DEF IInv

LEMMA IdleRun ==
    ASSUME IInv, RunStep
    PROVE  Idle'
<1>1. TypeOK /\ Idle /\ Counted /\ InHand /\ Owned /\ run.task # NoId /\ service = "up"
  BY RunStepType, Busy DEF IInv
<1>2. run' = NoRun => Idle'
  BY DEF Idle
<1>3. Going /\ run'.pc # "idle" => Idle'
  BY <1>1 DEF Going, Idle
<1> QED
  BY <1>1, <1>2, <1>3, RunCases, SearchEffect, AnswerEffect, TryEffect, TurnedDownEffect,
     AcceptEffect, SyncedEffect, PlacedEffect, CompleteEffect, FailEffect

\* What becomes of the rows.
LEMMA RunRows ==
    ASSUME IInv, RunStep
    PROVE  /\ UNCHANGED <<chain, budget>>
           /\ \/ tasks' = tasks
              \/ /\ Exists(tasks, run.task)
                 /\ \E st \in ActiveTaskStatuses \cup {"failed"} : \E s, pl : Recording(st, s, pl)
              \/ Completes
<1>1. TypeOK /\ Idle /\ Counted /\ InHand /\ Owned
  BY DEF IInv
<1>2. CASE SearchStarts \/ SearchGoesOn
  BY <1>1, <1>2, SearchEffect DEF Going
<1>3. CASE \E p \in Providers : SearchReturns(p)
  BY <1>1, <1>3, AnswerEffect DEF Going
<1>4. CASE \E o \in run.batch : TryCandidate(o)
  BY <1>1, <1>4, TryEffect, Statuses DEF Going
<1>5. CASE TurnedDown
  BY <1>1, <1>5, TurnedDownEffect DEF Going
<1>6. CASE ContentAccepted
  BY <1>1, <1>6, AcceptEffect, Statuses DEF Going
<1>7. CASE Synced
  BY <1>1, <1>7, SyncedEffect DEF Going
<1>8. CASE \E slot \in Slots : PlaceSucceeds(slot)
  BY <1>1, <1>8, PlacedEffect DEF Going
<1>9. CASE Completes
  BY <1>1, <1>9, CompleteEffect
<1>10. CASE Fails \/ Raises
  BY <1>1, <1>10, FailEffect
<1> QED
  BY <1>1, <1>2, <1>3, <1>4, <1>5, <1>6, <1>7, <1>8, <1>9, <1>10, RunCases

LEMMA RowsStay ==
    ASSUME IInv, RunStep
    PROVE  /\ \A j \in Ids \ {run.task} : tasks'[j] = tasks[j]
           /\ \A j \in Ids : /\ tasks'[j].video = tasks[j].video
                             /\ tasks'[j].parent = tasks[j].parent
                             /\ Exists(tasks, j) <=> Exists(tasks, j)'
           /\ Existing' = Existing
<1>1. TypeOK /\ Idle /\ Owned
  BY DEF IInv
<1>2. \/ tasks' = tasks
      \/ /\ Exists(tasks, run.task)
         /\ \E st \in ActiveTaskStatuses \cup {"failed", "completed"} : \E s, pl : Recording(st, s, pl)
  BY <1>1, RunRows, CompleteEffect
<1>3. "absent" \notin ActiveTaskStatuses \cup {"failed", "completed"}
  BY Statuses
<1>4. \A j \in Ids : /\ j # run.task => tasks'[j] = tasks[j]
                     /\ tasks'[j].video = tasks[j].video /\ tasks'[j].parent = tasks[j].parent
                     /\ Exists(tasks, j) <=> Exists(tasks, j)'
  BY <1>2, <1>3 DEF Recording, Exists
<1> QED
  BY <1>4 DEF Existing

LEMMA LinkedStays ==
    ASSUME TypeOK, Linked, chain' = chain, Existing' = Existing,
           \A j \in Ids : tasks'[j].parent = tasks[j].parent
    PROVE  Linked'
<1>1. Existing \subseteq Ids /\ chain \in [Ids -> SUBSET Ids]
  BY DEF Existing, TypeOK
<1> QED
  BY <1>1 DEF Linked

LEMMA LinkedRun ==
    ASSUME IInv, RunStep
    PROVE  Linked'
BY RunRows, RowsStay, LinkedStays DEF IInv

\* Where the run does not end, its task is the same.
LEMMA RunGoesOn ==
    ASSUME IInv, RunStep
    PROVE  (Going /\ run'.pc # "idle") \/ run' = NoRun
<1>1. TypeOK /\ Idle /\ Counted /\ InHand /\ Owned
  BY DEF IInv
<1> QED
  BY <1>1, RunCases, SearchEffect, AnswerEffect, TryEffect, TurnedDownEffect,
     AcceptEffect, SyncedEffect, PlacedEffect, CompleteEffect, FailEffect

\* A row that is written has no more attempts than its run has used.
LEMMA RowCounted ==
    ASSUME IInv, RunStep, NEW st \in ActiveTaskStatuses \cup {"failed", "completed"}, NEW s, NEW pl,
           Recording(st, s, pl), Len(s) <= MaxAttempts
    PROVE  /\ AttemptsWithinBudget'
           /\ \A t \in Ids : tasks'[t].status \in {"absent", "queued"} => tasks'[t].attempts = <<>>
<1>1. AttemptsWithinBudget
      /\ \A t \in Ids : tasks[t].status \in {"absent", "queued"} => tasks[t].attempts = <<>>
  BY DEF IInv, Counted
<1>2. st \notin {"absent", "queued"}
  BY Statuses
<1> QED
  BY <1>1, <1>2 DEF Recording, AttemptsWithinBudget

LEMMA CountedRun ==
    ASSUME IInv, RunStep
    PROVE  Counted'
<1>1. TypeOK /\ Idle /\ Counted /\ InHand /\ Owned /\ run.task \in Ids /\ run.task # NoId
  BY RunStepType DEF IInv
<1>2. /\ run.used \in Nat /\ MaxAttempts \in Nat /\ run.used <= MaxAttempts
      /\ Len(run.attempts) \in Nat /\ Len(run.attempts) <= run.used
  BY <1>1, LoopAssumption, TypeParts, LenProperties DEF RunSet, Counts, Tries, Counted
<1>3. /\ Len(run.attempts) <= MaxAttempts
      /\ Len(tasks[run.task].attempts) <= MaxAttempts
  BY <1>1, <1>2 DEF Counted, AttemptsWithinBudget
<1>4. /\ AttemptsWithinBudget /\ "queued" \notin ActiveTaskStatuses
      /\ \A t \in Ids : tasks[t].status \in {"absent", "queued"} => tasks[t].attempts = <<>>
  BY <1>1, Statuses DEF Counted
<1>5. ASSUME tasks' = tasks
      PROVE  /\ AttemptsWithinBudget'
             /\ \A t \in Ids : tasks'[t].status \in {"absent", "queued"} => tasks'[t].attempts = <<>>
  BY <1>4, <1>5 DEF AttemptsWithinBudget
<1>6. ASSUME run' = NoRun
      PROVE  /\ Len(run'.attempts) <= run'.used
             /\ run'.task # NoId /\ run'.stage = "queued"
                   => run'.left = Providers /\ run'.pc = "next"
  BY <1>6, NoRunType, NoAttempts DEF NoRun
<1>7. CASE SearchStarts \/ SearchGoesOn
  BY <1>1, <1>2, <1>3, <1>4, <1>5, <1>7, SearchEffect, RowCounted DEF Counted
<1>8. CASE \E p \in Providers : SearchReturns(p)
  BY <1>1, <1>2, <1>4, <1>5, <1>8, AnswerEffect DEF Counted
<1>9. ASSUME NEW o \in run.batch, TryCandidate(o)
      PROVE  Counted'
  <2>1. Len(run'.attempts) = Len(run.attempts) + 1
    <3>1. Attempt(OfferKey(o), NoText) \in AttemptType /\ run.attempts \in Seq(AttemptType)
      BY <1>1, TypeParts, OfferTypes DEF Attempt, AttemptType, InHand, RunSet, Tries
    <3> QED
      BY <1>1, <1>9, <3>1, AttemptAdded, TryEffect
  <2>2. Len(run'.attempts) <= run'.used /\ Len(run'.attempts) <= MaxAttempts
    BY <1>1, <1>2, <1>9, <2>1, TryEffect
  <2>3. /\ AttemptsWithinBudget'
        /\ \A t \in Ids : tasks'[t].status \in {"absent", "queued"} => tasks'[t].attempts = <<>>
    BY <1>1, <1>9, <2>2, TryEffect, RowCounted, Statuses
  <2> QED
    BY <1>1, <1>4, <1>9, <2>2, <2>3, TryEffect DEF Counted
<1>10. CASE TurnedDown
  <2>1. run'.attempts = run.attempts \/ Len(run'.attempts) = Len(run.attempts)
    BY <1>1, <1>10, TurnedDownEffect
  <2> QED
    BY <1>1, <1>2, <1>4, <1>5, <1>10, <2>1, TurnedDownEffect DEF Counted, SameHand
<1>11. CASE ContentAccepted
  <2>1. /\ AttemptsWithinBudget'
        /\ \A t \in Ids : tasks'[t].status \in {"absent", "queued"} => tasks'[t].attempts = <<>>
    BY <1>1, <1>3, <1>5, <1>11, AcceptEffect, RowCounted, Statuses
  <2> QED
    BY <1>1, <1>2, <1>4, <1>11, <2>1, AcceptEffect DEF Counted, SameHand
<1>12. CASE Synced
  <2>1. run.stage \in ActiveTaskStatuses
    BY <1>1, <1>12, StageSet, SyncedEffect
  <2> QED
    BY <1>1, <1>2, <1>4, <1>5, <1>12, <2>1, SyncedEffect DEF Counted, SameHand
<1>13. CASE \E slot \in Slots : PlaceSucceeds(slot)
  BY <1>1, <1>2, <1>4, <1>5, <1>13, PlacedEffect DEF Counted, SameHand
<1>14. CASE Completes
  BY <1>1, <1>3, <1>6, <1>14, CompleteEffect, RowCounted DEF Counted
<1>15. CASE Fails \/ Raises
  BY <1>1, <1>3, <1>5, <1>6, <1>15, FailEffect, RowCounted DEF Counted
<1> QED
  BY <1>7, <1>8, <1>9, <1>10, <1>11, <1>12, <1>13, <1>14, <1>15, <1>1, RunCases

LEMMA InHandRun ==
    ASSUME IInv, RunStep
    PROVE  InHand'
<1>1. TypeOK /\ Idle /\ Counted /\ InHand /\ Owned /\ run.task \in Ids
  BY RunStepType DEF IInv
<1>2. "next" \notin Trying /\ "search" \notin Trying /\ "idle" \notin Trying
  BY DEF Trying
<1>3. ASSUME run' = NoRun PROVE InHand'
  BY <1>2, <1>3, NoRunType DEF NoRun, InHand
<1>4. CASE SearchStarts \/ SearchGoesOn
  BY <1>1, <1>2, <1>4, SearchEffect DEF InHand
<1>5. CASE \E p \in Providers : SearchReturns(p)
  BY <1>1, <1>2, <1>5, AnswerEffect DEF InHand
<1>6. ASSUME NEW o \in run.batch, TryCandidate(o)
      PROVE  InHand'
  <2>1. run'.attempts # <<>>
    <3>1. Attempt(OfferKey(o), NoText) \in AttemptType /\ run.attempts \in Seq(AttemptType)
      BY <1>1, TypeParts, OfferTypes DEF Attempt, AttemptType, InHand, RunSet, Tries
    <3> QED
      BY <1>1, <1>6, <3>1, AttemptAdded, TryEffect
  <2> QED
    BY <1>1, <1>6, <2>1, TryEffect DEF InHand
<1>7. CASE TurnedDown
  BY <1>1, <1>2, <1>7, TurnedDownEffect DEF InHand, SameHand
<1>8. CASE ContentAccepted
  <2>1. run.pc \in Trying
    BY <1>8 DEF ContentAccepted, Trying
  <2> QED
    BY <1>1, <1>8, <2>1, AcceptEffect DEF InHand, SameHand
<1>9. CASE Synced
  BY <1>1, <1>9, SyncedEffect DEF InHand, SameHand, Trying
<1>10. CASE \E slot \in Slots : PlaceSucceeds(slot)
  BY <1>1, <1>10, PlacedEffect DEF InHand, SameHand, Trying
<1>11. CASE Completes \/ Fails \/ Raises
  BY <1>1, <1>3, <1>11, CompleteEffect, FailEffect
<1> QED
  BY <1>1, <1>4, <1>5, <1>6, <1>7, <1>8, <1>9, <1>10, <1>11, RunCases

\* A run that goes on does not lose its task, and does not complete it.
LEMMA OwnedRun ==
    ASSUME IInv, RunStep
    PROVE  Owned'
<1>1. TypeOK /\ Idle /\ Counted /\ InHand /\ Owned /\ run.task \in Ids /\ run.task # NoId
  BY RunStepType DEF IInv
<1>2. ASSUME run' = NoRun PROVE Owned'
  BY <1>2, NoRunType DEF Owned
<1>3. ASSUME ~Completes PROVE tasks'[run.task].status # "completed"
  BY <1>1, <1>3, RunRows, Statuses DEF Owned, Recording
<1>4. Completes => run' = NoRun
  BY DEF Completes
<1>5. ASSUME Going, run' # NoRun,
             run'.lost => run'.pc \in {"next", "search", "download", "sync"},
             ~run'.lost => ~run.lost \/ Exists(tasks, run.task), budget.deletes = 0 => ~run'.lost
      PROVE  Owned'
  <2>1. run'.task = run.task /\ budget' = budget /\ run'.row = run.row
    BY <1>5 DEF Going
  <2>2. tasks'[run.task].status # "completed"
    BY <1>3, <1>4, <1>5
  <2>3. ~run'.lost => Exists(tasks, run.task)'
    <3>1. ~run'.lost => Exists(tasks, run.task)
      BY <1>1, <1>5 DEF Owned
    <3>2. Exists(tasks, run.task) => tasks'[run.task].status # "absent"
      BY <1>1, RowsStay DEF Exists
    <3> QED
      BY <2>1, <3>1, <3>2 DEF Exists
  <2>4. budget.deletes = 0 => ~run'.lost /\ tasks'[run.task].video = run.row.video
    BY <1>1, <1>5, RowsStay DEF Owned
  <2> QED
    BY <1>5, <2>1, <2>2, <2>3, <2>4 DEF Owned
<1>6. budget.deletes = 0 => ~run.lost
  BY <1>1 DEF Owned
<1>7. CASE SearchStarts \/ SearchGoesOn
  BY <1>1, <1>2, <1>5, <1>6, <1>7, SearchEffect
<1>8. CASE \E p \in Providers : SearchReturns(p)
  BY <1>1, <1>2, <1>5, <1>6, <1>8, AnswerEffect
<1>9. CASE \E o \in run.batch : TryCandidate(o)
  BY <1>1, <1>2, <1>5, <1>6, <1>9, TryEffect
<1>10. CASE TurnedDown
  BY <1>1, <1>2, <1>5, <1>6, <1>10, TurnedDownEffect DEF SameHand
<1>11. CASE ContentAccepted
  BY <1>1, <1>2, <1>5, <1>6, <1>11, AcceptEffect DEF SameHand
<1>12. CASE Synced
  BY <1>1, <1>2, <1>5, <1>6, <1>12, SyncedEffect DEF SameHand
<1>13. CASE \E slot \in Slots : PlaceSucceeds(slot)
  <2>1. ~run.lost
    BY <1>1, <1>13, PlacedEffect DEF Owned
  <2> QED
    BY <1>1, <1>2, <1>5, <1>6, <1>13, <2>1, PlacedEffect DEF SameHand
<1>14. CASE Completes \/ Fails \/ Raises
  BY <1>1, <1>2, <1>14, CompleteEffect, FailEffect
<1> QED
  BY <1>1, <1>7, <1>8, <1>9, <1>10, <1>11, <1>12, <1>13, <1>14, RunCases

\* What is completed stays as it is, and a run completes no other task than its own.
LEMMA CompletedStays ==
    ASSUME IInv, RunStep
    PROVE  /\ \A t \in Completed : t \in Completed' /\ tasks'[t] = tasks[t] /\ t # run.task
           /\ ~Completes => Completed' = Completed
           /\ Completes => Completed' = Completed \cup {run.task}
<1>1. TypeOK /\ Idle /\ Owned /\ run.task \in Ids /\ run.task # NoId
  BY RunStepType DEF IInv
<1>2. run.task \notin Completed
  BY <1>1 DEF Owned, Completed
<1>3. \A j \in Ids \ {run.task} : tasks'[j] = tasks[j]
  BY RowsStay
<1>4. Completed \subseteq Ids /\ \A t \in Ids : t \in Completed' <=> tasks'[t].status = "completed"
  BY DEF Completed
<1>5. \A t \in Ids \ {run.task} : t \in Completed <=> t \in Completed'
  BY <1>3 DEF Completed
<1>6. ASSUME ~Completes PROVE run.task \notin Completed'
  BY <1>1, <1>4, <1>6, RunRows, Statuses DEF Owned, Recording
<1>7. Completes => run.task \in Completed'
  BY <1>1, <1>4, CompleteEffect DEF Recording
<1>8. Completed' \subseteq Ids
  BY DEF Completed
<1> QED
  BY <1>1, <1>2, <1>3, <1>4, <1>5, <1>6, <1>7, <1>8

LEMMA SameTexts ==
    ASSUME IInv, RunStep, ~Completes, NEW v
    PROVE  EpisodeTexts(v)' = EpisodeTexts(v)
<1>1. Completed' = Completed /\ \A t \in Completed : tasks'[t] = tasks[t]
  BY CompletedStays
<1>2. /\ EpisodeTexts(v) = {PlacedText(tasks[t]) : t \in {u \in Completed : tasks[u].video # v}}
      /\ EpisodeTexts(v)' = {PlacedText(tasks'[t]) : t \in {u \in Completed' : tasks'[u].video # v}}
  BY DEF EpisodeTexts, Completed, PlacedText
<1> QED
  BY <1>1, <1>2

LEMMA AcceptedRun ==
    ASSUME IInv, RunStep
    PROVE  Accepted'
<1>1. TypeOK /\ Idle /\ Counted /\ InHand /\ Owned /\ Accepted
  BY DEF IInv
<1>2. ASSUME run'.pc \notin {"sync", "place", "placed"} PROVE Accepted'
  BY <1>2 DEF Accepted
<1>3. NoRun.pc \notin {"sync", "place", "placed"}
  BY NoRunType
<1>4. ASSUME Going, SameHand, run'.offer = run.offer, ~Completes,
             OfferText # NoText, OfferText \notin run.known, OfferText \notin EpisodeTexts(Video),
             ~run.lost => Last(run'.attempts).text = OfferText
      PROVE  Accepted'
  <2>1. OfferText' = OfferText /\ Video' = Video
    BY <1>4 DEF Going, OfferText, Video
  <2>2. EpisodeTexts(Video)' = EpisodeTexts(Video)
    <3>1. EpisodeTexts(Video)' = {PlacedText(tasks'[t]) :
             t \in {u \in Ids : tasks'[u].status = "completed" /\ tasks'[u].video # Video}}
      BY <2>1 DEF EpisodeTexts, PlacedText
    <3>2. EpisodeTexts(run.row.video)' = EpisodeTexts(run.row.video) /\ run'.row = run.row
      BY <1>4, SameTexts DEF Going
    <3> QED
      BY <2>1, <1>4, CompletedStays DEF EpisodeTexts, Completed, PlacedText
  <2> QED
    BY <1>4, <2>1, <2>2 DEF Accepted, SameHand
<1>5. CASE \/ SearchStarts \/ SearchGoesOn \/ \E p \in Providers : SearchReturns(p)
           \/ \E o \in run.batch : TryCandidate(o)
           \/ TurnedDown \/ Completes \/ Fails \/ Raises
  BY <1>1, <1>2, <1>3, <1>5, SearchEffect, AnswerEffect, TryEffect, TurnedDownEffect,
     CompleteEffect, FailEffect
<1>6. Completes => run.pc = "placed"
  BY DEF Completes
<1>7. CASE ContentAccepted
  BY <1>1, <1>4, <1>6, <1>7, AcceptEffect DEF ContentAccepted
<1>8. CASE Synced
  BY <1>1, <1>4, <1>6, <1>8, SyncedEffect DEF Accepted
<1>9. CASE \E slot \in Slots : PlaceSucceeds(slot)
  BY <1>1, <1>4, <1>6, <1>9, PlacedEffect DEF Accepted
<1> QED
  BY <1>1, <1>5, <1>7, <1>8, <1>9, RunCases

\* What a run writes is not where the subtitle of a completed task is.
LEMMA FilesStay ==
    ASSUME IInv, RunStep, ~Overwrite, NEW t \in Completed
    PROVE  files'[tasks[t].place.video][tasks[t].place.slot]
              = files[tasks[t].place.video][tasks[t].place.slot]
<1>1. TypeOK /\ Idle /\ Counted /\ InHand /\ Owned /\ Kept /\ SubtitleIsKept
  BY DEF IInv
<1> DEFINE v == tasks[t].place.video
           s == tasks[t].place.slot
<1>2. v \in Videos /\ s \in Slots /\ files[v][s].text = PlacedText(tasks[t])
      /\ PlacedText(tasks[t]) # NoText
  BY <1>1 DEF Kept, SubtitleIsKept
<1>3. files[v][s] # NoFile
  BY <1>2 DEF NoFile, File
<1>4. \/ files' = files
      \/ \E slot \in Slots : Writes(Video, slot)
  BY <1>1, RunCases, SearchEffect, AnswerEffect, TryEffect, TurnedDownEffect,
     AcceptEffect, SyncedEffect, PlacedEffect, CompleteEffect, FailEffect
<1> HIDE DEF v, s
<1>5. files'[v][s] = files[v][s]
  BY <1>2, <1>3, <1>4 DEF Writes, Occupied
<1> QED
  BY <1>5 DEF v, s

LEMMA KeptRun ==
    ASSUME IInv, RunStep
    PROVE  Kept' /\ SubtitleIsKept'
<1>1. TypeOK /\ Idle /\ InHand /\ Owned /\ Accepted /\ Kept /\ SubtitleIsKept /\ JustPlaced
  BY DEF IInv
<1>2. CASE ~Completes
  <2>1. Completed' = Completed /\ \A t \in Completed : tasks'[t] = tasks[t]
    BY <1>2, CompletedStays
  <2>2. Kept'
    BY <1>1, <2>1 DEF Kept, PlacedText
  <2>3. SubtitleIsKept'
    BY <1>1, <2>1, FilesStay DEF SubtitleIsKept, PlacedText
  <2> QED
    BY <2>2, <2>3
<1>3. CASE Completes
  <2>1. Completed' = Completed \cup {run.task} /\ \A t \in Completed : tasks'[t] = tasks[t]
    BY <1>3, CompletedStays
  <2>2. /\ run.pc = "placed" /\ ~run.lost
        /\ tasks'[run.task].attempts = run.attempts /\ tasks'[run.task].place = run.place
        /\ files' = files
    BY <1>1, <1>3, CompleteEffect DEF Recording
  <2>3. /\ run.attempts # <<>> /\ Last(run.attempts).text = OfferText /\ OfferText # NoText
        /\ run.place \in [video : Videos, slot : Slots]
        /\ files[run.place.video][run.place.slot].text = OfferText
        /\ ~Overwrite => \A t \in Completed : tasks[t].place # run.place
    BY <1>1, <2>2 DEF InHand, Accepted, JustPlaced, Trying
  <2>4. Kept'
    BY <1>1, <2>1, <2>2, <2>3 DEF Kept, PlacedText
  <2>5. SubtitleIsKept'
    BY <1>1, <2>1, <2>2, <2>3 DEF SubtitleIsKept, PlacedText
  <2> QED
    BY <2>4, <2>5
<1> QED
  BY <1>2, <1>3

LEMMA JustPlacedRun ==
    ASSUME IInv, RunStep
    PROVE  JustPlaced'
<1>1. TypeOK /\ Idle /\ Counted /\ InHand /\ Owned /\ Kept /\ SubtitleIsKept
  BY DEF IInv
<1>2. ASSUME run'.pc # "placed" PROVE JustPlaced'
  BY <1>2 DEF JustPlaced
<1>3. CASE \/ SearchStarts \/ SearchGoesOn \/ \E p \in Providers : SearchReturns(p)
           \/ \E o \in run.batch : TryCandidate(o)
           \/ TurnedDown \/ ContentAccepted \/ Synced \/ Completes \/ Fails \/ Raises
  BY <1>1, <1>2, <1>3, NoRunType, SearchEffect, AnswerEffect, TryEffect, TurnedDownEffect,
     AcceptEffect, SyncedEffect, CompleteEffect, FailEffect
<1>4. ASSUME NEW slot \in Slots, PlaceSucceeds(slot)
      PROVE  JustPlaced'
  <2>1. /\ Going /\ run'.offer = run.offer /\ run'.place = Place(Video, slot)
        /\ Writes(Video, slot) /\ tasks' = tasks
    BY <1>1, <1>4, PlacedEffect
  <2>2. OfferText' = OfferText
    BY <2>1 DEF Going, OfferText, Video
  <2>3. /\ run'.place \in [video : Videos, slot : Slots]
        /\ run'.place.video = Video /\ run'.place.slot = slot
    BY <1>1, <2>1, VideoType, PlaceIsPlace
  <2>4. ASSUME ~Overwrite, NEW t \in Completed PROVE tasks[t].place # run'.place
    <3>1. files[tasks[t].place.video][tasks[t].place.slot] # NoFile
      BY <1>1, <2>4 DEF Kept, SubtitleIsKept, NoFile, File
    <3>2. files[Video][slot] = NoFile
      BY <2>1, <2>4 DEF Writes, Occupied
    <3> QED
      BY <2>3, <3>1, <3>2
  <2> QED
    BY <2>1, <2>2, <2>3, <2>4 DEF JustPlaced, Completed, Writes
<1> QED
  BY <1>1, <1>3, <1>4, RunCases

LEMMA SeenRun ==
    ASSUME IInv, RunStep
    PROVE  Seen'
<1>1. TypeOK /\ Idle /\ Counted /\ InHand /\ Owned /\ Seen /\ run.task # NoId
  BY RunStepType DEF IInv
<1>2. ASSUME run' = NoRun \/ run'.pc = "placed" PROVE Seen'
  BY <1>2, NoRunType DEF Seen
<1>3. ASSUME Going, files' = files, run.pc # "placed" PROVE Seen'
  BY <1>1, <1>3 DEF Seen, Going, Video, Supplemental
<1>4. Completes \/ run.pc # "placed"
  BY NoRunType DEF RunStep, SearchStarts, SearchGoesOn, SearchReturns, TryCandidate, DownloadFails,
     ContentRejected, ContentAccepted, SyncSucceeds, SyncFails, PlaceSkips, PlaceFails,
     PlaceSucceeds, Completes, Fails, Raises, Orphaned, IInv, Owned
<1> QED
  BY <1>1, <1>2, <1>3, <1>4, RunCases, SearchEffect, AnswerEffect, TryEffect, TurnedDownEffect,
     AcceptEffect, SyncedEffect, PlacedEffect, CompleteEffect, FailEffect

LEMMA RecordedRun ==
    ASSUME IInv, RunStep
    PROVE  Recorded'
<1>1. TypeOK /\ Idle /\ Counted /\ InHand /\ Owned /\ Recorded /\ run.task \in Ids /\ run.task # NoId
  BY RunStepType DEF IInv
<1>2. /\ fetched[run.task] \subseteq KeysOf(ToSet(run.attempts))
      /\ fetched[run.task] \subseteq KeysOf(ToSet(tasks[run.task].attempts))
      /\ \A t \in Ids : fetched[t] \subseteq KeysOf(ToSet(tasks[t].attempts))
  BY <1>1 DEF Recorded
<1>3. ASSUME fetched' = fetched, tasks' = tasks
      PROVE  \A t \in Ids : fetched'[t] \subseteq KeysOf(ToSet(tasks'[t].attempts))
  BY <1>2, <1>3
<1>4. ASSUME fetched' = fetched, NEW st, NEW s, NEW pl, Recording(st, s, pl),
             fetched[run.task] \subseteq KeysOf(ToSet(s))
      PROVE  \A t \in Ids : fetched'[t] \subseteq KeysOf(ToSet(tasks'[t].attempts))
  BY <1>2, <1>4 DEF Recording
<1>5. ASSUME \A t \in Ids : fetched'[t] \subseteq KeysOf(ToSet(tasks'[t].attempts)),
             \/ run' = NoRun
             \/ /\ run'.task = run.task /\ fetched' = fetched
                /\ fetched[run.task] \subseteq KeysOf(ToSet(run'.attempts))
      PROVE  Recorded'
  BY <1>5, NoRunType DEF Recorded
<1>6. CASE SearchStarts \/ SearchGoesOn
  BY <1>1, <1>2, <1>3, <1>4, <1>5, <1>6, SearchEffect DEF Going
<1>7. CASE \E p \in Providers : SearchReturns(p)
  BY <1>1, <1>2, <1>3, <1>5, <1>7, AnswerEffect DEF Going
<1>8. ASSUME NEW o \in run.batch, TryCandidate(o)
      PROVE  Recorded'
  <2>1. /\ run'.task = run.task
        /\ run'.attempts = Append(run.attempts, Attempt(OfferKey(o), NoText))
        /\ Recording("downloading", run'.attempts, NoPlace)
        /\ \/ fetched' = fetched
           \/ fetched' = [fetched EXCEPT ![run.task] = @ \cup ({OfferKey(o)} \ {NoKey})]
    BY <1>1, <1>8, TryEffect DEF Going
  <2>2. KeysOf(ToSet(run'.attempts)) = KeysOf(ToSet(run.attempts)) \cup ({OfferKey(o)} \ {NoKey})
    <3>1. /\ Attempt(OfferKey(o), NoText) \in AttemptType /\ run.attempts \in Seq(AttemptType)
          /\ Attempt(OfferKey(o), NoText).key = OfferKey(o)
      BY <1>1, TypeParts, OfferTypes DEF Attempt, AttemptType, InHand, RunSet, Tries
    <3> QED
      BY <2>1, <3>1, AttemptAdded
  <2>3. /\ fetched'[run.task] \subseteq KeysOf(ToSet(run'.attempts))
        /\ \A t \in Ids \ {run.task} : fetched'[t] = fetched[t]
    <3>1. fetched \in [Ids -> SUBSET Keys]
      BY <1>1 DEF TypeOK
    <3> QED
      BY <1>1, <1>2, <2>1, <2>2, <3>1
  <2>4. /\ tasks'[run.task].attempts = run'.attempts
        /\ \A t \in Ids \ {run.task} : tasks'[t] = tasks[t]
    BY <2>1 DEF Recording
  <2>5. \A t \in Ids : fetched'[t] \subseteq KeysOf(ToSet(tasks'[t].attempts))
    BY <1>2, <2>3, <2>4
  <2> QED
    BY <2>1, <2>3, <2>5 DEF Recorded
<1>9. CASE TurnedDown
  <2>1. KeysOf(ToSet(run'.attempts)) = KeysOf(ToSet(run.attempts)) /\ tasks' = tasks
        /\ fetched' = fetched /\ Going
    BY <1>1, <1>9, TurnedDownEffect
  <2> QED
    BY <1>2, <1>3, <1>5, <2>1 DEF Going
<1>10. CASE ContentAccepted
  <2>1. KeysOf(ToSet(run'.attempts)) = KeysOf(ToSet(run.attempts)) /\ fetched' = fetched /\ Going
        /\ (tasks' = tasks \/ Recording("syncing", run'.attempts, NoPlace))
    BY <1>1, <1>10, AcceptEffect
  <2> QED
    BY <1>2, <1>3, <1>4, <1>5, <2>1 DEF Going
<1>11. CASE Synced
  BY <1>1, <1>2, <1>3, <1>5, <1>11, SyncedEffect DEF Going
<1>12. CASE \E slot \in Slots : PlaceSucceeds(slot)
  BY <1>1, <1>2, <1>3, <1>5, <1>12, PlacedEffect DEF Going
<1>13. CASE Completes
  BY <1>1, <1>2, <1>4, <1>5, <1>13, CompleteEffect
<1>14. CASE Fails \/ Raises
  BY <1>1, <1>2, <1>3, <1>4, <1>5, <1>14, FailEffect
<1> QED
  BY <1>1, <1>6, <1>7, <1>8, <1>9, <1>10, <1>11, <1>12, <1>13, <1>14, RunCases

-----------------------------------------------------------------------------
(* What a walk up the retries comes to.                                    *)

LEMMA IdsFinite == IsFiniteSet(Ids)
BY FS_Interval, IdsAssumption DEF Ids

LEMMA IdsNat == Ids \subseteq Nat
BY IdsAssumption DEF Ids

\* A set of tasks has a greatest one.
LEMMA GreatestTask ==
    ASSUME NEW S \in SUBSET Ids, S # {}
    PROVE  \E d \in S : \A e \in S : e <= d
<1> DEFINE down == {MaxTaskId - d : d \in S}
           R == {ss \in Nat \X Nat : ss[1] < ss[2]}
<1>1. MaxTaskId \in Nat /\ \A d \in S : d \in Nat /\ d <= MaxTaskId
  BY IdsAssumption DEF Ids
<1>2. down \subseteq Nat /\ down # {}
  BY <1>1
<1>3. IsWellFoundedOn(R, Nat)
  BY NatLessThanWellFounded DEF OpToRel
<1>4. \E x \in down : \A y \in down : ~(<<y, x>> \in R)
  <2> HIDE DEF R, down
  <2> QED
    BY <1>2, <1>3, WFMin
<1>5. PICK d \in S : \A e \in S : ~(<<MaxTaskId - e, MaxTaskId - d>> \in R)
  BY <1>4
<1>6. ASSUME NEW e \in S PROVE e <= d
  <2>1. /\ MaxTaskId - e \in Nat /\ MaxTaskId - d \in Nat
        /\ ~(<<MaxTaskId - e, MaxTaskId - d>> \in R)
    BY <1>1, <1>5
  <2>2. ~(MaxTaskId - e < MaxTaskId - d)
    BY <2>1
  <2> QED
    BY <1>1, <2>2
<1> QED
  BY <1>6

\* Behind(parent) is closed, and the least closed set.
LEMMA BehindClosed ==
    ASSUME TypeOK, NEW parent
    PROVE  /\ Behind(parent) \subseteq Existing /\ Existing \subseteq Ids
           /\ UpFrom(parent, Behind(parent))
           /\ \A S \in SUBSET Existing : UpFrom(parent, S) => Behind(parent) \subseteq S
BY DEF Behind, UpFrom, Existing

\* A chain that leads down from the parent is among what is behind it.
LEMMA ChainBehind ==
    ASSUME TypeOK, Linked, NEW t \in Ids
    PROVE  chain[t] \subseteq Behind(tasks[t].parent)
<1> DEFINE p == tasks[t].parent
           S == Behind(p)
           out == chain[t] \ S
<1>1. chain[t] \subseteq Existing /\ Existing \subseteq Ids
  BY DEF Linked, TypeOK, Existing
<1>2. ({p} \cup {tasks[s].parent : s \in S}) \cap Existing \subseteq S
  BY BehindClosed DEF UpFrom
<1> SUFFICES ASSUME out # {} PROVE FALSE
  OBVIOUS
<1>3. PICK d \in out : \A e \in out : e <= d
  BY <1>1, GreatestTask
<1>4. d = p \/ \E s \in chain[t] : d < s /\ tasks[s].parent = d
  BY DEF Linked
<1>5. d # p
  BY <1>1, <1>2
<1>6. PICK s \in chain[t] : d < s /\ tasks[s].parent = d
  BY <1>4, <1>5
<1>7. s \in S
  <2>1. s \notin out
    <3>1. s \in Nat /\ d \in Nat /\ d < s
      <4>1. s \in Ids /\ d \in Ids
        BY <1>1, <1>6
      <4> QED
        BY <1>6, <4>1, IdsNat
    <3>2. s \in out => s <= d
      BY <1>3
    <3> QED
      BY <3>1, <3>2
  <2> QED
    BY <1>6, <2>1
<1>8. d \in S
  BY <1>1, <1>2, <1>6, <1>7
<1> QED
  BY <1>8

\* Down to any of its tasks the walk meets only the chain's.
LEMMA BehindChain ==
    ASSUME TypeOK, Linked, NEW t \in Ids, NEW d \in chain[t]
    PROVE  {u \in Behind(tasks[t].parent) : u > d} \subseteq chain[t] \ {d}
<1> DEFINE p == tasks[t].parent
           S == {x \in Existing : x \in chain[t] \/ x < d}
<1>1. chain[t] \subseteq Existing /\ Existing \subseteq Ids /\ d \in Ids /\ p \in chain[t]
  BY DEF Linked, TypeOK, Existing
<1>2. UpFrom(p, S)
  <2>1. p \in S
    BY <1>1
  <2>2. ASSUME NEW x \in S, tasks[x].parent \in Existing
        PROVE  tasks[x].parent \in S
    <3>1. tasks[x].parent < x /\ x \in Ids /\ tasks[x].parent \in Ids
      BY <1>1, <2>2 DEF Linked
    <3>2. CASE x < d
      BY <1>1, <2>2, <3>1, <3>2 DEF Ids
    <3>3. CASE x \in chain[t]
      <4>1. tasks[x].parent \in chain[t] \/ x <= d
        BY <3>3 DEF Linked
      <4> QED
        BY <1>1, <2>2, <3>1, <4>1 DEF Ids
    <3> QED
      BY <3>2, <3>3
  <2> QED
    BY <2>1, <2>2 DEF UpFrom
<1>3. Behind(p) \subseteq S
  BY <1>2, BehindClosed
<1> SUFFICES ASSUME NEW u \in Behind(p), u > d PROVE u \in chain[t] \ {d}
  OBVIOUS
<1>4. u \in Nat /\ d \in Nat /\ (u \in chain[t] \/ u < d)
  <2>1. u \in S /\ u \in Ids /\ d \in Ids
    BY <1>1, <1>3
  <2> QED
    BY <2>1, IdsNat
<1> QED
  BY <1>4

\* The chain of a task that is traced is among what its run looks at.
LEMMA ChainSeen ==
    ASSUME TypeOK, Linked, NEW t \in Traced
    PROVE  chain[t] \subseteq Ancestors(tasks[t].parent)
<1>1. t \in Ids /\ Cardinality(chain[t]) <= ChainLimit /\ ChainLimit \in Nat
  BY LoopAssumption DEF Traced
<1>2. IsFiniteSet(chain[t])
  BY <1>1, IdsFinite, FS_Subset DEF TypeOK
<1> SUFFICES ASSUME NEW d \in chain[t] PROVE d \in Ancestors(tasks[t].parent)
  OBVIOUS
<1> DEFINE U == {u \in Behind(tasks[t].parent) : u > d}
<1>3. U \subseteq chain[t] \ {d}
  BY <1>1, BehindChain
<1>4. /\ Cardinality(chain[t] \ {d}) = Cardinality(chain[t]) - 1
      /\ IsFiniteSet(chain[t] \ {d})
  BY <1>2, FS_RemoveElement
<1>5. Cardinality(U) <= Cardinality(chain[t] \ {d}) /\ Cardinality(U) \in Nat
  BY <1>3, <1>4, FS_Subset, FS_CardinalityType
<1>6. Cardinality(chain[t]) \in Nat
  BY <1>2, FS_CardinalityType
<1>7. Cardinality(U) < ChainLimit
  BY <1>1, <1>4, <1>5, <1>6
<1> QED
  BY <1>1, <1>7, ChainBehind DEF Ancestors

\* A batch leaves out what the tasks of the chain have tried, and knows their texts.
LEMMA StartExcludes ==
    ASSUME TypeOK, Linked, NEW t \in Traced, NEW a \in chain[t],
           NEW row, row.parent = tasks[t].parent, NEW offers
    PROVE  /\ TextsOf(ToSet(tasks[a].attempts)) \subseteq StartBatch(offers, row).known
           /\ \A o \in StartBatch(offers, row).batch :
                 OfferKey(o) \notin KeysOf(ToSet(tasks[a].attempts))
<1>1. a \in Ancestors(row.parent)
  BY ChainSeen DEF Traced
<1>2. /\ KeysOf(ToSet(tasks[a].attempts)) \subseteq KeysOf(Attempted(Ancestors(row.parent)))
      /\ TextsOf(ToSet(tasks[a].attempts)) \subseteq TextsOf(Attempted(Ancestors(row.parent)))
  BY <1>1, AttemptedOf
<1> QED
  BY <1>2 DEF StartBatch, Admissible

LEMMA ExcludedRun ==
    ASSUME IInv, RunStep
    PROVE  Excluded'
<1>1. TypeOK /\ Idle /\ Counted /\ InHand /\ Owned /\ Linked /\ Excluded
      /\ run.task \in Ids /\ run.task # NoId
  BY RunStepType DEF IInv
<1>2. ASSUME run' = NoRun PROVE Excluded'
  BY <1>2, NoRunType DEF Excluded
<1>3. /\ chain' = chain /\ Traced' = Traced
      /\ tasks'[run.task].parent = tasks[run.task].parent
      /\ \A a \in chain[run.task] : tasks'[a] = tasks[a]
  <2>1. chain' = chain
    BY RunRows
  <2>2. \A a \in chain[run.task] : a \in Ids \ {run.task}
    <3> SUFFICES ASSUME NEW a \in chain[run.task] PROVE a \in Ids /\ a # run.task
      OBVIOUS
    <3>1. a \in Existing /\ a < run.task
      BY <1>1 DEF Linked
    <3>2. a \in Nat /\ run.task \in Nat /\ a \in Ids
      BY <1>1, <3>1, IdsNat DEF Existing
    <3> QED
      BY <3>1, <3>2
  <2> QED
    BY <1>1, <2>1, <2>2, RowsStay DEF Traced
<1>4. ASSUME Going, run'.lost => run.lost,
             run.task \in Traced => \A a \in chain[run.task] :
                /\ TextsOf(ToSet(tasks[a].attempts)) \subseteq run'.known
                /\ \A o \in run'.batch : OfferKey(o) \notin KeysOf(ToSet(tasks[a].attempts))
      PROVE  Excluded'
  <2>1. run'.task = run.task /\ run'.row = run.row
    BY <1>4 DEF Going
  <2>2. \A o : OfferKey(o)' = OfferKey(o)
    BY DEF OfferKey
  <2> QED
    BY <1>1, <1>3, <1>4, <2>1, <2>2 DEF Excluded
<1>5. ASSUME Going, run'.lost => run.lost, run'.known = run.known, run'.batch \subseteq run.batch
      PROVE  Excluded'
  BY <1>1, <1>4, <1>5 DEF Excluded
<1>6. CASE SearchStarts \/ SearchGoesOn
  BY <1>1, <1>5, <1>6, SearchEffect
<1>7. CASE \E p \in Providers : SearchReturns(p)
  <2>1. PICK offers : /\ run'.batch = StartBatch(offers, run.row).batch
                      /\ run'.known = StartBatch(offers, run.row).known
    BY <1>1, <1>7, AnswerEffect
  <2>2. ASSUME run.task \in Traced, NEW a \in chain[run.task]
        PROVE  /\ TextsOf(ToSet(tasks[a].attempts)) \subseteq run'.known
               /\ \A o \in run'.batch : OfferKey(o) \notin KeysOf(ToSet(tasks[a].attempts))
    <3>1. run.row.parent = tasks[run.task].parent
      BY <1>1, <2>2 DEF Excluded
    <3> QED
      BY <1>1, <2>1, <2>2, <3>1, StartExcludes
  <2> QED
    BY <1>1, <1>4, <1>7, <2>2, AnswerEffect
<1>8. CASE \E o \in run.batch : TryCandidate(o)
  BY <1>1, <1>5, <1>8, TryEffect
<1>9. CASE TurnedDown
  BY <1>1, <1>5, <1>9, TurnedDownEffect DEF SameHand
<1>10. CASE ContentAccepted
  BY <1>1, <1>5, <1>10, AcceptEffect DEF SameHand
<1>11. CASE Synced
  BY <1>1, <1>5, <1>11, SyncedEffect DEF SameHand
<1>12. CASE \E slot \in Slots : PlaceSucceeds(slot)
  BY <1>1, <1>5, <1>12, PlacedEffect DEF SameHand
<1>13. CASE Completes \/ Fails \/ Raises
  BY <1>1, <1>2, <1>13, CompleteEffect, FailEffect
<1> QED
  BY <1>1, <1>6, <1>7, <1>8, <1>9, <1>10, <1>11, <1>12, <1>13, RunCases

LEMMA RunKeepsInv ==
    ASSUME IInv, RunStep
    PROVE  IInv'
BY RunStepType, IdleRun, CountedRun, InHandRun, OwnedRun, AcceptedRun, KeptRun, JustPlacedRun,
   SeenRun, RecordedRun, LinkedRun, ExcludedRun DEF IInv

-----------------------------------------------------------------------------
(* A run begins.                                                           *)

LEMMA BeginKeepsInv ==
    ASSUME IInv, NEW t \in Ids, Begin(t)
    PROVE  IInv'
<1>1. TypeOK /\ Idle /\ Counted /\ Owned /\ Kept /\ SubtitleIsKept /\ Recorded /\ Linked
  BY DEF IInv
<1>2. /\ service = "up" /\ tasks[t].status = "queued" /\ run = NoRun
      /\ UNCHANGED <<tasks, files, service, fetched, chain, budget>>
  BY DEF Begin, MayBegin, world, history
<1>3. PICK offers : Begun(t, offers)
  BY <1>1, BeginType
<1>4. TypeOK' /\ run'.batch \subseteq Offered
  BY <1>1, BeginType
<1>5. /\ run'.task = t /\ run'.pc = "next" /\ run'.row = tasks[t] /\ ~run'.lost
      /\ run'.left = Providers /\ run'.used = 0 /\ run'.attempts = tasks[t].attempts
      /\ run'.batch = StartBatch(offers, tasks[t]).batch
      /\ run'.known = StartBatch(offers, tasks[t]).known
      /\ run'.existing = IF Supplemental(tasks[t])
                         THEN {s \in Slots : files[tasks[t].video][s] # NoFile} ELSE {}
  BY <1>3 DEF Begun
<1>6. t # NoId /\ tasks[t].attempts = <<>> /\ Exists(tasks, t)
  BY <1>1, <1>2, Members DEF Counted, Exists
<1>7. Idle'
  BY <1>2, <1>5, <1>6 DEF Idle
<1>8. Counted'
  BY <1>1, <1>2, <1>5, <1>6, NoAttempts DEF Counted, AttemptsWithinBudget
<1>9. InHand'
  BY <1>4, <1>5 DEF InHand, Trying
<1>10. Owned'
  BY <1>2, <1>5, <1>6 DEF Owned, Exists
<1>11. Accepted' /\ JustPlaced'
  BY <1>5 DEF Accepted, JustPlaced
<1>12. Kept' /\ SubtitleIsKept'
  BY <1>1, <1>2 DEF Kept, SubtitleIsKept, Completed, PlacedText
<1>13. Seen'
  BY <1>2, <1>5 DEF Seen, Video, Supplemental
<1>14. Recorded'
  BY <1>1, <1>2, <1>5 DEF Recorded
<1>15. Linked'
  BY <1>1, <1>2 DEF Linked, Existing, Exists
<1>16. Excluded'
  <2>1. ASSUME t \in Traced, NEW a \in chain[t]
        PROVE  /\ TextsOf(ToSet(tasks[a].attempts)) \subseteq run'.known
               /\ \A o \in run'.batch : OfferKey(o) \notin KeysOf(ToSet(tasks[a].attempts))
    BY <1>1, <1>5, <2>1, StartExcludes
  <2>2. Traced' = Traced
    BY <1>2 DEF Traced
  <2>3. \A o : OfferKey(o)' = OfferKey(o)
    BY DEF OfferKey
  <2> QED
    BY <1>2, <1>5, <2>1, <2>2, <2>3 DEF Excluded
<1> QED
  BY <1>4, <1>7, <1>8, <1>9, <1>10, <1>11, <1>12, <1>13, <1>14, <1>15, <1>16 DEF IInv

-----------------------------------------------------------------------------
(* Tasks that come and go.                                                 *)

LEMMA Resting ==
    ASSUME run' = NoRun
    PROVE  /\ Idle' /\ InHand' /\ Owned' /\ Accepted' /\ JustPlaced' /\ Seen' /\ Excluded'
           /\ Len(run'.attempts) <= run'.used /\ run'.task = NoId
<1>1. /\ run'.task = NoId /\ run'.pc = "idle" /\ ~run'.lost /\ run'.batch = {}
      /\ run'.attempts = <<>> /\ run'.used = 0
  BY NoRunType DEF NoRun
<1>2. Len(run'.attempts) <= run'.used
  BY <1>1, NoAttempts
<1> QED
  BY <1>1, <1>2 DEF Idle, InHand, Owned, Accepted, JustPlaced, Seen, Excluded, Trying

\* Nothing is completed, and nothing of what has been tried is changed.
Quiet ==
    /\ \A j \in Ids :
          /\ tasks'[j].attempts = tasks[j].attempts
          /\ tasks'[j].status = "completed" <=> tasks[j].status = "completed"
          /\ tasks[j].status = "completed" =>
                tasks'[j].place = tasks[j].place /\ tasks'[j].video = tasks[j].video
          /\ tasks'[j].status \in {"absent", "queued"} => tasks[j].status \in {"absent", "queued"}
    /\ UNCHANGED <<files, fetched>>

LEMMA QuietTexts ==
    ASSUME Quiet, NEW v
    PROVE  /\ Completed' = Completed
           /\ \A t \in Completed : PlacedText(tasks'[t]) = PlacedText(tasks[t])
           /\ EpisodeTexts(v)' = EpisodeTexts(v)
<1>1. Completed' = Completed /\ Completed \subseteq Ids
  BY DEF Quiet, Completed
<1>2. \A t \in Completed : /\ PlacedText(tasks'[t]) = PlacedText(tasks[t])
                           /\ tasks'[t].video = tasks[t].video
  BY <1>1 DEF Quiet, Completed, PlacedText
<1>3. /\ EpisodeTexts(v) = {PlacedText(tasks[t]) : t \in {u \in Completed : tasks[u].video # v}}
      /\ EpisodeTexts(v)' = {PlacedText(tasks'[t]) : t \in {u \in Completed' : tasks'[u].video # v}}
  BY DEF EpisodeTexts, Completed, PlacedText
<1> QED
  BY <1>1, <1>2, <1>3

LEMMA QuietRows ==
    ASSUME IInv, Quiet
    PROVE  /\ AttemptsWithinBudget' /\ Kept' /\ SubtitleIsKept'
           /\ \A t \in Ids : tasks'[t].status \in {"absent", "queued"} => tasks'[t].attempts = <<>>
           /\ \A t \in Ids : fetched'[t] \subseteq KeysOf(ToSet(tasks'[t].attempts))
<1>1. Counted /\ Kept /\ SubtitleIsKept /\ Recorded
  BY DEF IInv
<1>2. Completed' = Completed /\ \A t \in Completed : PlacedText(tasks'[t]) = PlacedText(tasks[t])
  BY QuietTexts
<1>3. \A t \in Completed : tasks'[t].place = tasks[t].place /\ tasks'[t].attempts = tasks[t].attempts
  BY DEF Completed, Quiet
<1>4. Kept' /\ SubtitleIsKept'
  <2>1. Kept'
    BY <1>1, <1>2, <1>3 DEF Kept
  <2>2. files' = files
    BY DEF Quiet
  <2> QED
    BY <1>1, <1>2, <1>3, <2>1, <2>2 DEF SubtitleIsKept
<1>5. AttemptsWithinBudget'
  BY <1>1 DEF Quiet, Counted, AttemptsWithinBudget
<1> QED
  BY <1>1, <1>4, <1>5 DEF Quiet, Counted, Recorded

\* A run that is under way meanwhile loses nothing by it.
LEMMA QuietRun ==
    ASSUME IInv, Quiet, run' = run
    PROVE  Counted' /\ InHand' /\ Accepted' /\ JustPlaced' /\ Seen' /\ Recorded'
<1>1. Counted /\ InHand /\ Accepted /\ JustPlaced /\ Seen /\ Recorded
  BY DEF IInv
<1>2. files' = files /\ fetched' = fetched
  BY DEF Quiet
<1>3. Counted' /\ Recorded'
  BY <1>1, <1>2, QuietRows DEF Counted, Recorded
<1>4. InHand'
  BY <1>1 DEF InHand
<1>5. Seen'
  BY <1>1, <1>2 DEF Seen, Video, Supplemental
<1>6. OfferText' = OfferText /\ Video' = Video
  BY DEF OfferText, Video
<1>7. Accepted'
  <2>1. EpisodeTexts(run.row.video)' = EpisodeTexts(run.row.video)
    BY QuietTexts
  <2>2. EpisodeTexts(Video)' = EpisodeTexts(Video)
    BY <2>1 DEF Video, EpisodeTexts, PlacedText
  <2> QED
    BY <1>1, <1>6, <2>2 DEF Accepted
<1>8. JustPlaced'
  BY <1>1, <1>2, <1>6, QuietTexts DEF JustPlaced, Quiet, Completed
<1> QED
  BY <1>3, <1>4, <1>5, <1>7, <1>8

LEMMA PreflightKeepsInv ==
    ASSUME IInv, NEW t \in Ids, Preflight(t)
    PROVE  IInv' /\ Quiet
<1>1. TypeOK /\ Idle /\ Owned /\ Linked /\ Excluded
  BY DEF IInv
<1>2. UNCHANGED <<run, files, service, fetched, chain, budget>> /\ tasks[t].status = "queued"
  BY DEF Preflight, world, history
<1>3. TypeOK' /\ \A j \in Ids :
         /\ tasks'[j].attempts = tasks[j].attempts /\ tasks'[j].place = tasks[j].place
         /\ tasks'[j].video = tasks[j].video /\ tasks'[j].parent = tasks[j].parent
         /\ \/ tasks'[j].status = tasks[j].status
            \/ /\ tasks[j].status = "queued"
               /\ tasks'[j].status \in {"queued", "skipped_existing_subtitle"}
  BY <1>1, <1>2, PreflightType
<1>4. Quiet
  BY <1>2, <1>3 DEF Quiet
<1>5. \A j \in Ids : (Exists(tasks, j) <=> Exists(tasks, j)')
  BY <1>3 DEF Exists
<1>6. Existing' = Existing
  BY <1>5 DEF Existing
<1>7. Idle'
  BY <1>1, <1>2 DEF Idle
<1>8. Owned'
  <2>1. run.task # NoId => run.task \in Ids
    BY <1>1 DEF TypeOK, RunType
  <2> QED
    BY <1>1, <1>2, <1>3, <1>5, <2>1 DEF Owned, Exists
<1>9. Linked'
  BY <1>1, <1>2, <1>3, <1>6, LinkedStays
<1>10. Excluded'
  <2>1. run.task # NoId => run.task \in Ids /\ chain[run.task] \subseteq Ids
    BY <1>1 DEF TypeOK, RunType
  <2>2. Traced' = Traced /\ \A o : OfferKey(o)' = OfferKey(o)
    BY <1>2 DEF Traced, OfferKey
  <2> QED
    BY <1>1, <1>2, <1>3, <2>1, <2>2 DEF Excluded
<1> QED
  BY <1>2, <1>3, <1>4, <1>7, <1>8, <1>9, <1>10, QuietRows, QuietRun DEF IInv

LEMMA CrashKeepsInv ==
    ASSUME IInv, Crash
    PROVE  IInv' /\ Quiet
<1>1. TypeOK /\ Linked
  BY DEF IInv
<1>2. run' = NoRun /\ UNCHANGED <<tasks, files, fetched, chain>>
  BY DEF Crash, world, history
<1>3. Quiet
  BY <1>2 DEF Quiet
<1>4. Counted' /\ Recorded'
  BY <1>2, <1>3, QuietRows, Resting DEF Counted, Recorded
<1>5. Linked'
  BY <1>1, <1>2 DEF Linked, Existing, Exists
<1> QED
  BY <1>1, <1>2, <1>3, <1>4, <1>5, CrashType, QuietRows, Resting DEF IInv

LEMMA RestartKeepsInv ==
    ASSUME IInv, Restart
    PROVE  IInv' /\ Quiet
<1>1. TypeOK /\ Idle /\ Linked
  BY DEF IInv
<1>2. run' = NoRun /\ UNCHANGED <<files, fetched, chain>>
  BY <1>1 DEF Restart, world, history, Idle
<1>3. TypeOK' /\ \A j \in Ids :
         /\ tasks'[j].status = IF tasks[j].status \in ActiveTaskStatuses
                               THEN "interrupted" ELSE tasks[j].status
         /\ tasks'[j].attempts = tasks[j].attempts /\ tasks'[j].place = tasks[j].place
         /\ tasks'[j].video = tasks[j].video /\ tasks'[j].parent = tasks[j].parent
  BY <1>1, RestartType
<1>4. Quiet
  BY <1>2, <1>3, Statuses DEF Quiet
<1>5. Counted' /\ Recorded'
  BY <1>2, <1>4, QuietRows, Resting DEF Counted, Recorded
<1>6. Linked'
  <2>1. "absent" \notin ActiveTaskStatuses
    BY Statuses
  <2>2. \A j \in Ids : (Exists(tasks, j) <=> Exists(tasks, j)')
    BY <1>3, <2>1 DEF Exists
  <2>3. Existing' = Existing
    BY <2>2 DEF Existing
  <2> QED
    BY <1>1, <1>2, <1>3, <2>3, LinkedStays
<1> QED
  BY <1>2, <1>3, <1>4, <1>5, <1>6, QuietRows, Resting DEF IInv

LEMMA InsertKeepsInv ==
    ASSUME IInv, NEW t \in Ids, Inserts(t), service' = service,
           budget' \in [{"adds", "crashes", "deletes"} -> Nat], budget'["deletes"] = budget["deletes"]
    PROVE  IInv' /\ Quiet
<1>1. TypeOK /\ Idle /\ Counted /\ Owned /\ Linked /\ Excluded
  BY DEF IInv
<1>2. PICK row \in RowType, d \in TableType :
        /\ InsertTask(t, row, d) /\ Before(d)
        /\ row.status = "queued" /\ row.attempts = <<>>
        /\ row.parent = NoId \/ row.parent \in Existing
  BY DEF Inserts
<1>3. /\ UNCHANGED <<run, files, fetched>> /\ IsNextId(tasks, t)
      /\ chain' = [chain EXCEPT ![t] = IF row.parent = NoId \/ run.task = t THEN {}
                                       ELSE {row.parent} \cup chain[row.parent]]
  BY <1>2 DEF InsertTask, world
<1>4. TypeOK'
  BY <1>1, InsertType
<1>5. tasks'[t] = row /\ t \notin Existing
  BY <1>1, <1>2, InsertedRows
<1>6. \A j \in Ids \ {t} :
         \/ tasks'[j] = tasks[j]
         \/ /\ tasks[j].status = "queued" /\ tasks'[j].status = "skipped_existing_subtitle"
            /\ tasks'[j].attempts = tasks[j].attempts /\ tasks'[j].place = tasks[j].place
            /\ tasks'[j].video = tasks[j].video /\ tasks'[j].parent = tasks[j].parent
  BY <1>1, <1>2, InsertedRows DEF Before
<1>7. tasks[t].status = "absent" /\ tasks[t].attempts = <<>>
  BY <1>1, <1>5 DEF Existing, Exists, Counted
<1>8. Quiet
  <2>1. ASSUME NEW j \in Ids
        PROVE  /\ tasks'[j].attempts = tasks[j].attempts
               /\ tasks'[j].status = "completed" <=> tasks[j].status = "completed"
               /\ tasks[j].status = "completed" =>
                     tasks'[j].place = tasks[j].place /\ tasks'[j].video = tasks[j].video
               /\ tasks'[j].status \in {"absent", "queued"} => tasks[j].status \in {"absent", "queued"}
    <3>1. CASE j = t
      BY <1>2, <1>5, <1>7, <3>1
    <3>2. CASE j # t
      BY <1>6, <3>2
    <3> QED
      BY <3>1, <3>2
  <2> QED
    BY <1>3, <2>1 DEF Quiet
<1>9. \A j \in Ids \ {t} : /\ tasks'[j].video = tasks[j].video /\ tasks'[j].parent = tasks[j].parent
                           /\ (Exists(tasks, j) <=> Exists(tasks, j)')
  BY <1>6 DEF Exists
<1>10. Existing' = Existing \cup {t}
  <2>1. Exists(tasks, t)'
    BY <1>2, <1>5 DEF Exists
  <2> QED
    BY <1>9, <2>1 DEF Existing
<1>11. Idle'
  BY <1>1, <1>3 DEF Idle
<1>12. run.task # NoId => run.task \in Ids
  BY <1>1 DEF TypeOK, RunType
<1>13. run.task = t => run.lost
  BY <1>1, <1>7, Members DEF Owned, Exists
<1>14. Owned'
  <2>1. ASSUME run.task # NoId
        PROVE  /\ tasks'[run.task].status # "completed"
               /\ ~run.lost => tasks'[run.task].status # "absent"
               /\ budget["deletes"] = 0 => ~run.lost /\ tasks'[run.task].video = run.row.video
    <3>1. CASE run.task = t
      BY <1>1, <1>2, <1>5, <1>13, <2>1, <3>1 DEF Owned
    <3>2. CASE run.task # t
      BY <1>1, <1>6, <1>9, <1>12, <2>1, <3>2 DEF Owned, Exists
    <3> QED
      BY <3>1, <3>2
  <2> QED
    BY <1>1, <1>3, <2>1 DEF Owned, Exists
<1>15. /\ \A u \in Ids \ {t} : chain'[u] = chain[u]
       /\ chain'[t] = IF row.parent = NoId \/ run.task = t THEN {}
                      ELSE {row.parent} \cup chain[row.parent]
       /\ Existing \subseteq Ids /\ chain \in [Ids -> SUBSET Ids]
  BY <1>1, <1>3 DEF TypeOK, Existing
<1>16. \A j \in Existing : j \in Nat /\ j < t
  <2> SUFFICES ASSUME NEW j \in Existing PROVE j \in Nat /\ j < t
    OBVIOUS
  <2>1. j \in Nat /\ t \in Nat /\ j \in Ids /\ Exists(tasks, j)
    BY IdsNat DEF Existing
  <2>2. ~(j >= t)
    BY <1>3, <2>1 DEF IsNextId
  <2> QED
    BY <2>1, <2>2
<1>17. Linked'
  <2>1. ASSUME NEW u \in Existing' PROVE tasks'[u].parent < u
    <3>1. CASE u = t
      <4>1. NoId < t
        BY DEF NoId, Ids
      <4> QED
        BY <1>2, <1>5, <1>16, <3>1, <4>1
    <3>2. CASE u # t
      BY <1>1, <1>9, <1>10, <1>15, <3>2 DEF Linked
    <3> QED
      BY <3>1, <3>2
  <2>2. ASSUME NEW u \in Ids, NEW a \in chain'[u]
        PROVE  /\ u \in Existing' /\ tasks'[u].parent \in chain'[u]
               /\ a \in Existing' /\ a < u
               /\ a = tasks'[u].parent \/ \E s \in chain'[u] : a < s /\ tasks'[s].parent = a
               /\ tasks'[a].parent \in chain'[u] \/ \A b \in chain'[u] : a <= b
    <3>1. CASE u # t
      <4>1. chain'[u] = chain[u] /\ tasks'[u].parent = tasks[u].parent
        BY <1>9, <1>15, <3>1
      <4>2. \A s \in chain[u] : s \in Ids \ {t} /\ tasks'[s].parent = tasks[s].parent
        BY <1>1, <1>5, <1>9, <1>15 DEF Linked
      <4> QED
        BY <1>1, <1>10, <4>1, <4>2 DEF Linked
    <3>2. CASE u = t
      <4> DEFINE p == row.parent
      <4>1. p \in Existing /\ chain'[t] = {p} \cup chain[p] /\ tasks'[t].parent = p
        BY <1>2, <1>5, <1>15, <2>2, <3>2
      <4> HIDE DEF p
      <4>2. p \in Ids /\ p # t /\ chain[p] \subseteq Existing /\ t \notin chain[p]
        BY <1>1, <1>5, <1>15, <4>1 DEF Linked
      <4>3. \A s \in {p} \cup chain[p] : s \in Ids \ {t} /\ tasks'[s].parent = tasks[s].parent
        BY <1>9, <1>15, <4>1, <4>2
      <4>4. /\ \A s \in chain[p] : s < p /\ s \in Nat
            /\ p \in Nat /\ p < t
        BY <1>1, <1>16, <4>1, <4>2 DEF Linked
      <4>5. t \in Existing' /\ a \in Existing' /\ a < t /\ tasks'[t].parent \in chain'[t]
        BY <1>10, <1>16, <2>2, <3>2, <4>1, <4>2
      <4>6. a = p \/ \E s \in {p} \cup chain[p] : a < s /\ tasks[s].parent = a
        <5>1. CASE a \in chain[p]
          BY <1>1, <4>2, <4>4, <5>1 DEF Linked
        <5> QED
          BY <2>2, <3>2, <4>1, <5>1
      <4>7. tasks[a].parent \in {p} \cup chain[p] \/ \A b \in {p} \cup chain[p] : a <= b
        <5>1. CASE a \in chain[p]
          BY <1>1, <4>2, <4>4, <5>1 DEF Linked
        <5>2. CASE a = p /\ chain[p] = {}
          BY <4>4, <5>2
        <5>3. CASE a = p /\ chain[p] # {}
          BY <1>1, <4>2, <5>3 DEF Linked
        <5> QED
          BY <2>2, <3>2, <4>1, <5>1, <5>2, <5>3
      <4> QED
        BY <2>2, <3>2, <4>1, <4>3, <4>5, <4>6, <4>7
    <3> QED
      BY <3>1, <3>2
  <2> QED
    BY <2>1, <2>2 DEF Linked
<1>18. Excluded'
  <2>1. CASE run.task = NoId
    BY <1>3, <2>1 DEF Excluded
  <2>2. CASE run.task = t
    <3>1. chain'[run.task] = {}
      BY <1>15, <2>2
    <3> QED
      BY <1>3, <3>1 DEF Excluded
  <2>3. CASE run.task # NoId /\ run.task # t
    <3>1. /\ run.task \in Ids /\ chain'[run.task] = chain[run.task]
          /\ tasks'[run.task].parent = tasks[run.task].parent
          /\ chain[run.task] \subseteq Ids
      BY <1>9, <1>12, <1>15, <2>3
    <3>2. run.task \in Traced' => run.task \in Traced
      BY <3>1 DEF Traced
    <3>3. \A a \in chain[run.task] : tasks'[a].attempts = tasks[a].attempts
      BY <1>8, <3>1 DEF Quiet
    <3>4. \A o : OfferKey(o)' = OfferKey(o)
      BY DEF OfferKey
    <3> QED
      BY <1>1, <1>3, <2>3, <3>1, <3>2, <3>3, <3>4 DEF Excluded
  <2> QED
    BY <2>1, <2>2, <2>3
<1> QED
  BY <1>3, <1>4, <1>8, <1>11, <1>14, <1>17, <1>18, QuietRows, QuietRun DEF IInv

\* A task is deleted.
LEMMA DeleteEffect ==
    ASSUME IInv, NEW t \in Ids, NEW b \in BOOLEAN, DeleteTask(t, b)
    PROVE  /\ Exists(tasks, t) /\ run.pc \in {"idle", "next", "search", "download", "sync"}
           /\ tasks'[t].status = "absent" /\ tasks'[t].attempts = <<>>
           /\ \A j \in Ids \ {t} : tasks'[j] = tasks[j]
           /\ fetched'[t] = {} /\ \A j \in Ids \ {t} : fetched'[j] = fetched[j]
           /\ \A u \in Ids : chain'[u] = IF t = u \/ t \in chain[u] THEN {} ELSE chain[u]
           /\ Existing' = Existing \ {t}
           /\ \/ files' = files
              \/ /\ t \in Completed /\ tasks[t].place.video = tasks[t].video
                 /\ \A w \in Videos, r \in Slots :
                       files'[w][r] = IF w = tasks[t].place.video /\ r = tasks[t].place.slot
                                      THEN NoFile ELSE files[w][r]
           /\ UNCHANGED service
<1>1. TypeOK /\ Kept
  BY DEF IInv
<1>2. tasks' = [tasks EXCEPT ![t] = NoTask] /\ tasks \in TableType
  BY <1>1, TypeParts DEF DeleteTask
<1>3. /\ tasks'[t].status = "absent" /\ tasks'[t].attempts = <<>>
      /\ \A j \in Ids \ {t} : tasks'[j] = tasks[j]
  BY <1>2, NoTaskType DEF TableType
<1>4. fetched'[t] = {} /\ \A j \in Ids \ {t} : fetched'[j] = fetched[j]
  BY <1>1 DEF DeleteTask, TypeOK
<1>5. \A u \in Ids : chain'[u] = IF t = u \/ t \in chain[u] THEN {} ELSE chain[u]
  BY DEF DeleteTask
<1>6. Existing' = Existing \ {t}
  BY <1>3 DEF Existing, Exists
<1>7. run.pc \in {"idle", "next", "search", "download", "sync"}
  BY DEF DeleteTask, Unlocked
<1>8. ASSUME files' # files
      PROVE  /\ t \in Completed /\ tasks[t].place.video = tasks[t].video
             /\ \A w \in Videos, r \in Slots :
                   files'[w][r] = IF w = tasks[t].place.video /\ r = tasks[t].place.slot
                                  THEN NoFile ELSE files[w][r]
  <2>1. /\ tasks[t].status = "completed" /\ tasks[t].place.video = tasks[t].video
        /\ files' = [files EXCEPT ![tasks[t].video][tasks[t].place.slot] = NoFile]
    BY <1>8 DEF DeleteTask
  <2>2. t \in Completed
    BY <2>1 DEF Completed
  <2>3. tasks[t].place.video \in Videos /\ tasks[t].place.slot \in Slots
    BY <1>1, <2>2 DEF Kept
  <2>4. NoFile \in FileType /\ RestType
    BY <1>1, TypeParts DEF NoFile, File, FileType
  <2> QED
    BY <2>1, <2>2, <2>3, <2>4, FilePlaced
<1> QED
  BY <1>3, <1>4, <1>5, <1>6, <1>7, <1>8 DEF DeleteTask

\* What the deleted task leaves of the rows, the chains and the subtitles.
LEMMA DeleteRows ==
    ASSUME IInv, NEW t \in Ids, NEW b \in BOOLEAN, DeleteTask(t, b)
    PROVE  Kept' /\ SubtitleIsKept' /\ Linked' /\ Completed' = Completed \ {t}
<1>1. TypeOK /\ Kept /\ SubtitleIsKept /\ Linked
  BY DEF IInv
<1>2. \A j \in Ids \ {t} : tasks'[j] = tasks[j]
  BY DeleteEffect
<1>3. Completed' = Completed \ {t} /\ Completed \subseteq Ids
  BY DeleteEffect DEF Completed
<1>4. Kept'
  BY <1>1, <1>2, <1>3 DEF Kept, PlacedText
<1>5. SubtitleIsKept'
  <2> SUFFICES ASSUME ~Overwrite, NEW u \in Completed \ {t}
               PROVE  files'[tasks[u].place.video][tasks[u].place.slot].text = PlacedText(tasks[u])
    BY <1>2, <1>3 DEF SubtitleIsKept, PlacedText
  <2>1. /\ tasks[u].place \in [video : Videos, slot : Slots]
        /\ files[tasks[u].place.video][tasks[u].place.slot].text = PlacedText(tasks[u])
    BY <1>1 DEF Kept, SubtitleIsKept
  <2>2. ASSUME t \in Completed
        PROVE  tasks[u].place.video # tasks[t].place.video \/ tasks[u].place.slot # tasks[t].place.slot
    <3>1. tasks[t].place \in [video : Videos, slot : Slots] /\ tasks[t].place # tasks[u].place
      BY <1>1, <2>2 DEF Kept
    <3> QED
      BY <2>1, <3>1
  <2> QED
    BY <2>1, <2>2, DeleteEffect
<1>6. Linked'
  <2>1. /\ Existing' = Existing \ {t} /\ Existing \subseteq Ids
        /\ \A u \in Ids : chain'[u] = IF t = u \/ t \in chain[u] THEN {} ELSE chain[u]
        /\ chain \in [Ids -> SUBSET Ids]
    BY <1>1, DeleteEffect DEF Existing, TypeOK
  <2>2. \A u \in Existing' : tasks'[u].parent < u
    BY <1>1, <1>2, <2>1 DEF Linked
  <2>3. ASSUME NEW u \in Ids, NEW a \in chain'[u]
        PROVE  /\ u \in Existing' /\ tasks'[u].parent \in chain'[u]
               /\ a \in Existing' /\ a < u
               /\ a = tasks'[u].parent \/ \E s \in chain'[u] : a < s /\ tasks'[s].parent = a
               /\ tasks'[a].parent \in chain'[u] \/ \A c \in chain'[u] : a <= c
    <3>1. chain'[u] = chain[u] /\ u # t /\ t \notin chain[u]
      BY <2>1, <2>3
    <3>2. \A s \in chain[u] : s \in Ids \ {t} /\ tasks'[s].parent = tasks[s].parent
      BY <1>2, <2>1, <3>1
    <3> QED
      BY <1>1, <1>2, <2>1, <3>1, <3>2 DEF Linked
  <2> QED
    BY <2>2, <2>3 DEF Linked
<1> QED
  BY <1>3, <1>4, <1>5, <1>6

LEMMA DeleteKeepsInv ==
    ASSUME IInv, NEW t \in Ids, NEW b \in BOOLEAN, DeleteTask(t, b)
    PROVE  IInv'
<1>1. /\ TypeOK /\ Idle /\ Counted /\ InHand /\ Owned /\ Accepted /\ Seen
      /\ Recorded /\ Linked /\ Excluded
  BY DEF IInv
<1>2. TypeOK' /\ Gone(t) /\ budget'["deletes"] # 0
  BY <1>1, DeleteType
<1>3. /\ run'.task = run.task /\ run'.pc = run.pc /\ run'.row = run.row
      /\ run'.left = run.left /\ run'.batch = run.batch /\ run'.used = run.used
      /\ run'.offer = run.offer /\ run'.stage = run.stage
      /\ run'.existing = run.existing /\ run'.known = run.known
      /\ run.task = t => run'.lost /\ run'.attempts = <<>>
      /\ run.task # t => run' = run
  BY <1>2 DEF Gone
<1>4. /\ run.pc \in {"idle", "next", "search", "download", "sync"}
      /\ tasks'[t].status = "absent" /\ tasks'[t].attempts = <<>>
      /\ \A j \in Ids \ {t} : tasks'[j] = tasks[j]
      /\ fetched'[t] = {} /\ \A j \in Ids \ {t} : fetched'[j] = fetched[j]
      /\ \A u \in Ids : chain'[u] = IF t = u \/ t \in chain[u] THEN {} ELSE chain[u]
      /\ UNCHANGED service
  BY DeleteEffect
<1>5. t # NoId /\ (run.task # NoId => run.task \in Ids /\ run.pc # "idle")
  BY <1>1, Members, NoRunType DEF TypeOK, RunType, Idle
<1>6. Idle'
  BY <1>1, <1>3, <1>4, <1>5, NoRunType DEF Idle
<1>7. Counted'
  <2>1. AttemptsWithinBudget'
    <3>1. Len(<<>>) <= MaxAttempts
      BY NoAttempts, LoopAssumption
    <3> QED
      BY <1>1, <1>4, <3>1 DEF Counted, AttemptsWithinBudget
  <2>2. Len(run'.attempts) <= run'.used
    <3>1. run.used \in Nat
      BY <1>1, TypeParts, LoopAssumption DEF RunSet, Counts
    <3> QED
      BY <1>1, <1>3, <3>1, NoAttempts DEF Counted
  <2> QED
    BY <1>1, <1>3, <1>4, <2>1, <2>2 DEF Counted
<1>8. InHand'
  BY <1>1, <1>3 DEF InHand
<1>9. Owned'
  BY <1>1, <1>2, <1>3, <1>4, <1>5 DEF Owned, Exists
<1>10. Accepted'
  <2>1. OfferText' = OfferText /\ Video' = Video
    BY <1>3 DEF OfferText, Video
  <2>2. EpisodeTexts(Video)' \subseteq EpisodeTexts(Video)
    <3>1. /\ EpisodeTexts(Video)' = {PlacedText(tasks'[u]) : u \in {w \in Completed' : tasks'[w].video # Video}}
          /\ EpisodeTexts(Video) = {PlacedText(tasks[u]) : u \in {w \in Completed : tasks[w].video # Video}}
      BY <2>1 DEF EpisodeTexts, Completed, PlacedText
    <3>2. Completed' = Completed \ {t} /\ \A u \in Completed \ {t} : tasks'[u] = tasks[u]
      BY <1>4, DeleteRows DEF Completed
    <3> QED
      BY <3>1, <3>2
  <2> QED
    BY <1>1, <1>3, <2>1, <2>2 DEF Accepted
<1>11. JustPlaced'
  BY <1>3, <1>4 DEF JustPlaced
<1>12. Seen'
  <2>1. \A w \in Videos, r \in Slots : files[w][r] = NoFile => files'[w][r] = NoFile
    BY DeleteEffect
  <2>2. Video \in Videos
    BY <1>1, VideoType
  <2> QED
    BY <1>1, <1>3, <2>1, <2>2 DEF Seen, Video, Supplemental
<1>13. Recorded'
  BY <1>1, <1>3, <1>4, <1>5 DEF Recorded
<1>14. Excluded'
  <2> SUFFICES ASSUME run.task # NoId
               PROVE  /\ run'.lost => chain'[run.task] = {}
                      /\ chain'[run.task] # {} => run.row.parent = tasks'[run.task].parent
                      /\ run.task \in Traced' => \A a \in chain'[run.task] :
                            /\ TextsOf(ToSet(tasks'[a].attempts)) \subseteq run.known
                            /\ \A o \in run.batch : OfferKey(o) \notin KeysOf(ToSet(tasks'[a].attempts))
    <3>1. \A o : OfferKey(o)' = OfferKey(o)
      BY DEF OfferKey
    <3> QED
      BY <1>3, <3>1 DEF Excluded
  <2>1. CASE chain'[run.task] = {}
    BY <2>1
  <2>2. CASE chain'[run.task] # {}
    <3>1. run.task # t /\ t \notin chain[run.task] /\ chain'[run.task] = chain[run.task]
      BY <1>4, <1>5, <2>2
    <3>2. \A a \in chain[run.task] : a \in Ids \ {t}
      BY <1>1, <1>5, <3>1 DEF TypeOK
    <3>3. run.task \in Traced' => run.task \in Traced
      BY <1>5, <3>1 DEF Traced
    <3> QED
      BY <1>1, <1>3, <1>4, <1>5, <3>1, <3>2, <3>3 DEF Excluded
  <2> QED
    BY <2>1, <2>2
<1> QED
  BY <1>2, <1>6, <1>7, <1>8, <1>9, <1>10, <1>11, <1>12, <1>13, <1>14, DeleteRows DEF IInv

-----------------------------------------------------------------------------
(* The invariant.                                                          *)

LEMMA InitInv == Init => IInv
<1> SUFFICES ASSUME Init PROVE IInv
  OBVIOUS
<1>1. TypeOK
  BY InitType
<1>2. /\ \A t \in Ids : /\ tasks[t].status = "absent" /\ tasks[t].attempts = <<>>
                        /\ fetched[t] = {} /\ chain[t] = {}
      /\ run = NoRun
  BY NoTaskType DEF Init
<1>3. /\ run.task = NoId /\ run.pc = "idle" /\ ~run.lost /\ run.batch = {}
      /\ run.attempts = <<>> /\ run.used = 0
  BY <1>2, NoRunType DEF NoRun
<1>4. Completed = {} /\ Existing = {}
  BY <1>2 DEF Completed, Existing, Exists
<1>5. Idle /\ InHand /\ Owned /\ Accepted /\ JustPlaced /\ Seen /\ Excluded
  BY <1>2, <1>3 DEF Idle, InHand, Owned, Accepted, JustPlaced, Seen, Excluded, Trying
<1>6. Counted
  BY <1>2, <1>3, NoAttempts, LoopAssumption DEF Counted, AttemptsWithinBudget
<1>7. Kept /\ SubtitleIsKept
  BY <1>4 DEF Kept, SubtitleIsKept
<1>8. Recorded
  BY <1>2, <1>3 DEF Recorded
<1>9. Linked
  BY <1>2, <1>4 DEF Linked
<1> QED
  BY <1>1, <1>5, <1>6, <1>7, <1>8, <1>9 DEF IInv

LEMMA AddsKeepsInv ==
    ASSUME IInv, NEW t \in Ids, NEW v \in Videos, NEW src \in JobSources, AddTask(t, v, src)
    PROVE  IInv' /\ Quiet
BY Adds, InsertKeepsInv DEF IInv

LEMMA RetriesKeepInv ==
    ASSUME IInv, NEW t \in Ids, NEW o \in Ids, RetryTask(t, o) \/ AutoRetry(t, o)
    PROVE  IInv' /\ Quiet
<1>1. TypeOK /\ budget \in [{"adds", "crashes", "deletes"} -> Nat]
  BY DEF IInv, TypeOK
<1> QED
  BY <1>1, Retries, InsertKeepsInv

LEMMA SameInv ==
    ASSUME IInv, UNCHANGED vars
    PROVE  IInv' /\ Quiet
<1>1. /\ TypeOK /\ Idle /\ Counted /\ InHand /\ Owned /\ Accepted
      /\ Kept /\ SubtitleIsKept /\ JustPlaced /\ Seen /\ Recorded /\ Linked /\ Excluded
  BY DEF IInv
<1>2. UNCHANGED <<tasks, run, files, bundles, service, fetched, chain, budget>>
  BY DEF vars, world, history
<1>3. TypeOK' /\ Idle' /\ InHand' /\ Owned'
  BY <1>1, <1>2 DEF TypeOK, Idle, InHand, Owned, Exists
<1>4. Quiet
  BY <1>2 DEF Quiet
<1>5. Linked'
  BY <1>1, <1>2, LinkedStays DEF Existing, Exists
<1>6. Excluded'
  BY <1>1, <1>2 DEF Excluded, Traced, OfferKey
<1> QED
  BY <1>2, <1>3, <1>4, <1>5, <1>6, QuietRows, QuietRun DEF IInv

LEMMA NextInv ==
    ASSUME IInv, [Next]_vars
    PROVE  IInv'
BY RunKeepsInv, BeginKeepsInv, PreflightKeepsInv, CrashKeepsInv, RestartKeepsInv, AddsKeepsInv,
   RetriesKeepInv, DeleteKeepsInv, SameInv DEF Next

\* Every other step than the run's and a deletion is quiet.
LEMMA StepKinds ==
    ASSUME IInv, [Next]_vars
    PROVE  \/ RunStep \/ Quiet
           \/ \E t \in Ids, b \in BOOLEAN : DeleteTask(t, b)
<1>1. \A t \in Ids : Begin(t) => Quiet
  BY DEF Begin, Quiet, world, history
<1> QED
  BY <1>1, PreflightKeepsInv, CrashKeepsInv, RestartKeepsInv, AddsKeepsInv, RetriesKeepInv,
     SameInv DEF Next

\* Deletions are counted, and none is forgotten.
LEMMA DeletesCounted ==
    ASSUME IInv, [Next]_vars
    PROVE  budget'["deletes"] = budget["deletes"] \/ budget'["deletes"] # 0
<1>1. TypeOK
  BY DEF IInv
<1>2. CASE RunStep
  BY <1>2, RunRows
<1>3. CASE \E t \in Ids : Preflight(t) \/ Begin(t)
  BY <1>3 DEF Preflight, Begin
<1>4. CASE \E t \in Ids, v \in Videos, src \in JobSources : AddTask(t, v, src)
  BY <1>1, <1>4, Adds
<1>5. CASE \E t, o \in Ids : RetryTask(t, o) \/ AutoRetry(t, o)
  BY <1>5 DEF RetryTask, AutoRetry
<1>6. CASE \E t \in Ids, b \in BOOLEAN : DeleteTask(t, b)
  BY <1>1, <1>6, DeleteType
<1>7. CASE Crash \/ Restart \/ UNCHANGED vars
  BY <1>1, <1>7, CrashType DEF Restart, vars
<1> QED
  BY <1>2, <1>3, <1>4, <1>5, <1>6, <1>7 DEF Next

-----------------------------------------------------------------------------
(* The theorems.                                                           *)

(* The inductive invariant: what the run believes of its task, of the      *)
(* files and of the tasks before it is so, whatever others do meanwhile.   *)
THEOREM InvHolds == Spec => []IInv
BY InitInv, NextInv, PTL DEF Spec

(* Every variable has its type in every state of every behaviour.          *)
THEOREM TypeCorrect == Spec => []TypeOK
BY InvHolds, PTL DEF IInv

(* A task makes no more attempts than max_candidate_attempts, counted over *)
(* the cached copy and all providers together, crashes and deletions       *)
(* notwithstanding.                                                        *)
THEOREM AttemptsBounded == Spec => []AttemptsWithinBudget
<1>1. IInv => AttemptsWithinBudget
  BY DEF IInv, Counted
<1> QED
  BY <1>1, InvHolds, PTL

(* Without settings.subtitles.overwrite the subtitle of a completed task   *)
(* is never written over, nor taken away with another task.                *)
THEOREM SubtitleStays == Spec => []SubtitleIsKept
BY InvHolds, PTL DEF IInv

LEMMA DistinctInit == Init => EpisodeTextsDistinct
BY NoTaskType DEF Init, EpisodeTextsDistinct, Completed

LEMMA DistinctNext ==
    ASSUME IInv, EpisodeTextsDistinct, [Next]_vars
    PROVE  EpisodeTextsDistinct'
<1> SUFFICES ASSUME budget'["deletes"] = 0, NEW t \in Completed', NEW u \in Completed',
                    PlacedText(tasks'[t]) = PlacedText(tasks'[u])
             PROVE  tasks'[t].video = tasks'[u].video
  BY DEF EpisodeTextsDistinct, PlacedText
<1>1. budget["deletes"] = 0
  BY DeletesCounted
<1>2. \A r, s \in Completed :
         PlacedText(tasks[r]) = PlacedText(tasks[s]) => tasks[r].video = tasks[s].video
  BY <1>1 DEF EpisodeTextsDistinct
<1>3. ~(\E r \in Ids, b \in BOOLEAN : DeleteTask(r, b))
  BY DeleteType DEF IInv
<1>4. CASE Quiet
  <2>1. Completed' = Completed /\ \A r \in Completed :
           PlacedText(tasks'[r]) = PlacedText(tasks[r]) /\ tasks'[r].video = tasks[r].video
    BY <1>4, QuietTexts DEF Quiet, Completed
  <2> QED
    BY <1>2, <2>1
<1>5. CASE RunStep
  <2>1. \A r \in Completed : tasks'[r] = tasks[r]
    BY <1>5, CompletedStays
  <2>2. CASE ~Completes
    <3>1. Completed' = Completed
      BY <1>5, <2>2, CompletedStays
    <3> QED
      BY <1>2, <2>1, <3>1
  <2>3. CASE Completes
    <3>1. Completed' = Completed \cup {run.task}
      BY <1>5, <2>3, CompletedStays
    <3>2. /\ run.pc = "placed" /\ ~run.lost /\ run.task # NoId
          /\ tasks'[run.task].attempts = run.attempts
          /\ tasks'[run.task].video = tasks[run.task].video
      BY <1>5, <2>3, RunStepType, CompleteEffect DEF IInv, Recording
    <3>3. /\ PlacedText(tasks'[run.task]) = OfferText
          /\ OfferText \notin EpisodeTexts(Video)
      BY <3>2 DEF IInv, Accepted, PlacedText
    <3>4. tasks'[run.task].video = Video
      BY <1>1, <3>2 DEF IInv, Owned, Video
    <3>5. \A r \in Completed : PlacedText(tasks[r]) = OfferText => tasks[r].video = Video
      BY <3>3 DEF EpisodeTexts, Completed
    <3> QED
      BY <1>2, <2>1, <3>1, <3>3, <3>4, <3>5
  <2> QED
    BY <2>2, <2>3
<1> QED
  BY <1>3, <1>4, <1>5, StepKinds

(* As long as no task is deleted, two episodes never have the same text:   *)
(* what is accepted is compared with what every completed task has, and no *)
(* other task completes before it is placed.                               *)
THEOREM EpisodesDistinct == Spec => []EpisodeTextsDistinct
<1>1. IInv /\ EpisodeTextsDistinct /\ [Next]_vars => EpisodeTextsDistinct'
  BY DistinctNext
<1> QED
  BY <1>1, DistinctInit, InvHolds, PTL DEF Spec

LEMMA NoRepeatStep ==
    ASSUME IInv, [Next]_vars, NEW t \in Traced, NEW a \in chain[t]
    PROVE  (fetched'[t] \ fetched[t]) \cap fetched[a] = {}
<1>1. TypeOK /\ Idle /\ Counted /\ InHand /\ Owned /\ Recorded /\ Linked /\ Excluded
  BY DEF IInv
<1>2. t \in Ids /\ a \in Ids /\ run.task # NoId => run.task \in Ids
  BY <1>1 DEF Traced, Linked, Existing, TypeOK, RunType
<1>3. CASE fetched' = fetched
  BY <1>3
<1>4. CASE \E d \in Ids, b \in BOOLEAN : DeleteTask(d, b)
  <2>1. \A j \in Ids : fetched'[j] \subseteq fetched[j]
    BY <1>4, DeleteEffect
  <2> QED
    BY <1>2, <2>1 DEF Traced
<1>5. ASSUME NEW o \in run.batch, TryCandidate(o)
      PROVE  (fetched'[t] \ fetched[t]) \cap fetched[a] = {}
  <2>1. /\ run.task \in Ids /\ run.task # NoId
        /\ \/ fetched' = fetched
           \/ fetched' = [fetched EXCEPT ![run.task] = @ \cup ({OfferKey(o)} \ {NoKey})]
    BY <1>1, <1>5, TryEffect, Busy DEF TryCandidate
  <2>2. fetched \in [Ids -> SUBSET Keys] /\ t \in Ids
    BY <1>1 DEF TypeOK, Traced
  <2>3. CASE t = run.task
    <3>1. OfferKey(o) \notin KeysOf(ToSet(tasks[a].attempts))
      BY <1>1, <2>1, <2>3 DEF Excluded
    <3>2. fetched[a] \subseteq KeysOf(ToSet(tasks[a].attempts))
      BY <1>1, <2>2 DEF Recorded, Linked, Existing
    <3>3. fetched'[t] \subseteq fetched[t] \cup {OfferKey(o)}
      BY <2>1, <2>2
    <3> QED
      BY <3>1, <3>2, <3>3
  <2>4. CASE t # run.task
    BY <2>1, <2>2, <2>4
  <2> QED
    BY <2>3, <2>4
<1>6. CASE RunStep
  BY <1>1, <1>3, <1>5, <1>6, RunCases, SearchEffect, AnswerEffect, TurnedDownEffect,
     AcceptEffect, SyncedEffect, PlacedEffect, CompleteEffect, FailEffect
<1> QED
  BY <1>3, <1>4, <1>6, StepKinds DEF Quiet

(* A retry does not download again what a task of its chain has            *)
(* downloaded: what was downloaded is among the attempts that were         *)
(* committed before, and these are left out of every batch.                *)
THEOREM NothingDownloadedTwice == Spec => NoRepeatDownload
<1>1. IInv /\ [Next]_vars => [\A t \in Traced : \A a \in chain[t] :
                                (fetched'[t] \ fetched[t]) \cap fetched[a] = {}]_vars
  BY NoRepeatStep
<1> QED
  BY <1>1, InvHolds, PTL DEF Spec, NoRepeatDownload

LEMMA NewTextStep ==
    ASSUME IInv, [Next]_vars, NEW t \in Traced \ Completed, tasks'[t].status = "completed"
    PROVE  PlacedText(tasks'[t]) \notin TextsOf(Attempted(chain[t]))
<1>1. TypeOK /\ Idle /\ Owned /\ Accepted /\ Excluded
  BY DEF IInv
<1>2. t \in Ids /\ t \notin Completed /\ t \in Completed'
  BY DEF Traced, Completed
<1>3. ~Quiet
  BY <1>2, QuietTexts
<1>4. ~(\E d \in Ids, b \in BOOLEAN : DeleteTask(d, b))
  BY <1>2, DeleteRows
<1>5. RunStep /\ Completes /\ t = run.task
  BY <1>2, <1>3, <1>4, StepKinds, CompletedStays
<1>6. /\ run.pc = "placed" /\ ~run.lost /\ run.task # NoId
      /\ tasks'[t].attempts = run.attempts
  BY <1>1, <1>5, RunStepType, CompleteEffect DEF Recording
<1>7. PlacedText(tasks'[t]) = OfferText /\ OfferText \notin run.known
  BY <1>1, <1>6 DEF Accepted, PlacedText
<1>8. \A a \in chain[t] : TextsOf(ToSet(tasks[a].attempts)) \subseteq run.known
  BY <1>1, <1>5, <1>6 DEF Excluded
<1>9. TextsOf(Attempted(chain[t])) \subseteq run.known
  BY <1>8 DEF TextsOf, Attempted
<1> QED
  BY <1>7, <1>9

(* A retry completes with a text that no task of its chain is known to     *)
(* have had, whatever the identity of the candidate that brings it.        *)
THEOREM RetriesBringNewText == Spec => RetryBringsNewText
<1>1. IInv /\ [Next]_vars => [\A t \in Traced \ Completed :
                                 tasks'[t].status = "completed" =>
                                    PlacedText(tasks'[t]) \notin TextsOf(Attempted(chain[t]))]_vars
  BY NewTextStep
<1> QED
  BY <1>1, InvHolds, PTL DEF Spec, RetryBringsNewText

LEMMA SupplementStep ==
    ASSUME IInv, [Next]_vars, NEW v \in Videos, NEW s \in Slots, NEW r \in Slots,
           Supplemental(run.row), files'[v][s] # files[v][s], files'[v][s] # NoFile
    PROVE  files[v][r] # files'[v][s]
<1>1. TypeOK /\ Idle /\ Counted /\ InHand /\ Owned /\ Accepted /\ Seen
  BY DEF IInv
<1>2. ~Quiet
  BY DEF Quiet
<1>3. ~(\E d \in Ids, b \in BOOLEAN : DeleteTask(d, b))
  BY DeleteEffect
<1>4. RunStep
  BY <1>2, <1>3, StepKinds
<1>5. run.pc \in {"sync", "place"} /\ \E slot \in Slots : Writes(Video, slot)
  BY <1>1, <1>4, RunCases, SearchEffect, AnswerEffect, TryEffect, TurnedDownEffect,
     AcceptEffect, SyncedEffect, PlacedEffect, CompleteEffect, FailEffect
<1>6. v = Video /\ ~AlreadyThere(files'[v][s]) /\ files'[v][s].text = OfferText
  BY <1>5 DEF Writes
<1> SUFFICES ASSUME files[v][r] = files'[v][s] PROVE FALSE
  OBVIOUS
<1>7. files[v][r] # NoFile
  OBVIOUS
<1>8. r \in run.existing
  BY <1>1, <1>4, <1>5, <1>6, <1>7, RunStepType DEF Seen
<1> QED
  BY <1>6, <1>8 DEF AlreadyThere

(* A supplement adds no file that the video has already: nothing comes to  *)
(* the video while the run is under way, so that what it saw when it began *)
(* is what is there.                                                       *)
THEOREM SupplementsAreNew == Spec => SupplementIsNew
<1>1. IInv /\ [Next]_vars => [\A v \in Videos, s, r \in Slots :
                                 /\ Supplemental(run.row)
                                 /\ files'[v][s] # files[v][s] /\ files'[v][s] # NoFile
                                 => files[v][r] # files'[v][s]]_vars
  BY SupplementStep
<1> QED
  BY <1>1, InvHolds, PTL DEF Spec, SupplementIsNew

-----------------------------------------------------------------------------
(* The lifecycle.                                                          *)

\* The two modules speak of the same statuses.
LEMMA Vocabulary ==
    /\ Lifecycle!PendingTaskStatuses = PendingTaskStatuses
    /\ Lifecycle!ActiveTaskStatuses = ActiveTaskStatuses
    /\ Lifecycle!TaskStatuses = TaskStatuses
BY DEF Lifecycle!PendingTaskStatuses, PendingTaskStatuses, Lifecycle!ActiveTaskStatuses,
   ActiveTaskStatuses, Lifecycle!TaskStatuses, TaskStatuses, Lifecycle!InFlightTaskStatuses,
   InFlightTaskStatuses, Lifecycle!TerminalTaskStatuses, TerminalTaskStatuses,
   Lifecycle!SuccessTaskStatuses, SuccessTaskStatuses, Lifecycle!FailedTaskStatuses,
   FailedTaskStatuses, Lifecycle!SkippedTaskStatuses, SkippedTaskStatuses

LEMMA Pending ==
    /\ "queued" \in PendingTaskStatuses
    /\ "retry_wait" \notin ActiveTaskStatuses \cup {"failed", "completed"}
BY DEF PendingTaskStatuses, ActiveTaskStatuses

LEMMA RunIsLawful ==
    ASSUME IInv, RunStep, NEW i \in Ids, tasks'[i].status # tasks[i].status
    PROVE  Lifecycle!MayChange(i)
<1>1. TypeOK /\ Idle /\ Owned
  BY DEF IInv
<1>2. i = run.task /\ run.task # NoId
  BY RowsStay, RunStepType
<1>3. tasks[i].status # "absent" /\ tasks'[i].status \in ActiveTaskStatuses \cup {"failed", "completed"}
  BY <1>1, <1>2, RunRows, CompleteEffect DEF Recording, Exists
<1>4. tasks'[i].status \in TaskStatuses \ {"retry_wait"}
  BY <1>3, Pending, Statuses
<1> QED
  BY <1>2, <1>3, <1>4, Vocabulary DEF Lifecycle!MayChange, Lifecycle!WrittenByRunner

LEMMA CancelIsLawful ==
    ASSUME NEW i \in Ids, tasks[i].status = "queued", tasks'[i].status = "skipped_existing_subtitle"
    PROVE  Lifecycle!MayChange(i)
BY Vocabulary, Pending DEF Lifecycle!MayChange, Lifecycle!Cancelled

LEMMA InsertIsLawful ==
    ASSUME IInv, NEW t \in Ids, Inserts(t), NEW i \in Ids, tasks'[i].status # tasks[i].status
    PROVE  Lifecycle!MayChange(i) /\ run' = run
<1>1. TypeOK
  BY DEF IInv
<1>2. PICK row \in RowType, d \in TableType : InsertTask(t, row, d) /\ Before(d) /\ row.status = "queued"
  BY DEF Inserts
<1>3. tasks'[t] = row /\ t \notin Existing /\ \A j \in Ids \ {t} : tasks'[j] = d[j]
  BY <1>1, <1>2, InsertedRows
<1>4. CASE i = t
  <2>1. tasks[i].status = "absent" /\ tasks'[i].status = "queued"
    BY <1>2, <1>3, <1>4 DEF Existing, Exists
  <2> QED
    BY <1>2, <2>1, Vocabulary, Pending DEF Lifecycle!MayChange, Lifecycle!Created, InsertTask
<1>5. CASE i # t
  <2>1. tasks[i].status = "queued" /\ tasks'[i].status = "skipped_existing_subtitle"
    BY <1>2, <1>3, <1>5 DEF Before
  <2> QED
    BY <1>2, <2>1, CancelIsLawful DEF InsertTask
<1> QED
  BY <1>4, <1>5

\* Only when the service is down, which leaves no run.
LEMMA RestartIsLawful ==
    ASSUME IInv, Restart, NEW i \in Ids, tasks'[i].status # tasks[i].status
    PROVE  Lifecycle!MayChange(i)
<1>1. run.task = NoId
  BY NoRunType DEF IInv, Idle, Restart
<1>2. tasks[i].status \in ActiveTaskStatuses /\ tasks'[i].status = "interrupted"
  BY RestartType DEF IInv
<1> QED
  BY <1>1, <1>2, Vocabulary DEF Lifecycle!MayChange, Lifecycle!Interrupted

LEMMA StepIsLawful ==
    ASSUME IInv, [Next]_vars
    PROVE  /\ \A i \in Ids : tasks'[i].status # tasks[i].status => Lifecycle!MayChange(i)
           /\ run'.task = run.task \/ run'.task = NoId
              \/ (run'.task \in Ids /\ tasks[run'.task].status = "queued")
<1>1. TypeOK
  BY DEF IInv
<1>2. CASE RunStep
  BY <1>2, RunIsLawful, RunGoesOn, NoRunType DEF Going
<1>3. ASSUME NEW t \in Ids, Preflight(t)
      PROVE  /\ \A i \in Ids : tasks'[i].status # tasks[i].status => Lifecycle!MayChange(i)
             /\ run' = run
  <2>1. tasks[t].status = "queued" /\ run' = run
    BY <1>3 DEF Preflight
  <2>2. \A i \in Ids : tasks'[i].status # tasks[i].status =>
           tasks[i].status = "queued" /\ tasks'[i].status = "skipped_existing_subtitle"
    BY <1>1, <1>3, <2>1, PreflightType
  <2> QED
    BY <2>1, <2>2, CancelIsLawful
<1>4. ASSUME NEW t \in Ids, Begin(t)
      PROVE  tasks' = tasks /\ run'.task \in Ids /\ tasks[run'.task].status = "queued"
  BY <1>1, <1>4, BeginType DEF Begin, Begun, MayBegin
<1>5. ASSUME NEW t \in Ids, Inserts(t)
      PROVE  /\ \A i \in Ids : tasks'[i].status # tasks[i].status => Lifecycle!MayChange(i)
             /\ run' = run
  BY <1>5, InsertIsLawful DEF Inserts, InsertTask
<1>6. \A t, o \in Ids : RetryTask(t, o) \/ AutoRetry(t, o) => Inserts(t)
  BY <1>1, Retries
<1>7. \A t \in Ids, v \in Videos, src \in JobSources : AddTask(t, v, src) => Inserts(t)
  BY <1>1, Adds
<1>8. ASSUME NEW t \in Ids, NEW b \in BOOLEAN, DeleteTask(t, b)
      PROVE  /\ \A i \in Ids : tasks'[i].status # tasks[i].status => Lifecycle!MayChange(i)
             /\ run'.task = run.task
  <2>1. \A i \in Ids : tasks'[i].status # tasks[i].status => tasks'[i].status = "absent"
    BY <1>8, DeleteEffect
  <2>2. run'.task = run.task
    BY <1>1, <1>8, DeleteType DEF Gone
  <2> QED
    BY <2>1, <2>2 DEF Lifecycle!MayChange, Lifecycle!Deleted
<1>9. CASE Crash
  BY <1>9, NoRunType DEF Crash
<1>10. CASE Restart
  BY <1>10, RestartIsLawful DEF Restart
<1>11. CASE UNCHANGED vars
  BY <1>11 DEF vars
<1> QED
  BY <1>2, <1>3, <1>4, <1>5, <1>6, <1>7, <1>8, <1>9, <1>10, <1>11 DEF Next

(* The loop implements TaskLifecycle: no status is changed but by the run  *)
(* of its task or by a move that needs none, also when a run goes on with  *)
(* a task that was given the identifier of a deleted one.                  *)
THEOREM LoopRefinesLifecycle == Spec => LoopLifecycle
<1>1. Init => Lifecycle!Init
  BY NoTaskType, NoRunType DEF Init, Lifecycle!Init
<1>2. IInv /\ [Next]_vars => Lifecycle!Next
  <2> SUFFICES ASSUME IInv, [Next]_vars PROVE Lifecycle!Next
    OBVIOUS
  <2>1. run'.task \in Ids \cup {NoId}
    BY NextInv DEF IInv, TypeOK, RunType
  <2> QED
    BY <2>1, StepIsLawful DEF Lifecycle!Next, Lifecycle!MayTake
<1> QED
  BY <1>1, <1>2, InvHolds, PTL DEF Spec, LoopLifecycle, Lifecycle!Spec
=============================================================================
