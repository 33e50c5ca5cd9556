------------------------ MODULE CandidateLoopProperties ------------------------
(***************************************************************************)
(* What must be true of the candidates a task goes through and of the      *)
(* subtitles it leaves beside the videos.                                  *)
(***************************************************************************)
EXTENDS CandidateLoop

Keys == {Key[c] : c \in Candidates} \cup {CacheKey[c] : c \in Candidates}
AttemptType == [key : Keys, text : Texts \cup {NoText}]
PlaceType == [video : Videos, slot : Slots] \cup {NoPlace}
OfferType == [candidate : Candidates \cup {NoCandidate}, cached : BOOLEAN]

RowType ==
    [status : TaskStatuses \cup {"absent"}, video : Videos,
     source : EntrySources \cup RetrySources, parent : Ids \cup {NoId},
     checked : BOOLEAN, attempts : Seq(AttemptType), place : PlaceType]

RunType ==
    [task : Ids \cup {NoId},
     pc : {"idle", "next", "search", "download", "sync", "place", "placed"},
     row : RowType, lost : BOOLEAN, left : SUBSET Providers,
     batch : SUBSET OfferType, used : 0..MaxAttempts, offer : OfferType,
     stage : {"queued"} \cup ActiveTaskStatuses, attempts : Seq(AttemptType),
     synced : BOOLEAN, existing : SUBSET Slots, known : SUBSET Texts,
     place : PlaceType]

(* Every variable has its type. *)
TypeOK ==
    /\ tasks \in [Ids -> RowType]
    /\ run \in RunType
    /\ files \in [Videos -> [Slots -> [text : Texts \cup {NoText}, synced : BOOLEAN]]]
    /\ bundles \in [Videos -> Packs \cup {NoCandidate}]
    /\ service \in {"up", "stuck", "down"}
    /\ fetched \in [Ids -> SUBSET Keys]
    /\ chain \in [Ids -> SUBSET Ids]
    /\ budget \in [{"adds", "crashes", "deletes"} -> Nat]

Completed == {t \in Ids : tasks[t].status = "completed"}

\* The tasks that have no more tasks before them than are looked at.
Traced == {t \in Ids : Cardinality(chain[t]) <= ChainLimit}

(***************************************************************************)
(* A retry does not download again what a task before it in its chain has  *)
(* downloaded, although those tasks may have crashed in the middle of it:  *)
(* an attempt is committed before its download begins, and the whole chain *)
(* is looked at.  (Nothing is claimed of a chain once one of its tasks was *)
(* deleted, which hides those before it, nor of a task that was given the  *)
(* identifier of the deleted task a run goes on with.)                     *)
(***************************************************************************)
NoRepeatDownload ==
    [][\A t \in Traced : \A a \in chain[t] : (fetched'[t] \ fetched[t]) \cap fetched[a] = {}]_vars

(***************************************************************************)
(* A retry that completes brings a text that no task before it is known to *)
(* have had, under whatever identity, from a provider or from the cache.   *)
(***************************************************************************)
RetryBringsNewText ==
    [][\A t \in Traced \ Completed :
          tasks'[t].status = "completed" =>
              PlacedText(tasks'[t]) \notin TextsOf(Attempted(chain[t]))]_vars

(***************************************************************************)
(* One task never makes more attempts than max_candidate_attempts, counted *)
(* over the cached copy and the batches of all providers together.         *)
(***************************************************************************)
AttemptsWithinBudget ==
    \A t \in Ids : Len(tasks[t].attempts) <= MaxAttempts

(***************************************************************************)
(* Two episodes never have the same text: a pack whose members are wrong,  *)
(* or its cached copy, is not placed for both.  (A deleted task takes the  *)
(* texts it is known by with it, and its identifier may be given to        *)
(* another, so nothing is claimed once a task was deleted.)                *)
(***************************************************************************)
EpisodeTextsDistinct ==
    budget.deletes = 0 =>
        \A t, u \in Completed :
            PlacedText(tasks[t]) = PlacedText(tasks[u]) => tasks[t].video = tasks[u].video

(***************************************************************************)
(* Without settings.subtitles.overwrite the subtitle of a completed task   *)
(* stays what it was: no other task of the video, a retry, a supplement or *)
(* one that was checked before it was placed, writes over it, and no       *)
(* deletion of another task takes it away.                                 *)
(***************************************************************************)
SubtitleIsKept ==
    ~Overwrite =>
        \A t \in Completed :
            files[tasks[t].place.video][tasks[t].place.slot].text = PlacedText(tasks[t])

(***************************************************************************)
(* A task that looks for a further subtitle adds none that the video has   *)
(* already, whoever placed that one, and also when it was placed by a run  *)
(* that crashed before it could record it.                                 *)
(***************************************************************************)
SupplementIsNew ==
    [][\A v \in Videos, s, r \in Slots :
          /\ Supplemental(run.row)
          /\ files'[v][s] # files[v][s] /\ files'[v][s] # NoFile
          => files[v][r] # files'[v][s]]_vars

(***************************************************************************)
(* A completed task's subtitle is beside the task's video.                 *)
(***************************************************************************)
PlacedBesideOwnVideo ==
    \A t \in Completed : tasks[t].place.video = tasks[t].video

(***************************************************************************)
(* The loop keeps to the lifecycle of tasks, with the run's task `taken'.  *)
(***************************************************************************)
Lifecycle == INSTANCE TaskLifecycle
    WITH Tasks <- Ids, status <- [t \in Ids |-> tasks[t].status],
         taken <- {run.task} \ {NoId}

LoopLifecycle == Lifecycle!Spec

(***************************************************************************)
(* Every task comes to an end: however many providers fail and however     *)
(* many candidates are rejected, a run does not go round for ever.  (The   *)
(* deletion of the task under way may end the processing worker, as        *)
(* queue_worker_dies shows.)                                               *)
(***************************************************************************)
EveryRunEnds ==
    \A t \in Ids :
        tasks[t].status \in InFlightTaskStatuses
            ~> tasks[t].status \notin InFlightTaskStatuses \/ budget.deletes # 0
=============================================================================
