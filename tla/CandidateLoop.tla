---------------------------- MODULE CandidateLoop ----------------------------
(***************************************************************************)
(* process_video_task and _process_candidate_batch (orchestrator.py): the  *)
(* processing worker takes a task through a cached bundle and then the     *)
(* candidates of one provider after the other, until one of them is placed *)
(* beside the video or the budget of attempts is used up; a retry leaves   *)
(* out what the tasks before it have tried.                                *)
(*                                                                         *)
(* The run's session keeps its own view of its rows and commits it only    *)
(* before slow work (a search, a download, a synchronisation) and at its   *)
(* end: what it has written since is lost when the process crashes, what   *)
(* it has put in the file system is not.  From its first write to its next *)
(* commit it holds SQLite's write lock, so that others write only while it *)
(* searches, downloads or synchronises.  How tasks wait for their turn and *)
(* which failures are retried is TaskQueue.                                *)
(*                                                                         *)
(* A subtitle is abstracted to its text, and a file to its text and        *)
(* whether it was synchronised.  All videos are episodes of one season of  *)
(* one series, with a language and a format in common, and no subtitles    *)
(* but the service's.                                                      *)
(***************************************************************************)
EXTENDS TaskStatus, TaskIds, SequencesExt

CONSTANTS
    Videos,
    Candidates,       \* what providers offer
    Providers,
    Offers,           \* Offers[p]: the candidates provider p may return
    Texts,
    Text,             \* Text[c][v]: what c holds for video v, or NoText
    Packs,            \* the candidates of more than one file
    Key, CacheKey,    \* candidate_identity of a candidate, and of its cached copy
    NoText, NoKey, NoCandidate,
    MaxAttempts,      \* settings.subtitles.max_candidate_attempts
    ChainLimit,       \* how many tasks before a retry are looked at (50)
    SyncEnabled,      \* settings.sync.enabled
    SaveUnsynced,     \* settings.subtitles.save_unsynced_on_sync_failure
    Overwrite,        \* settings.subtitles.overwrite
    MaxExtras,        \* bound on the additional subtitles of a video
    JobSources,       \* where new tasks come from
    MaxAdds, MaxCrashes, MaxDeletes   \* bounds on what the environment does

ASSUME LoopAssumption ==
    /\ Videos # {}
    /\ Offers \in [Providers -> SUBSET Candidates]
    /\ Text \in [Candidates -> [Videos -> Texts \cup {NoText}]]
    /\ Packs \subseteq Candidates
    /\ NoText \notin Texts /\ NoCandidate \notin Candidates
    /\ JobSources \subseteq EntrySources
    /\ {MaxAttempts, ChainLimit, MaxExtras, MaxAdds, MaxCrashes, MaxDeletes} \subseteq Nat
    /\ {SyncEnabled, SaveUnsynced, Overwrite} \subseteq BOOLEAN

VARIABLES
    tasks,        \* the table: tasks with their candidate rows and artifact
    run,          \* the processing worker's run, as its session sees it
    files,        \* the subtitle files beside each video
    bundles,      \* the pack whose member for a video is in the bundle cache
    service,      \* "up", "stuck" (its processing worker has ended) or "down"
    fetched,      \* history: the identities really downloaded for each task
    chain,        \* history: the tasks before each task, as they were made,
                  \* while none of them was deleted
    budget        \* how many additions, crashes and deletions happened

world == <<files, bundles>>
history == <<fetched, chain>>
vars == <<tasks, run, world, service, history, budget>>

Main == 0                    \* <video>.<language>.default.<format>
Slots == 0..MaxExtras        \* and <video>.<language>.extra-<n>.<format>

File(text, synced) == [text |-> text, synced |-> synced]
NoFile == File(NoText, FALSE)

Place(video, slot) == [video |-> video, slot |-> slot]
SomeVideo == CHOOSE v \in Videos : TRUE
NoPlace == Place(SomeVideo, MaxExtras + 1)

\* One row of subtitle_candidates: its identity, and its text once known.
Attempt(key, text) == [key |-> key, text |-> text]

\* A candidate of a batch, from a provider or from the bundle cache.
Offer(c, cached) == [candidate |-> c, cached |-> cached]
OfferKey(o) == IF o.cached THEN CacheKey[o.candidate] ELSE Key[o.candidate]

NewTask(status, video, source, parent) ==
    [status |-> status, video |-> video, source |-> source, parent |-> parent,
     checked |-> FALSE, attempts |-> <<>>, place |-> NoPlace]

NoTask == NewTask("absent", SomeVideo, "auto-retry", NoId)

NoRun ==
    [task |-> NoId, pc |-> "idle", row |-> NoTask, lost |-> FALSE, left |-> {},
     batch |-> {}, used |-> 0, offer |-> Offer(NoCandidate, FALSE),
     stage |-> "queued", attempts |-> <<>>, synced |-> FALSE, existing |-> {},
     known |-> {}, place |-> NoPlace]

Init ==
    /\ tasks = [t \in Ids |-> NoTask]
    /\ run = NoRun
    /\ files = [v \in Videos |-> [s \in Slots |-> NoFile]]
    /\ bundles = [v \in Videos |-> NoCandidate]
    /\ service = "up"
    /\ fetched = [t \in Ids |-> {}]
    /\ chain = [t \in Ids |-> {}]
    /\ budget = [adds |-> 0, crashes |-> 0, deletes |-> 0]

-----------------------------------------------------------------------------
(* Queries.                                                                *)

Supplemental(row) == row.source \in SupplementalSources

HasSubtitle(v) == \E s \in Slots : files[v][s] # NoFile

InFlight(v) == {t \in Ids : tasks[t].status \in InFlightTaskStatuses /\ tasks[t].video = v}

Existing == {t \in Ids : Exists(tasks, t)}

\* S has `parent', and with a task the one it retried, as far as they exist.
UpFrom(parent, S) == ({parent} \cup {tasks[t].parent : t \in S}) \cap Existing \subseteq S

\* The least such set: what a walk up the retries from `parent' comes to.
Behind(parent) ==
    {t \in Existing : \A S \in SUBSET Existing : UpFrom(parent, S) => t \in S}

\* (mutant) Only the task that is retried, not those it retried itself.
ParentOnly(parent) == {parent} \cap Existing

(***************************************************************************)
(* The tasks a retry of `parent' has behind it: retry_of_task_id, then     *)
(* retry_parent_task_id, up to the first that is not there any more, and   *)
(* no more than ChainLimit of them.  A retry has a greater identifier than *)
(* what it retries, so the walk meets the greater ones first.              *)
(***************************************************************************)
Ancestors(parent) ==
    {t \in Behind(parent) :
        Cardinality({u \in Behind(parent) : u > t}) < ChainLimit}

Attempted(ids) == UNION {ToSet(tasks[t].attempts) : t \in ids}

KeysOf(attempts) == {a.key : a \in attempts} \ {NoKey}
TextsOf(attempts) == {a.text : a \in attempts} \ {NoText}

\* _exclude_previous_retry_candidates, by identity.
Admissible(offers, parent) ==
    {o \in offers : OfferKey(o) \notin KeysOf(Attempted(Ancestors(parent)))}

PlacedText(row) == Last(row.attempts).text

\* (mutant) Only those of other seasons.
OtherSeasonsTexts(video) == {}

\* find_completed_episode_content_duplicate
EpisodeTexts(video) ==
    {PlacedText(tasks[t]) : t \in {u \in Ids : /\ tasks[u].status = "completed"
                                               /\ tasks[u].video # video}}

-----------------------------------------------------------------------------
(* Tasks come and go around the run.                                       *)

\* The run holds no write lock.
Unlocked ==
    \/ run.pc \in {"idle", "search", "download", "sync"}
    \/ run.pc = "next" /\ run.stage = "queued"

Spend(what, bound) ==
    /\ budget[what] < bound
    /\ budget' = [budget EXCEPT ![what] = @ + 1]

InsertTask(t, row, before) ==
    /\ Unlocked
    /\ IsNextId(tasks, t)
    /\ tasks' = [before EXCEPT ![t] = row]
    /\ chain' = [chain EXCEPT ![t] = IF row.parent = NoId \/ run.task = t THEN {}
                                     ELSE {row.parent} \cup chain[row.parent]]
    /\ UNCHANGED <<run, world, service, fetched>>

AddTask(t, video, source) ==
    /\ service # "down"
    /\ Spend("adds", MaxAdds)
    /\ InsertTask(t, NewTask("queued", video, source, NoId), tasks)

PendingAutoRetries(video, except) ==
    {t \in InFlight(video) \ {except} : /\ tasks[t].status = "queued"
                                        /\ tasks[t].source = "auto-retry"}

WithoutPendingAutoRetries(video, except) ==
    [t \in Ids |-> IF t \in PendingAutoRetries(video, except)
                   THEN [tasks[t] EXCEPT !.status = "skipped_existing_subtitle"]
                   ELSE tasks[t]]

(***************************************************************************)
(* _create_retry_task for task o: refused while a task of the same video   *)
(* is in flight, unless the newest one is an automatic retry that waits.   *)
(***************************************************************************)
RetryTask(t, o) ==
    LET video == tasks[o].video
        rivals == IF tasks[o].status \in TerminalTaskStatuses
                  THEN InFlight(video) \ {o} ELSE InFlight(video)
    IN  /\ service # "down"
        /\ Exists(tasks, o)
        /\ rivals # {} => (CHOOSE r \in rivals : \A q \in rivals : q <= r)
                             \in PendingAutoRetries(video, NoId)
        /\ InsertTask(t, NewTask("queued", video, "manual-retry", o),
                      IF rivals = {} THEN tasks ELSE WithoutPendingAutoRetries(video, o))
        /\ UNCHANGED budget

\* _create_auto_retry_child, once its delay has passed.
AutoRetry(t, o) ==
    /\ service = "up"
    /\ tasks[o].status \in FailedTaskStatuses
    /\ InFlight(tasks[o].video) = {}
    /\ \A u \in Ids : ~(tasks[u].parent = o /\ tasks[u].source = "auto-retry" /\ Exists(tasks, u))
    /\ InsertTask(t, NewTask("queued", tasks[o].video, "auto-retry", o), tasks)
    /\ UNCHANGED budget

\* Preflight: a task that does not look for a further subtitle ends if there is one.
Preflight(t) ==
    /\ service # "down"
    /\ tasks[t].status = "queued" /\ ~tasks[t].checked
    /\ Unlocked
    /\ tasks' = IF HasSubtitle(tasks[t].video) /\ ~Supplemental(tasks[t])
                THEN [tasks EXCEPT ![t].status = "skipped_existing_subtitle"]
                ELSE [tasks EXCEPT ![t].checked = TRUE]
    /\ UNCHANGED <<run, world, service, history, budget>>

(***************************************************************************)
(* _delete_task, of a task in any status: the subtitle of a completed task *)
(* goes with it, if asked for, when it is beside the task's video.         *)
(***************************************************************************)
DeleteTask(t, withSubtitles) ==
    LET row == tasks[t]
    IN  /\ service # "down"
        /\ Exists(tasks, t)
        /\ Unlocked
        /\ Spend("deletes", MaxDeletes)
        /\ files' = IF withSubtitles /\ row.status = "completed" /\ row.place.video = row.video
                    THEN [files EXCEPT ![row.video][row.place.slot] = NoFile]
                    ELSE files
        /\ tasks' = [tasks EXCEPT ![t] = NoTask]
        /\ run' = IF run.task = t THEN [run EXCEPT !.lost = TRUE, !.attempts = <<>>] ELSE run
        /\ fetched' = [fetched EXCEPT ![t] = {}]
        /\ chain' = [u \in Ids |-> IF t \in {u} \cup chain[u] THEN {} ELSE chain[u]]
        /\ UNCHANGED <<bundles, service>>

Crash ==
    /\ service # "down"
    /\ Spend("crashes", MaxCrashes)
    /\ service' = "down"
    /\ run' = NoRun
    /\ UNCHANGED <<tasks, world, history>>

\* recover(): what was active is interrupted, what is queued is preflighted anew.
Restart ==
    /\ service = "down"
    /\ service' = "up"
    /\ tasks' = [t \in Ids |-> [tasks[t] EXCEPT
                                  !.checked = FALSE,
                                  !.status = IF @ \in ActiveTaskStatuses THEN "interrupted" ELSE @]]
    /\ UNCHANGED <<run, world, history, budget>>

-----------------------------------------------------------------------------
(* The run.                                                                *)

Video == run.row.video

\* The session's view of the task's row, as a commit would leave the table.
Committed(status, attempts, place) ==
    [tasks EXCEPT ![run.task].status = status,
                  ![run.task].attempts = attempts,
                  ![run.task].place = place]

\* The rows the run writes next are gone.  (Between two candidates that is the
\* task's, and a task that has its identifier now will do.)
Orphaned ==
    /\ run.lost
    /\ run.pc \in {"download", "sync"} \/ ~Exists(tasks, run.task)

\* (mutant) One attempt too many.
BudgetLeftOffByOne == run.used <= MaxAttempts

BudgetLeft == run.used < MaxAttempts

\* (mutant) The cached copy does not count.
UsedByDownload(o) == IF o.cached THEN run.used ELSE run.used + 1

UsedBy(o) == run.used + 1

\* A batch of offers, less what the tasks before this one have tried.
StartBatch(offers, row) ==
    [batch |-> Admissible(offers, row.parent),
     known |-> TextsOf(Attempted(Ancestors(row.parent)))]

\* find: the cached copy for the video, which may be filtered or gone.
CachedOffers(video) ==
    IF bundles[video] = NoCandidate THEN {}
    ELSE {{}, {Offer(bundles[video], TRUE)}}

\* (mutant) Whatever preflight has passed on.
MayBeginChecked(row) == row.checked

\* _process_one looks at the status once, before its thread starts.
MayBegin(row) == row.status = "queued" /\ row.checked

(***************************************************************************)
(* process_video_task up to its first batch, the cached copy's.            *)
(***************************************************************************)
Begin(t) ==
    LET row == tasks[t]
        cached == CachedOffers(row.video)
    IN  /\ service = "up" /\ run = NoRun
        /\ MayBegin(row)
        /\ \E offers \in cached \cup {{}} :
              run' = [NoRun EXCEPT
                        !.task = t, !.pc = "next", !.row = row, !.left = Providers,
                        !.attempts = row.attempts,
                        !.batch = StartBatch(offers, row).batch,
                        !.known = StartBatch(offers, row).known,
                        !.existing = IF Supplemental(row)
                                     THEN {s \in Slots : files[row.video][s] # NoFile}
                                     ELSE {},
                        !.stage = IF offers = {} THEN "queued" ELSE "searching"]
        /\ UNCHANGED <<tasks, world, service, history, budget>>

\* The stage is set and committed before the first provider is asked.
SearchStarts ==
    /\ run.pc = "next" /\ run.batch = {} /\ BudgetLeft
    /\ run.left = Providers /\ run.left # {} /\ ~Orphaned
    /\ run' = [run EXCEPT !.pc = "search", !.stage = "searching", !.lost = FALSE]
    /\ tasks' = Committed("searching", run.attempts, NoPlace)
    /\ UNCHANGED <<world, service, history, budget>>

\* Before the others what is left to commit is; of rows that are gone, nothing.
SearchGoesOn ==
    /\ run.pc = "next" /\ run.batch = {} /\ BudgetLeft
    /\ run.left # Providers /\ run.left # {}
    /\ run' = [run EXCEPT !.pc = "search"]
    /\ tasks' = IF run.lost THEN tasks ELSE Committed(run.stage, run.attempts, NoPlace)
    /\ UNCHANGED <<world, service, history, budget>>

\* (mutant) A provider that has answered is asked again.
SearchForgetsProvider(p) ==
    /\ run.pc = "search" /\ p \in run.left
    /\ \E found \in SUBSET Offers[p] :
         LET start == StartBatch({Offer(c, FALSE) : c \in found}, run.row)
         IN  run' = [run EXCEPT !.pc = "next", !.batch = start.batch, !.known = start.known]
    /\ UNCHANGED <<tasks, world, service, history, budget>>

\* A provider's candidates that match, or nothing, also when it has failed.
SearchReturns(p) ==
    /\ run.pc = "search" /\ p \in run.left
    /\ \E found \in SUBSET Offers[p] :
         LET start == StartBatch({Offer(c, FALSE) : c \in found}, run.row)
         IN  run' = [run EXCEPT !.pc = "next", !.left = @ \ {p},
                                !.batch = start.batch, !.known = start.known]
    /\ UNCHANGED <<tasks, world, service, history, budget>>

(***************************************************************************)
(* The best of the batch that is left, its row recorded and committed      *)
(* before the download.  A run whose task is gone goes on with the task    *)
(* that has its identifier now.                                            *)
(***************************************************************************)
TryCandidate(o) ==
    LET attempts == Append(run.attempts, Attempt(OfferKey(o), NoText))
    IN  /\ run.pc = "next" /\ ~Orphaned
        /\ o \in run.batch /\ BudgetLeft
        /\ run' = [run EXCEPT !.pc = "download", !.lost = FALSE, !.used = UsedBy(o),
                              !.batch = @ \ {o}, !.offer = o, !.synced = FALSE,
                              !.stage = "downloading", !.attempts = attempts]
        /\ tasks' = Committed("downloading", attempts, NoPlace)
        /\ fetched' = IF o.cached THEN fetched
                      ELSE [fetched EXCEPT ![run.task] = @ \cup ({OfferKey(o)} \ {NoKey})]
        /\ UNCHANGED <<world, service, chain, budget>>

OfferText == Text[run.offer.candidate][Video]

\* The attempts, with the text of the candidate that has been read.
AttemptsRead == [run.attempts EXCEPT ![Len(run.attempts)].text = OfferText]

\* The download fails, or the pack has no member for the episode.
DownloadFails ==
    /\ run.pc = "download" /\ ~Orphaned
    /\ \/ run' = [run EXCEPT !.pc = "next"]
       \/ OfferText = NoText /\ run' = [run EXCEPT !.pc = "next", !.stage = "validating"]
    /\ UNCHANGED <<tasks, world, service, history, budget>>

\* What is read is a duplicate, or not a valid subtitle.
ContentRejected ==
    /\ run.pc = "download" /\ ~Orphaned
    /\ OfferText # NoText
    /\ run' = [run EXCEPT !.pc = "next", !.stage = "validating", !.attempts = AttemptsRead]
    /\ UNCHANGED <<tasks, world, service, history, budget>>

\* (mutant) What the tasks before this one had does not count.
IsEpisodeDuplicate == OfferText \in EpisodeTexts(Video)

IsDuplicate == OfferText \in EpisodeTexts(Video) \cup run.known

ContentAccepted ==
    /\ run.pc = "download" /\ ~Orphaned
    /\ OfferText # NoText
    /\ ~IsDuplicate
    /\ IF SyncEnabled
       THEN /\ run' = [run EXCEPT !.pc = "sync", !.stage = "syncing", !.attempts = AttemptsRead]
            /\ tasks' = Committed("syncing", AttemptsRead, NoPlace)
       ELSE /\ run' = [run EXCEPT !.pc = "place", !.stage = "validating",
                                  !.attempts = AttemptsRead]
            /\ UNCHANGED tasks
    /\ UNCHANGED <<world, service, history, budget>>

SyncSucceeds ==
    /\ run.pc = "sync" /\ ~Orphaned
    /\ run' = [run EXCEPT !.pc = "place", !.synced = TRUE]
    /\ UNCHANGED <<tasks, world, service, history, budget>>

\* The unsynchronised subtitle is good enough, if the settings say so.
SyncFails ==
    /\ run.pc = "sync" /\ ~Orphaned
    /\ \/ run' = [run EXCEPT !.pc = "next"]
       \/ SaveUnsynced /\ run' = [run EXCEPT !.pc = "place"]
    /\ UNCHANGED <<tasks, world, service, history, budget>>

-----------------------------------------------------------------------------
(* Placement, all of it under the write lock.                              *)

\* store: a pack's members, each for its episode, unless it came from the cache.
Stored ==
    LET c == run.offer.candidate
    IN  IF run.offer.cached \/ c \notin Packs THEN bundles
        ELSE [v \in Videos |-> IF Text[c][v] # NoText THEN c ELSE bundles[v]]

Result == File(OfferText, run.synced)

\* (mutant) Compared with the main subtitle only.
IsMainSubtitle(file) == Supplemental(run.row) /\ files[Video][Main] = file

\* Compared with what was there when the run began, and is still there.
AlreadyThere(file) ==
    Supplemental(run.row) /\ \E s \in run.existing : files[Video][s] = file

FreeExtras == {s \in Slots \ {Main} : files[Video][s] = NoFile}

\* _supplemental_subtitle_path
Target ==
    IF Supplemental(run.row) THEN {s \in FreeExtras : \A r \in FreeExtras : s <= r}
    ELSE {Main}

\* (mutant) As it was when the run began.
WasOccupied(slot) == slot \in run.existing

Occupied(slot) == files[Video][slot] # NoFile

PlaceSkips ==
    /\ run.pc = "place" /\ AlreadyThere(Result)
    /\ bundles' = Stored
    /\ run' = [run EXCEPT !.pc = "next"]
    /\ UNCHANGED <<tasks, files, service, history, budget>>

\* Storing the pack or writing the subtitle fails, or the place is taken.
PlaceFails ==
    /\ run.pc = "place"
    /\ \/ /\ ~AlreadyThere(Result)
          /\ bundles' = Stored
          /\ run' = [run EXCEPT !.pc = "next", !.stage = "placing"]
       \/ /\ Stored # bundles
          /\ UNCHANGED bundles
          /\ run' = [run EXCEPT !.pc = "next"]
    /\ UNCHANGED <<tasks, files, service, history, budget>>

\* safe_place_subtitle
PlaceSucceeds(slot) ==
    /\ run.pc = "place" /\ ~AlreadyThere(Result)
    /\ slot \in Target
    /\ Occupied(slot) => Overwrite
    /\ bundles' = Stored
    /\ files' = [files EXCEPT ![Video][slot] = Result]
    /\ run' = [run EXCEPT !.pc = "placed", !.stage = "placing", !.place = Place(Video, slot)]
    /\ UNCHANGED <<tasks, service, history, budget>>

-----------------------------------------------------------------------------
(* The end of a run.                                                       *)

\* The artifact's row, _finish_task and the session's last commit.
Completes ==
    /\ run.pc = "placed"
    /\ tasks' = Committed("completed", run.attempts, run.place)
    /\ run' = NoRun
    /\ UNCHANGED <<world, service, history, budget>>

Exhausted == ~BudgetLeft \/ (run.batch = {} /\ run.left = {})

Fails ==
    /\ run.pc = "next" /\ Exhausted /\ ~Orphaned
    /\ tasks' = IF run.lost
                THEN [tasks EXCEPT ![run.task].status = "failed"]
                ELSE Committed("failed", run.attempts, NoPlace)
    /\ run' = NoRun
    /\ UNCHANGED <<world, service, history, budget>>

(***************************************************************************)
(* The run writes a row that was deleted: the session raises.  When the    *)
(* task's identifier is used again this happens at the candidate's row,    *)
(* after the subtitle has been placed if it was being synchronised.  The   *)
(* queue then records the failure for the identifier, and its worker ends  *)
(* if there is no such task.                                               *)
(***************************************************************************)
Raises ==
    /\ Orphaned
    /\ run.pc = "next" => Exhausted \/ run.batch # {} \/ run.left = Providers
    /\ \/ UNCHANGED world
       \/ run.pc = "sync" /\ bundles' = Stored /\ UNCHANGED files
       \/ /\ run.pc = "sync" /\ Exists(tasks, run.task)
          /\ bundles' = Stored
          /\ \E slot \in Target, synced \in {TRUE, ~SaveUnsynced} :
                /\ ~AlreadyThere(File(OfferText, synced))
                /\ Occupied(slot) => Overwrite
                /\ files' = [files EXCEPT ![Video][slot] = File(OfferText, synced)]
    /\ IF Exists(tasks, run.task)
       THEN tasks' = [tasks EXCEPT ![run.task].status = "failed"] /\ UNCHANGED service
       ELSE service' = "stuck" /\ UNCHANGED tasks
    /\ run' = NoRun
    /\ UNCHANGED <<history, budget>>

-----------------------------------------------------------------------------
RunStep ==
    \/ SearchStarts \/ SearchGoesOn
    \/ \E p \in Providers : SearchReturns(p)
    \/ \E o \in run.batch : TryCandidate(o)
    \/ DownloadFails \/ ContentRejected \/ ContentAccepted
    \/ SyncSucceeds \/ SyncFails
    \/ PlaceSkips \/ PlaceFails \/ \E slot \in Slots : PlaceSucceeds(slot)
    \/ Completes \/ Fails \/ Raises

Next ==
    \/ RunStep
    \/ \E t \in Ids : Preflight(t) \/ Begin(t)
    \/ \E t \in Ids, video \in Videos, source \in JobSources : AddTask(t, video, source)
    \/ \E t, o \in Ids : RetryTask(t, o) \/ AutoRetry(t, o)
    \/ \E t \in Ids, withSubtitles \in BOOLEAN : DeleteTask(t, withSubtitles)
    \/ Crash \/ Restart

Spec == Init /\ [][Next]_vars

(***************************************************************************)
(* Fairness.  A run goes on: every search, download and synchronisation    *)
(* has a timeout.  Both workers take what waits for them, and a supervisor *)
(* starts a process that is down.  Nothing is assumed of what users do.    *)
(***************************************************************************)
FairSpec ==
    /\ Spec
    /\ WF_vars(RunStep)
    /\ WF_vars(Restart)
    /\ \A t \in Ids : WF_vars(Preflight(t))
    /\ WF_vars(\E t \in Ids : Begin(t))
=============================================================================
