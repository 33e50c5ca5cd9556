# Formal model of SubPick

SubPick is a sidecar that finds, checks, synchronises and places Chinese
subtitles for the videos of a media server. The TLA+ modules in this directory
model its core logic, the `.cfg` files check them with TLC on small instances,
and the `*Proofs.tla` modules prove the main results for every value of the
constants with TLAPS. Source paths below are relative to
`src/src/subtitle_sidecar/`.

## 1. The system

One process: a FastAPI application whose lifespan (`main.py`) starts one
`TaskQueue`. A *job* (a MoviePilot webhook or a choice of Jellyfin items) has
one *video task* per file; a retry is a new job and task that names its parent.

| Component | State | Operations | Properties that make it correct |
|---|---|---|---|
| Task queue (`queue.py`) | two in-memory queues, `_queued_task_ids`, three coroutines | enqueue, recover, start, stop, preflight, process, schedule and activate retries | no task lost, none run twice, every task ends, stop returns |
| Task store (`db/repository.py`, `db/models.py`) | `video_tasks`, jobs, events, candidates, artifacts, settings, media items | transactions | retries form chains, one per task; identifiers that come back do no harm |
| Retry policy (`retry.py`) | none | classify, decide | bounded, per category |
| Orchestrator (`pipeline/orchestrator.py`) | one task's run: candidates, attempts, files | preflight, candidate loop, exclusions, placement | the budget of attempts, no content placed twice, outcome and artifacts agree |
| Bundle cache (`pipeline/bundle_cache.py`) | a manifest and members per series and season | find, store, materialize, select | a hit is a finished copy of the member of the right episode |
| Scheduler and registry (`providers/scheduler.py`, `registry.py`) | earliest next use per provider | acquire, mark_completed, update_intervals, search_batches | each provider searched once, and not before its interval |
| Negative search cache (`providers/negative_cache.py`) | keys of searches that found nothing, with an expiry | contains, remember | never hides a search that another video needs |
| Provider adapters (`providers/*_adapter.py`) | what one run remembers (the solver whose turn it is) | queries, details, captchas, downloads | every search ends, and reports whether it was answered |
| Media identity (`media/nfo.py`, orchestrator 1350-1466) | the payload of the job | wait for, read and freeze the identity | the one the files give, and the same for the whole task |
| Synchronisation (`sync/ffsubsync.py`) | an output file | one pass per audio stream | what is placed is the output of this attempt |
| Placement (orchestrator 63-93) | the files beside a video | copy, back up, rename, remove | no half file, nothing lost |
| Jellyfin (`jellyfin/`, `api/routes.py`) | media rows, ignore flags, subtitle status | scan, ignore, refresh, tree | a scan does not undo what was decided since |
| Database session (`db/session.py`) | one writer's lock | commit, roll back, busy timeout | whoever waits for the lock gets it or fails |
| Runtime settings (`config.py`, `api/routes.py`) | JSON rows | set, patch | no lost update |
| Event stream (`api/routes.py` 214-257) | a cursor per client | poll | every event delivered once, in order |
| Scoring, validation, naming | none kept | pure functions | their results are inputs of the others |
| Diagnostics, evaluation, web interface, scripts | none of their own | reports, a client | - |

How they interact. API handlers are plain functions, so they run in the threads
of a pool, each with a database session that commits before the handler
enqueues the task it created. The event loop runs three coroutines: the
preflight worker takes tasks from a FIFO and runs `preflight_video_task` in a
thread; what needs the network goes to a priority queue, from which the
processing worker runs `process_video_task` in another; the retry worker turns
`retry_wait` tasks that are due into queued ones. The workers, the threads and
the handlers share nothing but the table and the queue's memory.

What is hard: a status is read in one transaction and overwritten in another,
by another thread; a handler deletes or cancels what a worker holds; the
outcome of a task and its retry are separate commits, and the process may stop
between any two; SQLite gives identifiers of deleted rows to new ones; a task
waits (for a metadata file, for a retry) while the service stops; settings are
saved while a search that began with the old ones goes on; files are replaced in
several steps, any of which may fail; a library changes between the pages in which
it is listed, and two scans, the worker and the user write the same rows; the files
that say what a video is are still being written when they are read. PROJECT.json
lists these at their lines under "hazards".

## 2. Modules

| Module | Models | Lines of code |
|---|---|---|
| `TaskStatus` | the vocabulary of statuses and sources | `pipeline/status.py` |
| `TaskIds` | identifiers that SQLite gives again | `db/models.py` 41 |
| `RetryPolicy` | categories, delays, the decision | `retry.py` |
| `TaskStore` | the table as a function from identifiers to rows, queries and updates as operators, `CreateAutoRetryChild` | `db/repository.py`, `db/models.py`, `queue.py` 383-463 |
| `TaskQueue` | the state machine: queue, workers, threads, handlers, process | `queue.py`, `orchestrator.py` 136-442, `api/routes.py` 429-462 and 1418-1724, `main.py` |
| `TaskLifecycle` | the abstract promise: who may change a task's status, and to what | - |
| `TaskQueueProperties` | the properties, and the refinement mapping to `TaskLifecycle` | - |
| `CandidateLoop` | one run of the processing worker over cached copy, providers and candidates, with commits, exclusions and placement, and the preflights, retries, deletions and crashes around it | `orchestrator.py` 136-1311, `pipeline/bundle_cache.py` 40-148, `pipeline/candidate_identity.py`, `providers/registry.py` 52-105, `db/repository.py` 214-455 |
| `CandidateLoopProperties` | its properties, and its refinement mapping to `TaskLifecycle` | - |
| `SearchQueries` | which queries the adapters build for a request, and the keys of the negative cache | `providers/assrt_adapter.py`, `subdl_adapter.py`, `zimuku_adapter.py`, `negative_cache.py` |
| `ProviderScheduler` | the scheduler as a record and its operations | `providers/scheduler.py` |
| `ProviderSearch` | the search of the providers by one task after the other, query by query and request by request | `providers/registry.py` and the four adapters, orchestrator 444-700 and 1313-1348, `main.py` 80-165 |
| `SubtitleFiles` | what the worker does to files, step by step, with crashes and errors between the steps | orchestrator 63-93 and 444-1069, `pipeline/bundle_cache.py`, `sync/ffsubsync.py` |
| `JellyfinMedia` | scans, refreshes and user requests on the media rows, with SQLite's one writer | `api/routes.py` 1205-1371 and 2109-2222, `jellyfin/`, `db/session.py`, `db/repository.py` 452-614 |
| `NfoIdentity` | the identity of a video: reading the NFO files, waiting for them, keeping what they said | `media/nfo.py`, orchestrator 1350-1466, `db/repository.py` |
| `ProviderSearchProperties`, `SubtitleFilesProperties`, `JellyfinMediaProperties`, `NfoIdentityProperties` | their properties | - |
| `MC...` (six modules) | the instances TLC checks | - |
| `TaskQueueProofs`, `RetryProofs`, `QueueKeepingProofs`, `CandidateLoopProofs`, `NfoIdentityProofs`, `SubtitleFilesProofs`, `ProviderSearchProofs`, `JellyfinMediaProofs` | theorems | - |

`TaskQueue` state and code. `db` is the table: a row keeps the columns the queue
decides on, plus `scheduled` (the task has a `retry_schedule` event), `due`
(`retry_at` is in the past) and `nfoOpen` (the metadata file may still arrive).
`preflightQ`, `workQ` and `queuedIds` are `_preflight_queue`, `_queue` (one FIFO
lane per priority; the sequence number of an entry makes each lane FIFO) and
`_queued_task_ids`. `preflight` and `worker` say which task a worker holds and
how far it is. `apiPending` are tasks a handler has committed and not yet
enqueued. `mode` is the process.

`CandidateLoop` state and code. `tasks` is the table with each task's candidate
rows (`attempts`) and artifact (`place`). `run` is the local state of
`process_video_task` and the uncommitted view of its session: `row` is the task
as it was read (the session keeps it, `expire_on_commit=False`), `lost` says that
its rows were deleted since. `files` and `bundles` are the file system, which a
crash does not roll back. `fetched` and `chain` are history: what has really been
downloaded for a task, and the tasks it was retried from, as long as none of these
was deleted. The two state machines
share `TaskStatus` and `TaskIds` and both implement `TaskLifecycle`: `TaskQueue`
abstracts from what a run does between its commits, `CandidateLoop` from how a
task waits, from which failures are retried and from the cancellation of
automatic retries after a success, which only gives it more behaviours.

`ProviderSearch` state and code. `stored` are the settings in the database and
`run.conf` those the task has read when it started. `sched` is the
`ProviderScheduler` all tasks share: per source the interval and the ticks until
its next use. `negative` is ASSRT's `ProviderNegativeCache`. `run` is the search
of the processing worker: the sources that are `left`, the one being searched,
the query and page it is at, the candidates of the batch, how many attempts were
used, and for Zimuku the `challenge` on the screen, the `rounds` for this page,
the solver whose `turn` it is and the `timeouts` so far. `reports` is what
`_search_failure_reason` decides on. `misses`, `owed`, `run.truth` and `run.asked`
are history: when a query last found nothing, the rest a source was due, whether a
search was answered or broken off, and which solvers have seen a page.

`SubtitleFiles` state and code. `work` is the download directory of the task
(`download`, and the `output` of ffsubsync), `packed` and `manifest` are the season
cache, `media` the subtitles and the `.bak` beside each video; a file is its text
and whether it is written in part, whole, or synchronised. `run` is the worker.
`latest` and `reborn` are history: what was last published for a video, and which
identifiers were given to a second task.

`JellyfinMedia` state and code. `rows` is the committed table; `txn` is the
transaction that holds SQLite's lock with the table as it sees it. `library`,
`noticed` and `disk` are what Jellyfin has, what it has noticed beside its
videos, and what is there. `scan[s]` is a scanning request: the page it is at, the
items listed, those `left` to write. `worker` is the processing worker from the
stage `placing` on. A request that is answered in parts takes the items by their
`Rank`, the number of items with an earlier name (`Slice`): the pages of Jellyfin
and the rows the tree is made of. A film or an episode has a path.

`NfoIdentity` state and code. `files` are `movie.nfo`, the NFO file with the name
of the video and `tvshow.nfo`; a file half written is malformed. `age` is that of
MoviePilot's job, `preflight` the thread that reads or the wait that sleeps.
`payload` is what the job keeps and its retries inherit. `searched` and
`preflight.touched` are history: what each task has worked with, and which files
were written while the preflight read.

Composition. The modules share `TaskStatus` and `TaskIds`, and each takes the
others' results as choices: what `ProviderSearch` decides about a search is the
outcome of a search in `CandidateLoop`; what `SubtitleFiles` does in steps is
`CandidateLoop`'s placement, whole or failed; `JellyfinMedia` begins where that
placement begins; `NfoIdentity` is the preflight of `TaskQueue` seen from inside.
The choices are at least as free as what the detailed module can bring about, so a
property of the coarser one does not rest on the finer one.

Granularity. What a coroutine does between two awaits is one action. A processor
or preflight thread takes one action per commit: the preflight has a single
transaction; the processor commits whenever it releases the database lock
before slow work, with the stage it is in. Handlers commit in one action and
enqueue in another, and anything may happen between them. In `CandidateLoop` a
search, a download and a synchronisation begin with a commit and end in another
action; between them others may write only until the run writes first
(`Unlocked`), since SQLite has one writer. In `ProviderSearch` a request to a
site is one action; in `SubtitleFiles` every system call that changes a file
others can see is one, except a write to a temporary file that is renamed
afterwards; in `JellyfinMedia` a page, the look at an item and the write of a row
are one each; in `NfoIdentity` the reading of a file is.

Abstractions. In the queue, time is two flags that turn true (a retry comes due,
the metadata window closes): the lengths of the delays decide no property there,
only whether the first is zero. `ProviderSearch` and `NfoIdentity`, where lengths
do decide, count ticks. An error message is its retry category. The bundle cache
probe answers either way, except for manual retries, which always count as hits.
The queue is the one `main.py` builds, with `search_interval_seconds` 0.
The ranking of candidates is any order, a mismatch or an invalid subtitle any
outcome. In `CandidateLoop` `safe_place_subtitle` succeeds or fails as a whole;
`SubtitleFiles` has its steps. All videos of `CandidateLoop` are episodes of one season with one language and format, where
duplicates, packs and the names of subtitles can collide.
A turn of the retry loop with several due tasks is several actions, which
nothing can tell apart. Events are kept only as `scheduled`.
What a site answers, and how many candidates, is a choice; a candidate of
`ProviderSearch` is only counted. The path of an item is shared with Jellyfin,
mapped or missing. An NFO file is its root element, its title with the year, and its season
and episode: the other fields take the same way as these.

## 3. Runs

Bounds are CONSTANTS spent by the environment's actions (`budget`); the service
itself is bounded only by `MaxTaskId`, chosen in each run of the queue above what
the budget can create, so that no run lacks an identifier.

| Run | Bounds | Shows |
|---|---|---|
| `queue_faults` | 1 new MoviePilot task, 1 manual retry, 1 crash, 1 stop, chains of 1 automatic retry | types; active tasks are held; no queued task is forgotten; no task is preflighted and processed at once; the lifecycle is implemented; a manual retry replaces automatic ones; every task ends (after a retryable failure and after an unclassified one); `stop()` returns |
| `queue_deletion` | 2 new tasks of one path, 1 manual retry, 1 deletion of one or all, chains of 1 | queue bookkeeping; retry chains over reused identifiers; one automatic retry per task; no retryable failure dropped |
| `queue_crash_loses_retry` | 1 task, 1 crash | *violated*: the retry of a failure is lost by a crash |
| `queue_worker_dies` | 1 task, 1 deletion | *violated*: deleting a running task ends the worker |
| `queue_cancel_race` | 2 tasks | *violated*: a cancelled retry is overwritten |
| `loop_retries` | 1 new task and its retries up to 3 tasks, 1 crash, a pack and a subtitle with the pack's text, budget of attempts 2 | types; the budget of attempts over cache and providers; no download again along a chain; a retry's text is new |
| `loop_deletion` | 2 episodes, 2 tasks of either source, a pack and a candidate with its texts exchanged, budget of attempts 1, 1 deletion, 1 crash | no subtitle overwritten or doubled; no text for two episodes; the lifecycle is implemented; every run ends |
| `loop_wrong_video` | 2 episodes, 2 tasks, a pack and a single subtitle, unsynchronised ones allowed, 1 deletion, 1 crash | *violated*: a run goes on with the task that got its identifier |
| `search_sources` | 2 tasks for two episodes, 1 change between 3 settings (no source; Zimuku and SubDL without a key; ASSRT, Subliminal and SubDL with keys), intervals of 1 tick, negative answers kept for 2, 2 captcha solvers, batches and pages of 1, 2 attempts | a source rests between searches; no useful query is skipped; a task gives up only after all its sources and names the right reason; a page is rejected only after all solvers; every search ends |
| `files_faults` | 2 episodes, a pack and a single file, 2 identifiers, 1 crash or error, 1 deletion, 2 audio streams, two settings | published and cached files are whole and right; with a backup the last subtitle is never lost; what is placed as synchronised is this attempt's; nothing is overwritten that should not be |
| `media_scans` | a series of two episodes, pages of 2, 2 scans at once, 1 placement, 1 change of the library, 1 request of the user, 1 crash | rows are removed only with reason; no write of another is taken back; a series shown complete is; scans and refreshes end |
| `nfo_waits` | windows of 2 and 1 steps, 2 files written, a task and its retry, 1 crash, 2 titles, 2 episode numbers | one identity per task; the one the files give; every wait ends |

Why the bounds are enough. The hazards of the queue need at most two tasks of the
same path and one event of each kind; a second crash or stop starts from a table
that one crash already reaches. One path is enough because tasks of different paths
meet only in the queues, where the path plays no part, and no update touches rows of
another path; the proofs hold for any number of paths. Crashes are left out
where `RetryableFailureIsScheduled` is checked, because a crash violates it (the
first violation run), and deletions where `NoQueuedTaskForgotten`,
`EveryTaskEnds` and `StopReturns` are, because a deletion can end the worker
(the second one).

The candidate loop needs three tasks for a chain that a look at the parent alone
would get wrong, two texts and two identities of one text for the exclusions, two
episodes for packs, and a budget smaller than the number of candidates. A retry
looks at no more than `ChainLimit` tasks before it: 50 in the code, 2 here, which is
all that a chain of three tasks has. `loop_retries` has no deletions, to stay small;
the proofs of its properties allow any number of them.

`search_sources` needs a second task to meet the cooldown and the memory the first
one left, a query that two episodes share and one that they do not, settings that
are replaced while a search runs, a time to live longer than an interval, and a
second solver behind one that is wrong each time. Between them the settings have every
source, with and without its key, and one more source behind it. Attempts may run
out (2) or not. `files_faults`
needs one fault, since the state after a second one is that after a task that
found the files the first one left; a second episode, so that a pack can be taken
for the wrong one; and one deletion to bring an identifier back. The two
settings differ in all that placement asks for. The episodes, with the pack's files
for them, may change places, which no definition can tell, so they are a symmetry; liveness is
not checked there. `media_scans` has a page that is shifted when an item leaves, an
episode on a shared path and one on a mapped path, and enough writers that two
wait for the lock while a third holds it. `nfo_waits` has an age before, between and
after the two windows, and a file written again after it was read.

Deadlock. It is checked where the service can always go on: in the queue
(`RetryPoll` is enabled while it runs, and a stopped one can be started) and in
`search_sources` (time passes). In `CandidateLoop`, `SubtitleFiles`,
`JellyfinMedia` and `NfoIdentity` nothing is left to do once every task and request
has ended and the budgets are spent, so their runs say `CHECK_DEADLOCK FALSE`; what
a deadlock there could mean, a run that hangs, is excluded by `EveryRunEnds`,
`EveryWriterEnds` and `EveryWaitEnds`. `SubtitleFiles` has no liveness of its own:
its steps are `CandidateLoop`'s.

Fairness (`FairSpec`). Weak fairness of each coroutine step (the event loop is
fair), of the end of each thread (every wait in it has a timeout), of the
passing of time, of a handler that has committed, and of `Start` (a supervisor
restarts the process: the compose file says `restart: unless-stopped`). None for
users, failures, crashes or stops, and none for particular outcomes of a thread.
In `CandidateLoop`: weak fairness of the run, of each task's preflight, of the
worker that takes the next task, and of the restart. In `ProviderSearch`: of the
search's steps as a whole, whichever answer a site gives, and of time. In
`JellyfinMedia`: of each scan's and the worker's steps, the timeout of a wait for the lock among
them, but not of a failing request. In `NfoIdentity`: of the preflight, of each
task's later steps and of time, but not of MoviePilot, which may leave a file half
written for ever.

## 4. Findings

1. A crash after the commit of a failure and before `queue.py` 284 loses its
   automatic retry: `recover()` considers active, due and queued tasks only.
2. Deleting a running task ends the processing coroutine: `_record_processor_failure`
   raises inside the except clause (`queue.py` 285-304), the item is never
   counted and nothing is processed until a restart, which `stop()` then cannot
   reach.
3. A retry cancelled because its path succeeded is overwritten by the thread that
   already holds it: neither `preflight_video_task` nor `process_video_task`
   looks at the status again.
4. A task deleted while a provider is searched (or between its first read and its
   first write) is replaced in the run by the next new task, which gets the same
   identifier: that task is completed with a subtitle of the old task's video.

Met while modelling, and described here without a run of their own; the models do
what the code does.

* `docs/providers/zimuku.md` 46-49 says that Anti-Captcha is asked when MoviePilot's
  OCR cannot answer. The chain goes on after a `ZimukuError` only; the error of a
  service that cannot be reached (`zimuku_adapter.py` 162-175, 202) escapes it
  (`SolverUnreachable`).
* The README of the repository (90) promises the refreshed status of an item after a
  placement. The refresh (`orchestrator.py` 1528) takes Jellyfin's path without the
  resolver, so that an item on a mapped path becomes `path_missing`;
  `NoLostUpdate` exempts that item.
* The README of the repository (120-122) says that incomplete season and episode
  numbers are waited for. `nfo_episode_identity_incomplete` is not in the list of
  errors a task waits for (`orchestrator.py` 1367, `WaitedFor`).
* `set_setting` writes a whole value that was read earlier (`db/repository.py` 118),
  also after a network call; a patch in between is lost.
* The tree of a library is made of its first 2000 rows by name
  (`get_jellyfin_library_tree`, `api/routes.py` 1307). In a larger one a series
  whose missing episodes come behind these rows is shown as complete; hence the
  hypothesis of `CompleteShown` in section 5.
* The event stream (`api/routes.py` 214) goes by identifier, and SQLite gives
  the identifiers of deleted events again.
* A retry looks for what was tried before in the 50 tasks before it at most
  (`orchestrator.py` 1207), and no further than to a task that was deleted. What
  older tasks of the chain have had it may download once more; hence `Traced`, and
  the definition of `chain`, in the properties of `CandidateLoop`.

## 5. Proofs

Assumptions are the types of the constants, and beyond that:

* `LoopAssumption`: there is a video.
* `NfoAssumption`: the shorter of the two windows is no longer than the other.
* `FilesAssumption`: `MaxExtras >= MaxIds + MaxDeletes + MaxFaults`. The code counts
  the names `.extra-1`, `.extra-2` ... up without a limit
  (`_supplemental_subtitle_path`, orchestrator 2042), the model has a last one; `Room`
  proves that so many are enough for a free one to be found.
* `SearchAssumption`: a source is named once in the order of the settings, there is a
  captcha solver, and no more than `CaptchaRounds` (3) of them. The code asks Zimuku
  for a page three times, and configures MoviePilot's OCR, Anti-Captcha or both
  (`zimuku_adapter.py` 359-368).
* `MediaAssumption`: no item is named twice by the order of names, and the page size
  is not 0.

The queue (`TaskQueueProofs`, `RetryProofs`, `QueueKeepingProofs`):

* `TypeCorrect` (`TypeOK`), action by action. The bound on `count` is the part that
  is not immediate: it comes from `RetryAllowed`.
* `ActiveTaskIsRunning` (`ActiveIsHeld`), inductive with `TypeOK`. The steps fall
  into three kinds: moves of the table that no runner makes, writes by the thread
  that holds the task, and the recovery at a start, when nothing runs.
* `RefinesLifecycle` (`LifecycleSpec`). The invariant is strengthened by
  `DownIsIdle`: when the process is down neither worker holds a task, so the
  interruption at the next start finds no runner left.
* `RetryLineageHolds` and `AutoRetriedOnce` (`RetryLineage`, `OneAutoRetryPerTask`),
  together by one induction on `Chained`: the lineage, that an automatic retry has
  a parent, and that a parent without a `retry_schedule` event has no automatic
  child. Operations that keep rows keep it (`Keeps`), and inserts take an identifier
  above every row (`IsNextId`), so no row can name the new one as its parent.
* `QueuedExactlyOnce` (`QueuedOnce`), with `Books` and `DownIsEmpty`. To the property
  `Books` adds that the task in the preflight's hands is in `_queued_task_ids` too;
  without that the induction cannot exclude that `enqueue()` takes it a second time. `DownIsEmpty`
  says that nothing is in memory when the next start fills it.
* `NeverConcurrent` (`NoConcurrentRun`) and `NothingForgotten`
  (`NoQueuedTaskForgotten`), where `MaxDeletes = 0`; the second also needs
  `RecoverOnStart`. `Placed` is about the tasks a handler has yet to enqueue, those
  the queue knows, and the one the worker has: each is in one of the three places
  only, is in the table, and does not wait for its retry. So whatever is enqueued is
  new to the queue. `Remembered` adds that a queued task has a place, and that a
  worker at the end of a task has one that is no longer queued. Deletion breaks
  `Placed`: a new task may get the identifier of one the worker still has.
* `FailuresAreScheduled` (`RetryableFailureIsScheduled`), where `MaxCrashes = 0`:
  `FailuresInHand` says which worker has a failure that nobody has looked at, and
  `StopsClean` that an orderly stop leaves no active task for the next start to
  interrupt. It holds with deletions and re-used identifiers; with a crash the run
  `queue_crash_loses_retry` shows that it does not.
* `ManualReplacesAutomatic` (`ManualRetryReplacesAutomatic`), an action property,
  from `TypeOK` alone: no step but `RetryTask` makes a manual retry.

The candidate loop (`CandidateLoopProofs`), with the inductive invariant
`IInv == TypeOK /\ Idle /\ Counted /\ InHand /\ Owned /\ Accepted /\ Kept /\
SubtitleIsKept /\ JustPlaced /\ Seen /\ Recorded /\ Linked /\ Excluded`. The steps of a
run (`RunKeepsInv`) are described once by what they do to each part of the state, the
`...Effect` lemmas, and each part of the invariant is proved from these. The steps of the others
keep it because the run does not see them (`Preflight`, inserts), or because no run
is left (`Crash`, `Restart`); a deletion is on its own (`DeleteKeepsInv`). It covers
any number of tasks, deletions, crashes and providers, and either setting of
`Overwrite`, `SyncEnabled` and `SaveUnsynced`:

* `TypeCorrect` (`TypeOK`), with the places and the texts of attempts.
* `AttemptsBounded` (`AttemptsWithinBudget`). `Counted`: a run has used at least as
  many attempts as it has written, and a queued task has none, so a run that starts
  begins at zero. A run that was cut short leaves its attempts to a task that is not
  queued again.
* `SubtitleStays` (`SubtitleIsKept`). Alone it is not inductive: one
  completed task might write over the subtitle of another. `Kept` says that no two have the same
  place, unless the setting is to overwrite, and `JustPlaced` that the run has
  its place to itself between the file and the commit: without the setting a file is
  written only where there is none, and the place of a completed task has its subtitle.
* `EpisodesDistinct` (`EpisodeTextsDistinct`), by an induction on top of `IInv`.
  `Accepted` says of the text in hand that no other episode had it; `Owned` that the run's
  video is that of its task in the table, which holds until something is
  deleted. With a deletion the run `loop_wrong_video` shows what becomes of it.
* `NothingDownloadedTwice` (`NoRepeatDownload`), an action property over chains.
  `Recorded`: what was fetched for a task is among its committed attempts, since the
  attempt is committed first. `Excluded`: none of these is in the batch of a run whose
  chain holds the task. That the run has looked at all of its chain is `Linked`:
  a chain goes from a task's parent to smaller and smaller identifiers without a
  gap. `ChainBehind` and `BehindChain` derive that it is what `UpFrom` reaches, the
  least set that is closed under parents, and `ChainSeen` that a chain of no more
  than `ChainLimit` tasks is looked at in full. The identifiers that SQLite gives
  again do no harm: a deletion empties the chains the task was in, and a run
  that has lost its task has no chain.
* `RetriesBringNewText` (`RetryBringsNewText`), an action property, from `Excluded`
  (the run knows the texts of its chain), `Accepted` (the text in hand is not one
  of them) and `Kept`.
* `SupplementsAreNew` (`SupplementIsNew`), an action property, from `Seen`: nothing was put
  beside the video since the run has looked at what is there.
* `LoopRefinesLifecycle` (`LoopLifecycle`), step by step: the invariant says that
  the task of a run is not completed and that no run is left when the service starts.

The identity (`NfoIdentityProofs`), with the inductive invariant
`Inv == Types /\ Prepared /\ Frozen /\ Reading`:

* `TypeCorrect` (`TypeOK`), from `Types` and `Prepared`. `TypeOK` is not a run's
  invariant for this reason. `Prepared` says that the task the preflight holds is
  queued, which is what keeps a task that is ready from being without an identity.
* `IdentityIsFrozen` (`IdentityFrozen`). That all a task has worked with is equal is
  not inductive: `Frozen` says that it is the task's payload, and that a task whose payload
  the preflight may still write has worked with nothing.
* `IdentityFollowsFiles` (`IdentityIsCurrent`), an action property. When the
  preflight decides, the files it read first may be several steps old: `Reading` says, for
  each place it can be at, that what it found in the files before is still what they
  say, unless one was written meanwhile.

The files (`SubtitleFilesProofs`), with the inductive invariant
`IInv == Typed /\ UnderWay /\ Cleared /\ Current /\ LatestKept /\ Room /\ Aligned /\ Packing`.
Placement is a dozen steps with a fault possible between any two, so each part
says, for a stretch of the run, what the steps behind it rely on:

* `NeverOverwritten` (`NothingOverwritten`), an action property, from `Cleared`: where
  the worker is about to put a subtitle nothing lies any more, except the one that
  is moved to the backup.
* `LatestIsKept` (`LatestKept`). It is not inductive: before the main subtitle is moved
  to the backup it has to be the one published last, which `Current` says of every
  subtitle in place.
* `WholeFiles` (`FilesAreWhole`). `Packing` is about the cache: the manifest names a
  copy that is finished, and while the worker stores a pack, which members it has
  copied; the pack it stores is not one the manifest names already, since a candidate
  that was fetched is no longer `left`. `Aligned` says that a file written in part
  is that of an identifier given twice.
* `OutputIsOwn` (`SyncedIsOwn`), from `Aligned`: the output the worker has accepted was
  made from the file this attempt has downloaded.
* `TypeCorrect` (`TypeOK`). That there is a name left for an additional subtitle is
  `Room`: every one of a video stands for a task that was begun, a deletion or a
  fault, and a run that has yet to publish leaves one of these over.

The search (`ProviderSearchProofs`), with `IInv == Typed /\ RunInv(run) /\ Resting /\ Memory`:

* `GivesUpCorrectly` (`GivesUpWithCause`). `Partition` says that the sources of the task
  are those left and those searched, and none is both; `Told` that a search that
  was answered has been reported as completed, which is why
  `all_providers_failed` is not said of it.
* `EverySolverAsked` (`RejectedAfterEverySolver`). `Rotation` measures how far a solver
  that was not asked yet is from the one whose turn it is: the nearer, the more of
  the page's images have been answered, so that after the last of three requests none is left.
* `IntervalKept` (`SourceIntervalKept`), an action property over all tasks, from
  `Resting`: the scheduler's cooldown of a source is at least the rest it is due. It
  does not hold of the source that is being searched, whose rest begins when the search ends.
* `NothingUsefulSkipped` (`NoUsefulQuerySkipped`), an action property, from `Memory`:
  what the cache has yet to remember and the age of the empty answer are together
  at most the time to live. The key has to name the query; the queries of a request
  and their keys are the definitions of `SearchQueries`.
* `TypeCorrect` (`TypeOK`), with the budget of attempts.

The media rows (`JellyfinMediaProofs`), for any library, page size and number of scans,
with `IInv`, the conjunction of `Typed`, `Owned`, `Placed`, `Keeping`, of `ScanSound` and
`SeenSound` of every scan, and of `Truthful` of the table and of the open transaction:

* `RemovedOnlyMissing` (`RemovedWasMissing`), an action property. `ScanSound` is the
  argument about the pages: as long as no page was shifted, every item that was in
  the library all the time and ranks before the next page is listed. It rests on
  lemmas about `Rank` and `Slice` (`Counting`, `PageCovers`, `EmptyPage`): the next page
  begins where the last one ended, and a page is the last one only if no item ranks
  behind it. An item that arrives pushes others behind, never forward.
* `NothingTakenBack` (`NoLostUpdate`), an action property. `Keeping` says it of the
  commit before it comes: whatever the open transaction has made of a row could be committed
  now. For a row that was read before the lock was had this needs
  `SeenSound` (what was seen of the first item is what its row said, or better) and
  `Truthful` (no table says that a file cannot be found while it was never there).
* `CompleteShown` (`CompleteIsComplete`), where `Cardinality(Items) <= TreeLimit`, from `Truthful`.
* `TypeCorrect` (`TypeOK`): the lock is with the scan or the worker that writes (`Owned`).

Only model-checked: liveness (`EveryTaskEnds`, `StopReturns`, `EveryRunEnds`,
`EverySearchEnds`, `EveryWriterEnds`, `EveryWaitEnds`), which needs fairness and
ENABLED. Every other property of a passing run is a theorem. Where the theorem has a
hypothesis on the constants (no deletions, no crash) it is named above.
`WorkersAlive`, `TerminalIsFinal` and the property of `loop_wrong_video` are refuted by
their runs, and `RetryableFailureIsScheduled` with a crash.

## 6. Plan

Done, with their proofs: the queue, the candidate loop, the search of the providers, files and their
placement, Jellyfin's media rows, the identity of a video. In order of importance,
what is left:

1. `EventStream`: the cursor of the event stream against pruning and deletion.
2. `RuntimeSettings`: `set_setting` against `patch_setting`.
3. `NetworkSlot`: the cooldown of the processing worker, for a queue with an interval.
4. The queue's reaction to a lock that is not had in time, as a fault of
   `WorkerSchedules`.

The abstract specification worth adding is the promise of the store of subtitles:
a path is written once and holds what its artifact says, implemented by
`CandidateLoop` with `SubtitleFiles`.

## 7. Not modelled

The pages and protocols of the providers, the pictures of the captchas, archive
extraction, the scoring weights, text parsing, the inside of ffsubsync and ffprobe,
the image cache, the user interface and the diagnostics reports: they keep no state
the other parts depend on, and their results are choices of the models. Of the
database's errors the models have the missing row (`TaskQueue`, `CandidateLoop`) and
the lock that is not had in time (`JellyfinMedia`); a full disk is an error of a file
in `SubtitleFiles` and otherwise left out. The event stream and the settings have no
module yet (section 6), except that a task works with the settings it started with
(`ProviderSearch`). The pruning of old events at the
start is left out, since the models keep no events. The additive migration runs before anything else.
