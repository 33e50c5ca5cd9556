---------------------------- MODULE SubtitleFiles ----------------------------
(***************************************************************************)
(* What the processing worker does to files, step by step, while a crash   *)
(* or an error of the file system may come between any two of them: the    *)
(* download directory of a task, the output of ffsubsync                   *)
(* (sync/ffsubsync.py), the cache of season packs with its manifest        *)
(* (pipeline/bundle_cache.py), and the subtitles beside a video with the   *)
(* backup of the one that is replaced (safe_place_subtitle).               *)
(*                                                                         *)
(* The videos are the episodes of one season, so that they share one       *)
(* manifest.  A file is its text and how far it was written; the names of  *)
(* the subtitles of a video are slots, as in CandidateLoop, which has the  *)
(* rest of the loop.  Of the download directories only that of the task     *)
(* under way is kept, which begins empty.  Temporary files that a crash leaves behind are never *)
(* read and are not kept here, and a file that is replaced by the renaming *)
(* of a temporary one is written in one step.                              *)
(***************************************************************************)
EXTENDS Naturals, FiniteSets, FiniteSetsExt

CONSTANTS
    Videos, Candidates,
    Member,          \* Member[c][v]: the text candidate c has for video v, or NoText
    Packs,           \* the candidates of more than one file
    Streams,         \* audio streams of a video that ffsubsync may be given
    NoText, NoCandidate, NoVideo,
    SyncEnabled,     \* settings.sync.enabled
    Settings,        \* what the other settings may be
    MaxExtras, MaxIds,
    MaxFaults, MaxDeletes       \* bounds: crashes and errors together, deletions

ASSUME FilesAssumption ==
    /\ Packs \subseteq Candidates /\ NoCandidate \notin Candidates /\ NoVideo \notin Videos
    /\ DOMAIN Member = Candidates /\ \A c \in Candidates : DOMAIN Member[c] = Videos
    /\ \A c \in Candidates \ Packs, v \in Videos : Member[c][v] # NoText
    /\ SyncEnabled \in BOOLEAN
    /\ Settings \subseteq [overwrite : BOOLEAN, keepBackup : BOOLEAN, saveUnsynced : BOOLEAN,
                            attempts : Nat \ {0}]
    /\ {Streams, MaxExtras, MaxIds, MaxFaults, MaxDeletes} \subseteq Nat
    /\ MaxExtras >= MaxIds + MaxDeletes + MaxFaults

VARIABLES
    settings,  \* overwrite, keep_backup, save_unsynced_on_sync_failure
               \* and max_candidate_attempts, read when the process starts
    rows,      \* the status of each task: "none" when there is none of that identifier
    media,     \* the subtitles and the backup beside each video
    work,      \* the download directory of the worker's task
    packed,    \* the copies of pack members in the cache, by pack and task
    manifest,  \* which pack and task has the member of each episode
    run,       \* the worker's run
    latest,    \* history: what was last published as the main subtitle
    reborn,    \* history: the identifiers that were given to a second task
    budget     \* how many faults and deletions happened

vars == <<settings, rows, media, work, packed, manifest, run, latest, reborn, budget>>

Ids == 1..MaxIds
Main == 0
Slots == 0..MaxExtras
MaxReferences == 3           \* max_reference_streams of sync_subtitle

File(text, form) == [text |-> text, form |-> form]
Nothing == File(NoText, "none")

\* Two files with the same bytes: what was written in part equals nothing else.
SameContent(f, g) == f = g /\ f.form # "partial"

Key(id, c) == [id |-> id, candidate |-> c]
NoKey == Key(0, NoCandidate)
Keys == {Key(id, c) : id \in Ids, c \in Packs}

EmptyWork == [download |-> Nothing, output |-> Nothing]

NoRun == [pc |-> "idle", id |-> 0, video |-> NoVideo,
          supplemental |-> FALSE, existing |-> {}, left |-> Candidates, used |-> 0,
          candidate |-> NoCandidate, cached |-> FALSE, reference |-> 1,
          source |-> "download", store |-> {}, slot |-> Main]

Init ==
    /\ settings \in Settings
    /\ rows = [t \in Ids |-> "none"]
    /\ media = [v \in Videos |-> [slots |-> [s \in Slots |-> Nothing], backup |-> Nothing]]
    /\ work = EmptyWork
    /\ packed = [k \in Keys |-> [v \in Videos |-> Nothing]]
    /\ manifest = [v \in Videos |-> NoKey]
    /\ run = NoRun
    /\ latest = [v \in Videos |-> Nothing]
    /\ reborn = {}
    /\ budget = [faults |-> 0, deletes |-> 0]

At(pc) == run.pc = pc
Goto(pc) == run' = [run EXCEPT !.pc = pc]

cache == <<packed, manifest>>
history == <<latest, reborn>>

-----------------------------------------------------------------------------
(* Tasks.                                                                  *)

\* The identifier after the highest one that is there: one that was deleted may
\* come back.  A task that was checked before another one placed a subtitle is
\* not checked again.
BeginTask(id, v, supplemental) ==
    /\ At("idle")
    /\ rows[id] = "none" /\ \A t \in Ids : rows[t] # "none" <=> t < id
    /\ rows' = [rows EXCEPT ![id] = "running"]
    /\ run' = [NoRun EXCEPT !.pc = "next", !.id = id, !.video = v,
                            !.supplemental = supplemental,
                            !.existing = IF supplemental
                                         THEN {s \in Slots : media[v].slots[s] # Nothing}
                                         ELSE {}]
    /\ UNCHANGED <<media, work, cache, history, budget>>

\* Only the identifier of a later task depends on it, so that it need not be
\* interleaved with the steps of a run.
DeleteTask(id) ==
    /\ At("idle")
    /\ rows[id] \in {"failed", "completed", "interrupted"}
    /\ budget.deletes < MaxDeletes
    /\ budget' = [budget EXCEPT !.deletes = @ + 1]
    /\ rows' = [rows EXCEPT ![id] = "none"]
    /\ reborn' = reborn \cup {id}
    /\ UNCHANGED <<media, work, cache, run, latest>>

\* The process ends; when it starts again, what was running is interrupted.
CrashAndRestart ==
    /\ ~At("idle")
    /\ budget.faults < MaxFaults
    /\ budget' = [budget EXCEPT !.faults = @ + 1]
    /\ rows' = [rows EXCEPT ![run.id] = "interrupted"]
    /\ run' = NoRun
    /\ work' = EmptyWork
    /\ UNCHANGED <<media, cache, history>>

EndRun(status) ==
    /\ rows' = [rows EXCEPT ![run.id] = status]
    /\ run' = NoRun
    /\ work' = EmptyWork

\* The attempt is over without a subtitle, and the loop goes on.
AttemptFails ==
    run' = [run EXCEPT !.pc = "next", !.used = @ + 1, !.store = {}, !.reference = 1,
                       !.source = "download", !.cached = FALSE,
                       !.candidate = NoCandidate, !.slot = Main]

\* An error of the file system while a pack is stored or a subtitle placed.
FileError ==
    /\ run.pc \in {"storing", "copying", "comparing", "placing", "replacing",
                   "saving", "publishing", "published"}
    /\ budget.faults < MaxFaults
    /\ budget' = [budget EXCEPT !.faults = @ + 1]
    /\ AttemptFails
    /\ UNCHANGED <<rows, media, work, cache, history>>

GiveUp ==
    /\ At("next")
    /\ run.used = settings.attempts \/ run.left = {}
    /\ EndRun("failed")
    /\ UNCHANGED <<media, cache, history, budget>>

-----------------------------------------------------------------------------
(* The candidate's file.                                                   *)

Fetch(c) ==
    /\ At("next") /\ run.used < settings.attempts /\ c \in run.left
    /\ run' = [run EXCEPT !.pc = "fetching", !.candidate = c, !.left = @ \ {c}]
    /\ work' = [work EXCEPT !.download = Nothing]
    /\ UNCHANGED <<rows, media, cache, history, budget>>

\* The file or the pack is there; select_episode_member takes the episode's file.
DownloadArrives ==
    LET text == Member[run.candidate][run.video]
    IN  /\ At("fetching")
        /\ IF text = NoText THEN AttemptFails /\ UNCHANGED work
           ELSE /\ work' = [work EXCEPT !.download = File(text, "whole")]
                /\ Goto("checking")
        /\ UNCHANGED <<rows, media, cache, history, budget>>

DownloadFails ==
    /\ At("fetching")
    /\ AttemptFails
    /\ UNCHANGED <<rows, media, work, cache, history, budget>>

\* find: the member of this episode, if its file is still there.
Cached(v) == {k \in {manifest[v]} \ {NoKey} : packed[k][v] # Nothing}

\* materialize: what the cache has is copied and tried before any source is asked.
TakeCached ==
    /\ At("next") /\ run.used = 0 /\ run.left = Candidates
    /\ \E k \in Cached(run.video) :
          /\ work' = [work EXCEPT !.download = packed[k][run.video]]
          /\ run' = [run EXCEPT !.pc = "checking", !.candidate = k.candidate, !.cached = TRUE]
    /\ UNCHANGED <<rows, media, cache, history, budget>>

\* The pack's files that go into the cache: those of every episode it has.
Episodes(c) == {v \in Videos : Member[c][v] # NoText}

ToStore == IF run.cached \/ run.candidate \notin Packs THEN {} ELSE Episodes(run.candidate)

Accept(source) == run' = [run EXCEPT !.pc = "storing", !.source = source, !.store = ToStore,
                                 !.reference = 1]

\* validate_subtitle_file, which may also let a file pass that was cut short.
Check(valid) ==
    /\ At("checking")
    /\ IF ~valid THEN AttemptFails
       ELSE IF SyncEnabled THEN Goto("syncing") ELSE Accept("download")
    /\ UNCHANGED <<rows, media, work, cache, history, budget>>

-----------------------------------------------------------------------------
(***************************************************************************)
(* sync_subtitle: one audio stream after the other, until one of them is   *)
(* usable.  Files of two candidates of a task may have the same name, and  *)
(* then have the same name for their output.                               *)
(***************************************************************************)
References == IF Streams = 0 THEN 1 ELSE Min({Streams, MaxReferences})

\* (mutant) The output of an earlier process is left where it is.
KeptOutput == work.output

ClearedOutput == Nothing

\* What is there after a process that wrote all, a part or nothing.
OutputAfter(written) ==
    IF written = "nothing" THEN ClearedOutput ELSE File(work.download.text, written)

\* The file is taken as it is, if that is allowed and it fits the video.
WithoutSync == AttemptFails \/ (settings.saveUnsynced /\ Accept("download"))

SyncSucceeds(written, exitcode, verdict) ==
    exitcode = 0 /\ verdict # "low_quality" /\ OutputAfter(written) # Nothing

RunSync(written, exitcode, verdict) ==
    /\ At("syncing")
    /\ work' = [work EXCEPT !.output = OutputAfter(written)]
    /\ IF SyncSucceeds(written, exitcode, verdict) THEN AttemptFails \/ Accept("output")
       ELSE IF verdict = "low_quality" THEN AttemptFails
       ELSE IF verdict = "no_speech" /\ run.reference < References
       THEN run' = [run EXCEPT !.reference = @ + 1]
       ELSE WithoutSync
    /\ UNCHANGED <<rows, media, cache, history, budget>>

\* Its time is up, or it cannot be started: no other stream is tried.
SyncBreaksOff(written) ==
    /\ At("syncing")
    /\ work' = [work EXCEPT !.output = OutputAfter(written)]
    /\ WithoutSync
    /\ UNCHANGED <<rows, media, cache, history, budget>>

-----------------------------------------------------------------------------
(* store: every member is copied, then the manifest is replaced.           *)

RunKey == Key(run.id, run.candidate)

CopyMember(v) ==
    /\ At("storing") /\ v \in run.store
    /\ packed' = [packed EXCEPT ![RunKey][v] = File(Member[run.candidate][v], "partial")]
    /\ run' = [run EXCEPT !.pc = "copying", !.store = @ \ {v}]
    /\ UNCHANGED <<rows, media, work, manifest, history, budget>>

MemberCopied ==
    /\ At("copying")
    /\ packed' = [packed EXCEPT ![RunKey] =
                    [v \in Videos |-> IF @[v].form = "partial"
                                      THEN File(@[v].text, "whole") ELSE @[v]]]
    /\ Goto("storing")
    /\ UNCHANGED <<rows, media, work, manifest, history, budget>>

WriteManifest ==
    /\ At("storing") /\ run.store = {}
    /\ manifest' = [v \in Videos |-> IF v \in ToStore THEN RunKey ELSE manifest[v]]
    /\ Goto("comparing")
    /\ UNCHANGED <<rows, media, work, packed, history, budget>>

-----------------------------------------------------------------------------
(* safe_place_subtitle, and the choice of its destination before it.       *)

Chosen == IF run.source = "output" THEN work.output ELSE work.download

Beside == media[run.video]

\* _same_subtitle_content with what was beside the video when the task began.
IsThereAlready ==
    run.supplemental /\ \E s \in run.existing : SameContent(Chosen, Beside.slots[s])

\* (mutant) The names are counted, not looked at.
NextExtra == Cardinality(run.existing \cup {Main})

\* _supplemental_subtitle_path: the first name of an additional subtitle that is free.
FreeExtra == Min({s \in Slots \ {Main} : Beside.slots[s] = Nothing})

Compare ==
    /\ At("comparing")
    /\ IF IsThereAlready THEN AttemptFails
       ELSE run' = [run EXCEPT !.pc = "placing",
                               !.slot = IF run.supplemental THEN FreeExtra ELSE Main]
    /\ UNCHANGED <<rows, media, work, cache, history, budget>>

Destination == Beside.slots[run.slot]

\* (mutant) What is there is written over.
PlaceUnchecked ==
    /\ At("placing")
    /\ Goto("saving")
    /\ UNCHANGED <<rows, media, work, cache, history, budget>>

\* An old backup is removed first, or the old subtitle if no backup is kept.
Place ==
    /\ At("placing")
    /\ IF Destination = Nothing THEN Goto("saving") /\ UNCHANGED media
       ELSE IF ~settings.overwrite THEN AttemptFails /\ UNCHANGED media
       ELSE IF settings.keepBackup
       THEN Goto("replacing") /\ media' = [media EXCEPT ![run.video].backup = Nothing]
       ELSE Goto("saving") /\ media' = [media EXCEPT ![run.video].slots[run.slot] = Nothing]
    /\ UNCHANGED <<rows, work, cache, history, budget>>

\* (mutant) The old subtitle is removed, whatever the settings say.
RemoveOld ==
    /\ At("replacing")
    /\ media' = [media EXCEPT ![run.video].slots[run.slot] = Nothing]
    /\ Goto("saving")
    /\ UNCHANGED <<rows, work, cache, history, budget>>

BackUp ==
    /\ At("replacing")
    /\ media' = [media EXCEPT ![run.video].backup = Destination,
                              ![run.video].slots[run.slot] = Nothing]
    /\ Goto("saving")
    /\ UNCHANGED <<rows, work, cache, history, budget>>

\* (mutant) The copy is made under the name of the subtitle.
CopyInPlace ==
    /\ At("saving")
    /\ media' = [media EXCEPT ![run.video].slots[run.slot] = File(Chosen.text, "partial")]
    /\ Goto("publishing")
    /\ UNCHANGED <<rows, work, cache, history, budget>>

\* The copy is made beside it, under a temporary name.
CopyBeside ==
    /\ At("saving")
    /\ Goto("publishing")
    /\ UNCHANGED <<rows, media, work, cache, history, budget>>

\* The copy takes the name of the subtitle.
Publish ==
    /\ At("publishing")
    /\ media' = [media EXCEPT ![run.video].slots[run.slot] = Chosen]
    /\ latest' = IF run.slot = Main THEN [latest EXCEPT ![run.video] = Chosen] ELSE latest
    /\ Goto("published")
    /\ UNCHANGED <<rows, work, cache, reborn, budget>>

\* The file in the download directory is removed, then the task is completed.
RemoveSource ==
    /\ At("published")
    /\ work' = IF run.source = "output" THEN [work EXCEPT !.output = Nothing]
                                        ELSE [work EXCEPT !.download = Nothing]
    /\ Goto("recording")
    /\ UNCHANGED <<rows, media, cache, history, budget>>

Record ==
    /\ At("recording")
    /\ EndRun("completed")
    /\ UNCHANGED <<media, cache, history, budget>>

-----------------------------------------------------------------------------
TaskStep ==
    \/ \E id \in Ids, v \in Videos, supplemental \in BOOLEAN : BeginTask(id, v, supplemental)
    \/ \E id \in Ids : DeleteTask(id)
    \/ CrashAndRestart \/ FileError \/ GiveUp

DownloadStep ==
    \/ \E c \in Candidates : Fetch(c)
    \/ DownloadArrives \/ DownloadFails \/ TakeCached
    \/ \E valid \in BOOLEAN : Check(valid)

SyncStep ==
    \/ \E written \in {"nothing", "synced"}, exitcode \in {0, 1},
          verdict \in {"fine", "low_quality", "no_speech"} : RunSync(written, exitcode, verdict)
    \/ \E written \in {"nothing", "partial"} : SyncBreaksOff(written)

PlaceStep ==
    \/ \E v \in Videos : CopyMember(v)
    \/ MemberCopied \/ WriteManifest \/ Compare \/ Place \/ BackUp \/ CopyBeside
    \/ Publish \/ RemoveSource \/ Record

Next == (TaskStep \/ DownloadStep \/ SyncStep \/ PlaceStep) /\ UNCHANGED settings

Spec == Init /\ [][Next]_vars
=============================================================================
