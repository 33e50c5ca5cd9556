------------------------- MODULE SubtitleFilesProofs -------------------------
(***************************************************************************)
(* Proofs about the files the worker writes, for every number of videos,   *)
(* candidates, tasks, faults and deletions.                                *)
(*                                                                         *)
(* The inductive invariant IInv says of each stretch of a run what the     *)
(* steps after it rely on: that the candidate's file is there (UnderWay),  *)
(* that the name it is to get is free (Cleared), that what it replaces was *)
(* the last to be published (Current), that its text is its own (Aligned), *)
(* and that what was copied into the cache is not yet named by the         *)
(* manifest (Packing).                                                     *)
(***************************************************************************)
EXTENDS SubtitleFilesProperties, FiniteSetTheorems, WellFoundedInduction, TLAPS

-----------------------------------------------------------------------------
(* The inductive invariant, in parts.                                      *)

\* From the arrival of a candidate's file until it is published.
Trying == {"checking", "syncing", "storing", "copying", "comparing",
           "placing", "replacing", "saving", "publishing"}

Pcs == {"idle", "next", "fetching", "published", "recording"} \cup Trying

RunSet ==
    [pc : Pcs, id : 0..MaxIds, video : Videos \cup {NoVideo},
     supplemental : BOOLEAN, existing : SUBSET Slots, left : SUBSET Candidates, used : Nat,
     candidate : Candidates \cup {NoCandidate}, cached : BOOLEAN, reference : Nat,
     source : {"download", "output"}, store : SUBSET Videos, slot : Slots]

Typed ==
    /\ settings \in Settings
    /\ rows \in [Ids -> {"none", "running", "failed", "completed", "interrupted"}]
    /\ media \in [Videos -> [slots : [Slots -> FileSet], backup : FileSet]]
    /\ work \in [download : FileSet, output : FileSet]
    /\ packed \in [Keys -> [Videos -> FileSet]]
    /\ manifest \in [Videos -> Keys \cup {NoKey}]
    /\ latest \in [Videos -> FileSet]
    /\ reborn \in SUBSET Ids
    /\ budget \in [faults : 0..MaxFaults, deletes : 0..MaxDeletes]
    /\ run \in RunSet

\* The run has its row, its video, and while it tries a candidate that one and its file;
\* a candidate that was fetched is not among those left.
UnderWay ==
    /\ \A t \in Ids : rows[t] = "running" <=> run.pc # "idle" /\ run.id = t
    /\ run.used \in 0..settings.attempts /\ run.reference \in 1..References
    /\ run.pc # "idle" => run.id \in Ids /\ run.video \in Videos
    /\ run.pc \notin {"idle", "next"} => run.used < settings.attempts
                                        /\ run.candidate \in Candidates
                                        /\ (run.cached \/ run.candidate \notin run.left)
    /\ run.pc \in Trying => work.download # Nothing

\* Where the worker is about to put a subtitle nothing lies, unless it is the one that
\* is moved to the backup.
Cleared ==
    /\ run.pc = "placing" /\ run.slot # Main => Destination = Nothing
    /\ run.pc = "replacing" => settings.overwrite /\ settings.keepBackup /\ run.slot = Main
                               /\ Destination # Nothing
    /\ run.pc \in {"saving", "publishing"} => Destination = Nothing

\* What lies under the name of the subtitle was published last.
Current == \A v \in Videos : media[v].slots[Main] # Nothing => latest[v] = media[v].slots[Main]

\* Every additional subtitle of a video came from a task of its own or after a fault.
Extras(v) == {s \in Slots \ {Main} : media[v].slots[s] # Nothing}
Begun == {t \in Ids : rows[t] # "none"}
Spent == Cardinality(Begun) + budget.deletes + budget.faults

Room ==
    \A v \in Videos :
        /\ Cardinality(Extras(v)) <= Spent
        /\ run.pc \notin {"idle", "published", "recording"} => Cardinality(Extras(v)) < Spent

Aligned ==
    /\ run.pc \in {"next", "fetching", "checking", "syncing"} => run.source = "download"
    /\ run.pc \in Trying /\ run.source = "output" =>
          work.output = File(work.download.text, "synced")
    /\ work.download.form = "partial" => reborn # {}
    /\ \A v \in Videos, s \in Slots : media[v].slots[s].form = "partial" => reborn # {}

Mine(v) == manifest[v] # NoKey /\ manifest[v].id = run.id

Packing ==
    /\ \A v \in Videos : manifest[v] # NoKey =>
          \/ manifest[v].id \in reborn
          \/ /\ packed[manifest[v]][v] = File(Member[manifest[v].candidate][v], "whole")
             /\ rows[manifest[v].id] # "none"
    /\ \A v \in Videos : Mine(v) /\ run.pc # "idle" => 
          \/ run.id \in reborn
          \/ /\ manifest[v].candidate \notin run.left
             /\ run.pc \in {"fetching", "checking", "syncing", "storing", "copying"} =>
                   run.cached \/ manifest[v].candidate # run.candidate
    /\ run.pc \in {"storing", "copying"} =>
          /\ run.store \subseteq ToStore
          /\ \A v \in ToStore \ run.store :
                packed[RunKey][v] \in {File(Member[run.candidate][v], "whole"),
                                       File(Member[run.candidate][v],
                                            IF run.pc = "copying" THEN "partial" ELSE "whole")}
    /\ run.pc = "copying" => ToStore # {}

IInv ==
    /\ Typed /\ UnderWay /\ Cleared
    /\ Current /\ LatestKept
    /\ Room /\ Aligned /\ Packing

-----------------------------------------------------------------------------
(* The type of the state.                                                  *)

LEMMA ReferencesAreSome == References \in Nat \ {0}
<1>1. Streams \in Nat /\ MaxReferences = 3
  BY FilesAssumption DEF MaxReferences
<1>2. CASE Streams = 0
  BY <1>2 DEF References
<1>3. CASE Streams # 0
  <2>1. \E x \in {Streams, MaxReferences} : \A y \in {Streams, MaxReferences} : x =< y
    <3>1. CASE Streams =< 3
      BY <1>1, <3>1
    <3>2. CASE ~(Streams =< 3)
      BY <1>1, <3>2
    <3> QED
      BY <3>1, <3>2
  <2>2. Min({Streams, MaxReferences}) \in {Streams, MaxReferences}
    BY <2>1, Zenon DEF Min
  <2> QED
    BY <1>1, <1>3, <2>2 DEF References
<1> QED
  BY <1>2, <1>3

LEMMA SettingsTyped ==
    ASSUME Typed
    PROVE  /\ settings.attempts \in Nat \ {0}
           /\ settings.overwrite \in BOOLEAN /\ settings.keepBackup \in BOOLEAN
<1>1. settings \in [overwrite : BOOLEAN, keepBackup : BOOLEAN, saveUnsynced : BOOLEAN,
                    attempts : Nat \ {0}]
  BY FilesAssumption DEF Typed
<1> QED
  BY <1>1

LEMMA AttemptFailsTyped ==
    ASSUME Typed, UnderWay, AttemptFails, run.pc \notin {"idle", "next"}, UNCHANGED settings
    PROVE  /\ run' \in RunSet /\ run'.pc = "next" /\ run'.id = run.id
           /\ run'.video = run.video /\ run'.left = run.left /\ run'.slot = Main
           /\ run'.used \in 0..settings.attempts /\ run'.reference = 1
<1>1. run.used \in Nat /\ run.used < settings.attempts /\ settings.attempts \in Nat
  BY SettingsTyped DEF UnderWay
<1>2. Main \in Slots
  BY FilesAssumption DEF Slots, Main
<1>3. run \in RunSet
  BY DEF Typed
<1>4. run' = [run EXCEPT !.pc = "next", !.used = @ + 1, !.store = {}, !.reference = 1,
                         !.source = "download", !.cached = FALSE,
                         !.candidate = NoCandidate, !.slot = Main]
  BY DEF AttemptFails
<1>5. run' = [pc |-> "next", id |-> run.id, video |-> run.video,
               supplemental |-> run.supplemental, existing |-> run.existing,
               left |-> run.left, used |-> run.used + 1, candidate |-> NoCandidate,
               cached |-> FALSE, reference |-> 1, source |-> "download", store |-> {},
               slot |-> Main]
  BY <1>3, <1>4 DEF RunSet
<1> QED
  BY <1>1, <1>2, <1>3, <1>5 DEF RunSet, Pcs

LEMMA AcceptTyped ==
    ASSUME Typed, UnderWay, NEW source \in {"download", "output"}, Accept(source)
    PROVE  /\ run' \in RunSet /\ run'.pc = "storing" /\ run'.id = run.id
           /\ run'.video = run.video /\ run'.left = run.left /\ run'.used = run.used
           /\ run'.reference = 1 /\ run'.source = source /\ run'.candidate = run.candidate
           /\ run'.cached = run.cached /\ run'.slot = run.slot /\ run'.store = ToStore
<1>1. run \in RunSet
  BY DEF Typed
<1>2. ToStore \subseteq Videos
  BY DEF ToStore, Episodes
<1>3. run' = [run EXCEPT !.pc = "storing", !.source = source, !.store = ToStore, !.reference = 1]
  BY DEF Accept
<1> DEFINE store == ToStore
<1> HIDE DEF store
<1>4. run' = [pc |-> "storing", id |-> run.id, video |-> run.video,
              supplemental |-> run.supplemental, existing |-> run.existing,
              left |-> run.left, used |-> run.used, candidate |-> run.candidate,
              cached |-> run.cached, reference |-> 1, source |-> source, store |-> store,
              slot |-> run.slot]
  BY <1>1, <1>3 DEF RunSet, store
<1>5. store \subseteq Videos /\ store = ToStore
  BY <1>2 DEF store
<1> QED
  BY <1>1, <1>4, <1>5 DEF RunSet, Pcs, Trying

LEMMA GotoTyped ==
    ASSUME Typed, NEW pc \in Pcs, Goto(pc)
    PROVE  /\ run' \in RunSet /\ run'.pc = pc /\ run'.id = run.id
           /\ run'.video = run.video /\ run'.left = run.left /\ run'.used = run.used
           /\ run'.reference = run.reference /\ run'.source = run.source
           /\ run'.candidate = run.candidate /\ run'.store = run.store
           /\ run'.cached = run.cached /\ run'.slot = run.slot
<1> QED
  BY DEF Typed, Goto, RunSet

LEMMA InitTyped == Init => Typed /\ UnderWay
<1> SUFFICES ASSUME Init PROVE Typed /\ UnderWay
  OBVIOUS
<1>1. NoRun \in RunSet
  BY FilesAssumption DEF NoRun, RunSet, Pcs, Slots, Main
<1>2. Nothing \in FileSet
  BY DEF FileSet
<1>3. Typed
  BY <1>1, <1>2, FilesAssumption DEF Init, Typed, EmptyWork
<1>4. UnderWay
  BY ReferencesAreSome, FilesAssumption DEF Init, UnderWay, NoRun, Trying
<1> QED
  BY <1>3, <1>4

\* The run goes on, with the same task.
LEMMA GoesOn ==
    ASSUME UnderWay, UNCHANGED <<rows, settings>>, run.pc # "idle", run'.pc # "idle",
           run'.id = run.id, run'.video = run.video,
           run'.used \in 0..settings.attempts, run'.reference \in 1..References,
           run'.pc # "next" => run'.used < settings.attempts /\ run'.candidate \in Candidates
                               /\ (run'.cached \/ run'.candidate \notin run'.left),
           run'.pc \in Trying => work'.download # Nothing
    PROVE  UnderWay'
BY DEF UnderWay

LEMMA AttemptFailsUnderWay ==
    ASSUME Typed, UnderWay, AttemptFails, run.pc \notin {"idle", "next"},
           UNCHANGED <<rows, settings>>
    PROVE  UnderWay'
<1>1. 1 \in 1..References
  BY ReferencesAreSome
<1>2. "next" \notin Trying
  BY DEF Trying
<1> QED
  BY <1>1, <1>2, AttemptFailsTyped, GoesOn

LEMMA AcceptUnderWay ==
    ASSUME Typed, UnderWay, NEW source \in {"download", "output"}, Accept(source),
           run.pc \in {"checking", "syncing"}, UNCHANGED <<rows, settings>>,
           work'.download # Nothing
    PROVE  UnderWay'
<1>1. 1 \in 1..References
  BY ReferencesAreSome
<1>2. run.used < settings.attempts /\ run.used \in 0..settings.attempts /\ run.candidate \in Candidates
      /\ (run.cached \/ run.candidate \notin run.left)
  BY DEF UnderWay
<1>3. run' \in RunSet /\ run'.pc = "storing" /\ run'.id = run.id
      /\ run'.video = run.video /\ run'.left = run.left /\ run'.used = run.used
      /\ run'.reference = 1 /\ run'.candidate = run.candidate /\ run'.cached = run.cached
  BY AcceptTyped
<1> QED
  BY <1>1, <1>2, <1>3, GoesOn

LEMMA GotoUnderWay ==
    ASSUME Typed, UnderWay, NEW pc \in Pcs \ {"idle", "next"}, Goto(pc),
           run.pc \notin {"idle", "next"}, UNCHANGED <<rows, settings>>,
           pc \in Trying => work'.download # Nothing
    PROVE  UnderWay'
<1>1. run.used < settings.attempts /\ run.used \in 0..settings.attempts /\ run.candidate \in Candidates
      /\ (run.cached \/ run.candidate \notin run.left) /\ run.reference \in 1..References
  BY DEF UnderWay
<1> QED
  BY <1>1, GotoTyped, GoesOn

LEMMA EndRunTyped ==
    ASSUME Typed, UnderWay, NEW status \in {"failed", "completed"}, EndRun(status),
           run.pc # "idle", UNCHANGED settings
    PROVE  /\ rows' \in [Ids -> {"none", "running", "failed", "completed", "interrupted"}]
           /\ work' \in [download : FileSet, output : FileSet]
           /\ run' \in RunSet /\ UnderWay'
<1>1. NoRun \in RunSet
  BY FilesAssumption DEF NoRun, RunSet, Pcs, Slots, Main
<1>2. Nothing \in FileSet
  BY DEF FileSet
<1>3. settings.attempts \in Nat \ {0} /\ 1 \in 1..References
  BY SettingsTyped, ReferencesAreSome
<1>4. run' = NoRun /\ work' = EmptyWork /\ rows' = [rows EXCEPT ![run.id] = status]
  BY DEF EndRun
<1>5. UnderWay'
  BY <1>3, <1>4 DEF UnderWay, Typed, NoRun, Trying
<1> QED
  BY <1>1, <1>2, <1>4, <1>5 DEF Typed, EmptyWork

LEMMA TaskStepTyped ==
    ASSUME Typed, UnderWay, TaskStep, UNCHANGED settings
    PROVE  Typed' /\ UnderWay'
<1>0. settings.attempts \in Nat \ {0} /\ 1 \in 1..References /\ Main \in Slots
  BY SettingsTyped, ReferencesAreSome, FilesAssumption DEF Slots, Main
<1>a. /\ NoRun \in RunSet
      /\ Nothing \in FileSet
  BY FilesAssumption DEF NoRun, RunSet, Pcs, Slots, Main, FileSet
<1>1. ASSUME NEW id \in Ids, NEW v \in Videos, NEW supplemental \in BOOLEAN,
             BeginTask(id, v, supplemental)
      PROVE  Typed' /\ UnderWay'
  <2>1. PICK E \in SUBSET Slots :
             run' = [NoRun EXCEPT !.pc = "next", !.id = id, !.video = v,
                                  !.supplemental = supplemental, !.existing = E]
    BY <1>1 DEF BeginTask
  <2>2. run' = [pc |-> "next", id |-> id, video |-> v,
                supplemental |-> supplemental, existing |-> E, left |-> Candidates,
                used |-> 0, candidate |-> NoCandidate, cached |-> FALSE, reference |-> 1,
                source |-> "download", store |-> {}, slot |-> Main]
    BY <2>1 DEF NoRun
  <2>3. run' \in RunSet
    BY <2>2, <1>0, FilesAssumption DEF RunSet, Pcs, Ids
  <2>4. rows' = [rows EXCEPT ![id] = "running"] /\ run.pc = "idle"
        /\ UNCHANGED <<media, work, packed, manifest, latest, reborn, budget>>
    BY <1>1 DEF BeginTask, At, cache, history
  <2>5. UnderWay'
    BY <2>2, <2>4, <1>0 DEF UnderWay, Typed, Trying
  <2> QED
    BY <2>3, <2>4, <2>5 DEF Typed
<1>2. ASSUME NEW id \in Ids, DeleteTask(id)
      PROVE  Typed' /\ UnderWay'
  <2>1. /\ rows' = [rows EXCEPT ![id] = "none"] /\ run.pc = "idle"
        /\ budget' = [budget EXCEPT !.deletes = @ + 1] /\ budget.deletes < MaxDeletes
        /\ reborn' = reborn \cup {id}
        /\ UNCHANGED <<media, work, packed, manifest, run, latest>>
    BY <1>2 DEF DeleteTask, At, cache
  <2>2. budget' \in [faults : 0..MaxFaults, deletes : 0..MaxDeletes]
    BY <2>1, FilesAssumption DEF Typed
  <2>3. UnderWay'
    BY <2>1 DEF UnderWay, Typed
  <2> QED
    BY <2>1, <2>2, <2>3 DEF Typed
<1>3. CASE CrashAndRestart
  <2>1. /\ rows' = [rows EXCEPT ![run.id] = "interrupted"] /\ run.pc # "idle"
        /\ budget' = [budget EXCEPT !.faults = @ + 1] /\ budget.faults < MaxFaults
        /\ run' = NoRun /\ work' = EmptyWork
        /\ UNCHANGED <<media, packed, manifest, latest, reborn>>
    BY <1>3 DEF CrashAndRestart, At, cache, history
  <2>2. budget' \in [faults : 0..MaxFaults, deletes : 0..MaxDeletes]
    BY <2>1, FilesAssumption DEF Typed
  <2>3. UnderWay'
    BY <2>1, <1>0 DEF UnderWay, Typed, NoRun, Trying
  <2> QED
    BY <2>1, <2>2, <2>3, <1>a DEF Typed, EmptyWork
<1>4. CASE FileError
  <2>1. /\ run.pc \notin {"idle", "next"} /\ AttemptFails
        /\ budget' = [budget EXCEPT !.faults = @ + 1] /\ budget.faults < MaxFaults
        /\ UNCHANGED <<rows, media, work, packed, manifest, latest, reborn>>
    BY <1>4 DEF FileError, cache, history
  <2>2. budget' \in [faults : 0..MaxFaults, deletes : 0..MaxDeletes]
    BY <2>1, FilesAssumption, SMTT(30) DEF Typed
  <2>3. UnderWay' /\ run' \in RunSet
    BY <2>1, AttemptFailsUnderWay, AttemptFailsTyped
  <2> QED
    BY <2>1, <2>2, <2>3 DEF Typed
<1>5. CASE GiveUp
  <2>1. run.pc # "idle" /\ EndRun("failed")
        /\ UNCHANGED <<media, packed, manifest, latest, reborn, budget>>
    BY <1>5 DEF GiveUp, At, cache, history
  <2> QED
    BY <2>1, EndRunTyped DEF Typed
<1> QED
  BY <1>1, <1>2, <1>3, <1>4, <1>5 DEF TaskStep

LEMMA MemberFile ==
    ASSUME NEW c \in Candidates, NEW v \in Videos, Member[c][v] # NoText, NEW form \in Forms
    PROVE  File(Member[c][v], form) \in FileSet \ {Nothing}
BY DEF File, FileSet, Texts, Forms, Nothing

\* The text of a file, written anew in some form.
LEMMA RewrittenFile ==
    ASSUME NEW f \in FileSet \ {Nothing}, NEW form \in Forms
    PROVE  File(f.text, form) \in FileSet \ {Nothing}
BY DEF File, FileSet, Forms, Nothing

LEMMA KeyTyped ==
    ASSUME NEW k \in Keys
    PROVE  /\ k.id \in Ids /\ k.candidate \in Packs /\ k.candidate \in Candidates
           /\ k = Key(k.id, k.candidate) /\ k # NoKey
BY FilesAssumption DEF Keys, Key, NoKey, Ids

LEMMA DownloadStepTyped ==
    ASSUME Typed, UnderWay, DownloadStep, UNCHANGED settings
    PROVE  Typed' /\ UnderWay'
<1>0. settings.attempts \in Nat \ {0} /\ 1 \in 1..References /\ run \in RunSet
      /\ Nothing \in FileSet
  BY SettingsTyped, ReferencesAreSome DEF Typed, FileSet
<1>1. ASSUME NEW c \in Candidates, Fetch(c)
      PROVE  Typed' /\ UnderWay'
  <2>1. /\ run.pc = "next" /\ run.used < settings.attempts /\ c \in run.left
        /\ run' = [run EXCEPT !.pc = "fetching", !.candidate = c, !.left = @ \ {c}]
        /\ work' = [work EXCEPT !.download = Nothing]
        /\ UNCHANGED <<rows, media, packed, manifest, latest, reborn, budget>>
    BY <1>1 DEF Fetch, At, cache, history
  <2>2. run' \in RunSet /\ run'.pc = "fetching" /\ run'.candidate = c /\ c \notin run'.left
        /\ run'.id = run.id /\ run'.video = run.video /\ run'.used = run.used
        /\ run'.reference = run.reference
    BY <2>1, <1>0 DEF RunSet, Pcs
  <2>3. UnderWay'
    BY <2>1, <2>2 DEF UnderWay, Trying
  <2> QED
    BY <2>1, <2>2, <2>3, <1>0 DEF Typed
<1>2. CASE DownloadArrives
  <2>0. run.pc = "fetching" /\ run.candidate \in Candidates /\ run.video \in Videos
        /\ UNCHANGED <<rows, media, packed, manifest, latest, reborn, budget>>
    BY <1>2 DEF DownloadArrives, At, UnderWay, cache, history
  <2>1. CASE Member[run.candidate][run.video] = NoText
    <3>1. AttemptFails /\ UNCHANGED work
      BY <1>2, <2>1 DEF DownloadArrives
    <3> QED
      BY <2>0, <3>1, AttemptFailsTyped, AttemptFailsUnderWay DEF Typed
  <2>2. CASE Member[run.candidate][run.video] # NoText
    <3>1. /\ work' = [work EXCEPT !.download = File(Member[run.candidate][run.video], "whole")]
          /\ Goto("checking")
      BY <1>2, <2>2 DEF DownloadArrives
    <3>2. File(Member[run.candidate][run.video], "whole") \in FileSet \ {Nothing}
      BY <2>0, <2>2, MemberFile DEF Forms
    <3>3. work' \in [download : FileSet, output : FileSet] /\ work'.download # Nothing
      BY <3>1, <3>2 DEF Typed
    <3>4. "checking" \in Pcs \ {"idle", "next"}
      BY DEF Pcs, Trying
    <3>5. UnderWay' /\ run' \in RunSet
      BY <2>0, <3>1, <3>3, <3>4, GotoUnderWay, GotoTyped
    <3> QED
      BY <2>0, <3>3, <3>5 DEF Typed
  <2> QED
    BY <2>1, <2>2
<1>3. CASE DownloadFails
  <2>1. run.pc = "fetching" /\ AttemptFails
        /\ UNCHANGED <<rows, media, work, packed, manifest, latest, reborn, budget>>
    BY <1>3 DEF DownloadFails, At, cache, history
  <2> QED
    BY <2>1, AttemptFailsTyped, AttemptFailsUnderWay DEF Typed
<1>4. CASE TakeCached
  <2>1. PICK k \in Cached(run.video) :
          /\ work' = [work EXCEPT !.download = packed[k][run.video]]
          /\ run' = [run EXCEPT !.pc = "checking", !.candidate = k.candidate, !.cached = TRUE]
    BY <1>4 DEF TakeCached
  <2>2. run.pc = "next" /\ run.used = 0
        /\ UNCHANGED <<rows, media, packed, manifest, latest, reborn, budget>>
    BY <1>4 DEF TakeCached, At, cache, history
  <2>3. run.video \in Videos
    BY <2>2 DEF UnderWay
  <2>4. k \in Keys /\ packed[k][run.video] # Nothing
    BY <2>1, <2>3 DEF Cached, Typed
  <2>5. packed[k][run.video] \in FileSet
    BY <2>3, <2>4 DEF Typed
  <2>6. run' \in RunSet /\ run'.pc = "checking" /\ run'.candidate = k.candidate /\ run'.cached
        /\ run'.id = run.id /\ run'.video = run.video /\ run'.used = run.used
        /\ run'.reference = run.reference
    BY <2>1, <2>4, KeyTyped, <1>0 DEF RunSet, Pcs, Trying
  <2>7. work' \in [download : FileSet, output : FileSet] /\ work'.download # Nothing
    BY <2>1, <2>4, <2>5 DEF Typed
  <2>8. UnderWay'
    BY <2>2, <2>4, KeyTyped, <2>6, <2>7, <1>0 DEF UnderWay, Trying
  <2> QED
    BY <2>2, <2>6, <2>7, <2>8 DEF Typed
<1>5. ASSUME NEW valid \in BOOLEAN, Check(valid)
      PROVE  Typed' /\ UnderWay'
  <2>1. run.pc = "checking" /\ work.download # Nothing
        /\ UNCHANGED <<rows, media, work, packed, manifest, latest, reborn, budget>>
    BY <1>5 DEF Check, At, UnderWay, Trying, cache, history
  <2>2. AttemptFails \/ Goto("syncing") \/ Accept("download")
    BY <1>5, Zenon DEF Check
  <2>3. "syncing" \in Pcs \ {"idle", "next"} /\ "download" \in {"download", "output"}
    BY DEF Pcs, Trying
  <2>4. run' \in RunSet
    BY <2>1, <2>2, <2>3, AttemptFailsTyped, GotoTyped, AcceptTyped
  <2>5. UnderWay'
    BY <2>1, <2>2, <2>3, AttemptFailsUnderWay, GotoUnderWay, AcceptUnderWay
  <2> QED
    BY <2>1, <2>4, <2>5 DEF Typed
<1> QED
  BY <1>1, <1>2, <1>3, <1>4, <1>5 DEF DownloadStep

LEMMA OutputTyped ==
    ASSUME Typed, UnderWay, run.pc = "syncing", NEW written \in {"nothing", "partial", "synced"},
           work' = [work EXCEPT !.output = OutputAfter(written)]
    PROVE  work' \in [download : FileSet, output : FileSet] /\ work'.download = work.download
           /\ work.download # Nothing /\ work'.output = OutputAfter(written)
<1>1. work.download \in FileSet \ {Nothing}
  BY DEF Typed, UnderWay, Trying
<1>2. OutputAfter(written) \in FileSet
  <2>1. CASE written = "nothing"
    BY <2>1 DEF OutputAfter, ClearedOutput, FileSet
  <2>2. CASE written # "nothing"
    BY <2>2, <1>1, RewrittenFile DEF OutputAfter, Forms
  <2> QED
    BY <2>1, <2>2
<1> QED
  BY <1>1, <1>2 DEF Typed

LEMMA SyncStepTyped ==
    ASSUME Typed, UnderWay, SyncStep, UNCHANGED settings
    PROVE  Typed' /\ UnderWay'
<1>1. PICK written \in {"nothing", "partial", "synced"} :
         work' = [work EXCEPT !.output = OutputAfter(written)]
  BY Zenon DEF SyncStep, RunSync, SyncBreaksOff
<1>2. run.pc = "syncing"
      /\ UNCHANGED <<rows, media, packed, manifest, latest, reborn, budget>>
  BY DEF SyncStep, RunSync, SyncBreaksOff, At, cache, history
<1>3. \/ AttemptFails \/ Accept("output") \/ Accept("download")
      \/ run.reference < References /\ run' = [run EXCEPT !.reference = @ + 1]
  BY Zenon DEF SyncStep, RunSync, SyncBreaksOff, WithoutSync
<1>4. "download" \in {"download", "output"} /\ "output" \in {"download", "output"}
  OBVIOUS
<1>5. work' \in [download : FileSet, output : FileSet] /\ work'.download # Nothing
  BY <1>1, <1>2, OutputTyped
<1>6. ASSUME run.reference < References, run' = [run EXCEPT !.reference = @ + 1]
      PROVE  run' \in RunSet /\ UnderWay'
  <2>1. run \in RunSet
    BY DEF Typed
  <2>2. run' \in RunSet /\ run'.pc = run.pc /\ run'.candidate = run.candidate
        /\ run'.id = run.id /\ run'.video = run.video /\ run'.used = run.used
        /\ run'.reference = run.reference + 1
        /\ run'.left = run.left /\ run'.cached = run.cached
    BY <1>6, <2>1 DEF RunSet
  <2>3. run.reference \in Nat /\ run'.reference \in 1..References
    BY <2>1, <2>2, <1>6, ReferencesAreSome DEF RunSet
  <2> QED
    BY <1>2, <1>5, <2>2, <2>3 DEF UnderWay
<1>7. run' \in RunSet /\ UnderWay'
  <2>1. CASE AttemptFails
    BY <1>2, <2>1, AttemptFailsTyped, AttemptFailsUnderWay
  <2>2. CASE Accept("output")
    BY <1>2, <1>4, <1>5, <2>2, AcceptTyped, AcceptUnderWay
  <2>3. CASE Accept("download")
    BY <1>2, <1>4, <1>5, <2>3, AcceptTyped, AcceptUnderWay
  <2> QED
    BY <1>3, <1>6, <2>1, <2>2, <2>3
<1> QED
  BY <1>2, <1>5, <1>7 DEF Typed

-----------------------------------------------------------------------------
(* The names of additional subtitles suffice.                              *)

LEMMA Counted ==
    ASSUME Typed
    PROVE  /\ IsFiniteSet(Begun) /\ Cardinality(Begun) \in Nat /\ Cardinality(Begun) <= MaxIds
           /\ \A v \in Videos : IsFiniteSet(Extras(v)) /\ Cardinality(Extras(v)) \in Nat
           /\ budget.faults \in 0..MaxFaults /\ budget.deletes \in 0..MaxDeletes
           /\ Spent \in Nat /\ Spent <= MaxIds + MaxDeletes + MaxFaults
<1>1. MaxIds \in Nat /\ MaxExtras \in Nat /\ MaxFaults \in Nat /\ MaxDeletes \in Nat
  BY FilesAssumption
<1>2. IsFiniteSet(Ids) /\ Cardinality(Ids) = MaxIds
  BY <1>1, FS_Interval DEF Ids
<1>3. IsFiniteSet(Begun) /\ Cardinality(Begun) <= MaxIds
  BY <1>2, FS_Subset DEF Begun
<1>4. Cardinality(Begun) \in Nat
  BY <1>3, FS_CardinalityType
<1>5. IsFiniteSet(Slots)
  BY <1>1, FS_Interval DEF Slots
<1>6. \A v \in Videos : IsFiniteSet(Extras(v))
  BY <1>5, FS_Subset DEF Extras
<1>7. \A v \in Videos : Cardinality(Extras(v)) \in Nat
  BY <1>6, FS_CardinalityType
<1>8. budget.faults \in 0..MaxFaults /\ budget.deletes \in 0..MaxDeletes
  BY DEF Typed
<1> QED
  BY <1>1, <1>3, <1>4, <1>6, <1>7, <1>8 DEF Spent

LEMMA LeastNatural ==
    ASSUME NEW S, S \subseteq Nat, S # {}
    PROVE  \E m \in S : \A n \in S : m =< n
<1> DEFINE R == {ss \in Nat \X Nat : ss[1] < ss[2]}
<1>1. IsWellFoundedOn(R, Nat)
  BY NatLessThanWellFounded DEF OpToRel
<1>2. \E m \in S : \A n \in S : ~ (<<n, m>> \in R)
  <2> HIDE DEF R
  <2> QED
    BY <1>1, WFMin
<1>3. PICK m \in S : \A n \in S : ~ (<<n, m>> \in R)
  BY <1>2
<1>4. ASSUME NEW n \in S
      PROVE  m =< n
  <2>1. m \in Nat /\ n \in Nat /\ ~ (<<n, m>> \in R)
    BY <1>3
  <2>2. ~ (n < m)
    BY <2>1
  <2> QED
    BY <2>1, <2>2
<1> QED
  BY <1>3, <1>4

LEMMA FreeExtraIsFree ==
    ASSUME Typed, UnderWay, Room, run.pc = "comparing"
    PROVE  FreeExtra \in Slots \ {Main} /\ Beside.slots[FreeExtra] = Nothing
<1> DEFINE Free == {s \in Slots \ {Main} : Beside.slots[s] = Nothing}
<1>1. run.video \in Videos
  BY DEF UnderWay
<1>2. MaxIds \in Nat /\ MaxExtras \in Nat /\ MaxFaults \in Nat /\ MaxDeletes \in Nat
      /\ MaxExtras >= MaxIds + MaxDeletes + MaxFaults
  BY FilesAssumption
<1>3. Cardinality(Extras(run.video)) < MaxExtras
  <2>1. Cardinality(Extras(run.video)) < Spent
    BY <1>1 DEF Room
  <2> QED
    BY <1>1, <1>2, <2>1, Counted
<1>4. Slots \ {Main} = 1..MaxExtras
  BY <1>2 DEF Slots, Main
<1>5. Extras(run.video) # 1..MaxExtras
  BY <1>2, <1>3, FS_Interval
<1>6. \E s \in 1..MaxExtras : s \in Free
  BY <1>1, <1>4, <1>5 DEF Extras, Beside
<1>7. PICK m \in Free : \A n \in Free : m =< n
  <2>1. Free \subseteq Nat /\ Free # {}
    BY <1>2, <1>4, <1>6
  <2> HIDE DEF Free
  <2> QED
    BY <2>1, LeastNatural
<1>8. Min(Free) \in Free
  BY <1>7, Zenon DEF Min
<1>9. FreeExtra = Min(Free)
  BY DEF FreeExtra
<1> QED
  BY <1>8, <1>9

-----------------------------------------------------------------------------
(* The type of the state, at the steps of storing and placing.             *)

LEMMA RunKeyTyped ==
    ASSUME UnderWay, run.pc \notin {"idle", "next"}, run.candidate \in Packs
    PROVE  RunKey \in Keys
BY DEF UnderWay, RunKey, Keys

\* What is stored are members of the pack.
LEMMA StoredMember ==
    ASSUME NEW v \in ToStore
    PROVE  /\ ~run.cached /\ run.candidate \in Packs /\ v \in Videos
           /\ Member[run.candidate][v] # NoText
BY DEF ToStore, Episodes

LEMMA ChosenTyped ==
    ASSUME Typed
    PROVE  Chosen \in FileSet
BY DEF Typed, Chosen

LEMMA CopyMemberTyped ==
    ASSUME Typed, UnderWay, Packing, NEW v \in Videos, CopyMember(v), UNCHANGED settings
    PROVE  Typed' /\ UnderWay'
<1>1. /\ run.pc = "storing" /\ v \in run.store
      /\ packed' = [packed EXCEPT ![RunKey][v] = File(Member[run.candidate][v], "partial")]
      /\ run' = [run EXCEPT !.pc = "copying", !.store = @ \ {v}]
      /\ UNCHANGED <<rows, media, work, manifest, latest, reborn, budget>>
  BY DEF CopyMember, At, history
<1>2. run.candidate \in Packs /\ Member[run.candidate][v] # NoText
  BY <1>1, StoredMember DEF Packing
<1>3. RunKey \in Keys /\ run.candidate \in Candidates
  BY <1>1, <1>2, RunKeyTyped DEF UnderWay
<1>4. File(Member[run.candidate][v], "partial") \in FileSet
  BY <1>2, <1>3, MemberFile DEF Forms
<1>5. packed' \in [Keys -> [Videos -> FileSet]]
  BY <1>1, <1>3, <1>4 DEF Typed
<1>6. run \in RunSet
  BY DEF Typed
<1>7. run' \in RunSet /\ run'.pc = "copying" /\ run'.candidate = run.candidate
      /\ run'.id = run.id /\ run'.video = run.video /\ run'.used = run.used
      /\ run'.reference = run.reference /\ run'.left = run.left /\ run'.cached = run.cached
  BY <1>1, <1>6 DEF RunSet, Pcs, Trying
<1>8. UnderWay'
  BY <1>1, <1>7 DEF UnderWay, Trying
<1> QED
  BY <1>1, <1>5, <1>7, <1>8 DEF Typed

LEMMA MemberCopiedTyped ==
    ASSUME Typed, UnderWay, Packing, MemberCopied, UNCHANGED settings
    PROVE  Typed' /\ UnderWay'
<1>1. /\ run.pc = "copying" /\ Goto("storing")
      /\ packed' = [packed EXCEPT ![RunKey] =
                      [w \in Videos |-> IF @[w].form = "partial"
                                        THEN File(@[w].text, "whole") ELSE @[w]]]
      /\ UNCHANGED <<rows, media, work, manifest, latest, reborn, budget>>
  BY DEF MemberCopied, At, history
<1>2. RunKey \in Keys
  BY <1>1, StoredMember, RunKeyTyped DEF Packing
<1>3. packed[RunKey] \in [Videos -> FileSet]
  BY <1>2 DEF Typed
<1>4. ASSUME NEW w \in Videos, packed[RunKey][w].form = "partial"
      PROVE  File(packed[RunKey][w].text, "whole") \in FileSet
  <2>1. packed[RunKey][w] \in FileSet \ {Nothing}
    BY <1>3, <1>4 DEF Nothing, File
  <2> QED
    BY <2>1, RewrittenFile DEF Forms
<1>5. packed' \in [Keys -> [Videos -> FileSet]]
  BY <1>1, <1>2, <1>3, <1>4 DEF Typed
<1>6. "storing" \in Pcs \ {"idle", "next"}
  BY DEF Pcs, Trying
<1>7. UnderWay' /\ run' \in RunSet
  <2>1. work'.download # Nothing
    BY <1>1 DEF UnderWay, Trying
  <2> QED
    BY <1>1, <1>6, <2>1, GotoTyped, GotoUnderWay
<1> QED
  BY <1>1, <1>5, <1>7 DEF Typed

LEMMA WriteManifestTyped ==
    ASSUME Typed, UnderWay, Packing, WriteManifest, UNCHANGED settings
    PROVE  Typed' /\ UnderWay'
<1>1. /\ run.pc = "storing" /\ Goto("comparing")
      /\ manifest' = [v \in Videos |-> IF v \in ToStore THEN RunKey ELSE manifest[v]]
      /\ UNCHANGED <<rows, media, work, packed, latest, reborn, budget>>
  BY DEF WriteManifest, At, history
<1>2. \A v \in ToStore : RunKey \in Keys
  BY <1>1, StoredMember, RunKeyTyped
<1>3. "comparing" \in Pcs \ {"idle", "next"}
  BY DEF Pcs, Trying
<1>4. work'.download # Nothing
  BY <1>1 DEF UnderWay, Trying
<1>5. UnderWay' /\ run' \in RunSet
  BY <1>1, <1>3, <1>4, GotoTyped, GotoUnderWay
<1>6. manifest' \in [Videos -> Keys \cup {NoKey}]
  BY <1>1, <1>2 DEF Typed
<1> QED
  BY <1>1, <1>5, <1>6 DEF Typed

LEMMA CompareTyped ==
    ASSUME Typed, UnderWay, Room, Compare, UNCHANGED settings
    PROVE  Typed' /\ UnderWay'
<1>1. run.pc = "comparing"
      /\ UNCHANGED <<rows, media, work, packed, manifest, latest, reborn, budget>>
  BY DEF Compare, At, cache, history
<1>2. CASE AttemptFails
  BY <1>1, <1>2, AttemptFailsTyped, AttemptFailsUnderWay DEF Typed
<1>3. CASE run' = [run EXCEPT !.pc = "placing",
                              !.slot = IF run.supplemental THEN FreeExtra ELSE Main]
  <2>1. run \in RunSet /\ FreeExtra \in Slots /\ Main \in Slots
    BY <1>1, FreeExtraIsFree, FilesAssumption DEF Typed, Slots, Main
  <2>2. run' \in RunSet /\ run'.pc = "placing" /\ run'.candidate = run.candidate
        /\ run'.id = run.id /\ run'.video = run.video /\ run'.used = run.used
        /\ run'.reference = run.reference /\ run'.left = run.left /\ run'.cached = run.cached
    BY <1>3, <2>1 DEF RunSet, Pcs, Trying
  <2>3. UnderWay'
    BY <1>1, <2>2 DEF UnderWay, Trying
  <2> QED
    BY <1>1, <2>2, <2>3 DEF Typed
<1> QED
  BY <1>2, <1>3 DEF Compare

\* A step of the placement: it goes on, or the attempt fails.
LEMMA PlacementGoesOn ==
    ASSUME Typed, UnderWay, run.pc \in Trying \cup {"published"},
           NEW pc \in Pcs \ {"idle", "next"}, Goto(pc) \/ AttemptFails,
           UNCHANGED <<rows, settings>>, pc \in Trying => work'.download # Nothing
    PROVE  run' \in RunSet /\ UnderWay'
<1>1. run.pc \notin {"idle", "next"}
  BY DEF Trying
<1> QED
  BY <1>1, AttemptFailsTyped, AttemptFailsUnderWay, GotoTyped, GotoUnderWay

LEMMA SlotWritten ==
    ASSUME Typed, UnderWay, run.pc # "idle", NEW f \in FileSet,
           \/ media' = [media EXCEPT ![run.video].slots[run.slot] = f]
           \/ media' = [media EXCEPT ![run.video].backup = f]
           \/ media' = [media EXCEPT ![run.video].backup = Destination,
                                     ![run.video].slots[run.slot] = f]
    PROVE  media' \in [Videos -> [slots : [Slots -> FileSet], backup : FileSet]]
<1>1. run.video \in Videos /\ run.slot \in Slots
  BY DEF Typed, UnderWay, RunSet
<1>2. media[run.video] \in [slots : [Slots -> FileSet], backup : FileSet]
      /\ Destination \in FileSet
  BY <1>1 DEF Typed, Destination, Beside
<1>3. PICK m \in [slots : [Slots -> FileSet], backup : FileSet] :
          media' = [media EXCEPT ![run.video] = m]
  <2> DEFINE M == media[run.video]
  <2>1. CASE media' = [media EXCEPT ![run.video].slots[run.slot] = f]
    <3>1. media' = [media EXCEPT ![run.video] = [M EXCEPT !.slots[run.slot] = f]]
      BY <1>1, <2>1 DEF Typed
    <3>2. [M EXCEPT !.slots[run.slot] = f] \in [slots : [Slots -> FileSet], backup : FileSet]
      BY <1>1, <1>2
    <3> QED
      BY <3>1, <3>2
  <2>2. CASE media' = [media EXCEPT ![run.video].backup = f]
    <3>1. media' = [media EXCEPT ![run.video] = [M EXCEPT !.backup = f]]
      BY <1>1, <2>2 DEF Typed
    <3>2. [M EXCEPT !.backup = f] \in [slots : [Slots -> FileSet], backup : FileSet]
      BY <1>1, <1>2
    <3> QED
      BY <3>1, <3>2
  <2>3. CASE media' = [media EXCEPT ![run.video].backup = Destination,
                                    ![run.video].slots[run.slot] = f]
    <3>1. media' = [media EXCEPT ![run.video] = [M EXCEPT !.backup = Destination,
                                                          !.slots[run.slot] = f]]
      <4> DEFINE B == [M EXCEPT !.backup = Destination]
                 N == [media EXCEPT ![run.video] = B]
      <4>1. N = [media EXCEPT ![run.video].backup = Destination]
        BY <1>1 DEF Typed
      <4>2. media' = [N EXCEPT ![run.video].slots[run.slot] = f]
        BY <2>3, <4>1
      <4>3. N \in [Videos -> [slots : [Slots -> FileSet], backup : FileSet]] /\ N[run.video] = B
        BY <1>1, <1>2 DEF Typed
      <4>4. media' = [N EXCEPT ![run.video] = [B EXCEPT !.slots[run.slot] = f]]
        <5> HIDE DEF N, B
        <5> QED
          BY <1>1, <4>2, <4>3
      <4>5. \A x : [N EXCEPT ![run.video] = x] = [media EXCEPT ![run.video] = x]
        <5> HIDE DEF B
        <5> QED
          BY <1>1 DEF Typed
      <4> QED
        BY <4>4, <4>5
    <3>2. [M EXCEPT !.backup = Destination, !.slots[run.slot] = f]
             \in [slots : [Slots -> FileSet], backup : FileSet]
      BY <1>1, <1>2
    <3> QED
      BY <3>1, <3>2
  <2> QED
    BY <2>1, <2>2, <2>3
<1> QED
  BY <1>1, <1>3 DEF Typed

LEMMA PlaceTyped ==
    ASSUME Typed, UnderWay, Place \/ BackUp \/ CopyBeside \/ Publish \/ RemoveSource,
           UNCHANGED settings
    PROVE  Typed' /\ UnderWay'
<1>0. /\ {"saving", "replacing", "publishing", "published", "recording"} \subseteq Pcs \ {"idle", "next"}
      /\ run.pc \in {"placing", "replacing", "saving", "publishing"} =>
            run.pc \in Trying /\ run.pc # "idle" /\ work.download # Nothing
      /\ Nothing \in FileSet
  BY DEF Pcs, Trying, UnderWay, FileSet
<1>1. CASE Place
  <2>1. /\ run.pc = "placing" /\ UNCHANGED <<rows, work, packed, manifest, latest, reborn, budget>>
        /\ Goto("saving") \/ Goto("replacing") \/ AttemptFails
        /\ \/ UNCHANGED media
           \/ media' = [media EXCEPT ![run.video].slots[run.slot] = Nothing]
           \/ media' = [media EXCEPT ![run.video].backup = Nothing]
    BY <1>1 DEF Place, At, cache, history
  <2>2. media' \in [Videos -> [slots : [Slots -> FileSet], backup : FileSet]]
    BY <1>0, <2>1, SlotWritten DEF Typed
  <2>3. run' \in RunSet /\ UnderWay'
    BY <1>0, <2>1, PlacementGoesOn
  <2> QED
    BY <2>1, <2>2, <2>3 DEF Typed
<1>2. CASE BackUp
  <2>1. /\ run.pc = "replacing" /\ UNCHANGED <<rows, work, packed, manifest, latest, reborn, budget>>
        /\ Goto("saving")
        /\ media' = [media EXCEPT ![run.video].backup = Destination,
                                  ![run.video].slots[run.slot] = Nothing]
    BY <1>2 DEF BackUp, At, cache, history
  <2>2. media' \in [Videos -> [slots : [Slots -> FileSet], backup : FileSet]]
    BY <1>0, <2>1, SlotWritten
  <2>3. run' \in RunSet /\ UnderWay'
    BY <1>0, <2>1, PlacementGoesOn
  <2> QED
    BY <2>1, <2>2, <2>3 DEF Typed
<1>3. CASE CopyBeside
  <2>1. /\ run.pc = "saving"
        /\ UNCHANGED <<rows, media, work, packed, manifest, latest, reborn, budget>>
        /\ Goto("publishing")
    BY <1>3 DEF CopyBeside, At, cache, history
  <2>2. run' \in RunSet /\ UnderWay'
    BY <1>0, <2>1, PlacementGoesOn
  <2> QED
    BY <2>1, <2>2 DEF Typed
<1>4. CASE Publish
  <2>1. /\ run.pc = "publishing" /\ UNCHANGED <<rows, work, packed, manifest, reborn, budget>>
        /\ Goto("published")
        /\ media' = [media EXCEPT ![run.video].slots[run.slot] = Chosen]
        /\ latest' = IF run.slot = Main THEN [latest EXCEPT ![run.video] = Chosen] ELSE latest
    BY <1>4 DEF Publish, At, cache
  <2>2. media' \in [Videos -> [slots : [Slots -> FileSet], backup : FileSet]]
    BY <1>0, <2>1, ChosenTyped, SlotWritten
  <2>3. latest' \in [Videos -> FileSet]
    BY <2>1, ChosenTyped DEF Typed
  <2>4. run' \in RunSet /\ UnderWay'
    <3>1. "published" \notin Trying
      BY DEF Trying
    <3> QED
      BY <1>0, <2>1, <3>1, PlacementGoesOn
  <2> QED
    BY <2>1, <2>2, <2>3, <2>4 DEF Typed
<1>5. CASE RemoveSource
  <2>1. /\ run.pc = "published"
        /\ UNCHANGED <<rows, media, packed, manifest, latest, reborn, budget>>
        /\ Goto("recording")
        /\ \/ work' = [work EXCEPT !.output = Nothing]
           \/ work' = [work EXCEPT !.download = Nothing]
    BY <1>5 DEF RemoveSource, At, cache, history
  <2>2. work' \in [download : FileSet, output : FileSet]
    BY <1>0, <2>1 DEF Typed
  <2>3. run' \in RunSet /\ UnderWay'
    <3>1. "recording" \notin Trying
      BY DEF Trying
    <3> QED
      BY <1>0, <2>1, <3>1, PlacementGoesOn
  <2> QED
    BY <2>1, <2>2, <2>3 DEF Typed
<1> QED
  BY <1>1, <1>2, <1>3, <1>4, <1>5

LEMMA TypedStep ==
    ASSUME Typed, UnderWay, Room, Packing, Next
    PROVE  Typed' /\ UnderWay'
<1>1. UNCHANGED settings /\ (TaskStep \/ DownloadStep \/ SyncStep \/ PlaceStep)
  BY DEF Next
<1>2. ASSUME PlaceStep
      PROVE  Typed' /\ UnderWay'
  <2>1. ASSUME Record
        PROVE  Typed' /\ UnderWay'
    <3>1. run.pc # "idle" /\ EndRun("completed")
          /\ UNCHANGED <<media, packed, manifest, latest, reborn, budget>>
      BY <2>1 DEF Record, At, cache, history
    <3> QED
      BY <1>1, <3>1, EndRunTyped DEF Typed
  <2> QED
    BY <1>1, <1>2, <2>1, CopyMemberTyped, MemberCopiedTyped, WriteManifestTyped, CompareTyped,
       PlaceTyped, Zenon DEF PlaceStep
<1> QED
  BY <1>1, <1>2, TaskStepTyped, DownloadStepTyped, SyncStepTyped

-----------------------------------------------------------------------------
(* What lies beside the videos.  All steps but those of the placement leave *)
(* it alone, and do not lead into the middle of a placement.               *)

Placing == {"placing", "replacing", "saving", "publishing"}

Quiet == \/ TaskStep \/ DownloadStep \/ SyncStep
         \/ \E v \in Videos : CopyMember(v)
         \/ MemberCopied \/ WriteManifest \/ RemoveSource \/ Record

LEMMA QuietOrPlacing ==
    Next => Quiet \/ Compare \/ Place \/ BackUp \/ CopyBeside \/ Publish
BY Zenon DEF Next, PlaceStep, Quiet

LEMMA QuietKeepsMedia ==
    ASSUME Quiet
    PROVE  UNCHANGED <<media, latest>>
<1>1. TaskStep => UNCHANGED <<media, latest>>
  BY DEF TaskStep, BeginTask, DeleteTask, CrashAndRestart, FileError, GiveUp, history
<1>2. DownloadStep => UNCHANGED <<media, latest>>
  BY DEF DownloadStep, Fetch, DownloadArrives, DownloadFails, TakeCached, Check, history
<1>3. SyncStep => UNCHANGED <<media, latest>>
  BY DEF SyncStep, RunSync, SyncBreaksOff, history
<1> QED
  BY <1>1, <1>2, <1>3 DEF Quiet, CopyMember, MemberCopied, WriteManifest, RemoveSource, Record,
     history

\* What a step does to the place of the run in its course.
LEMMA TaskStepPc ==
    ASSUME Typed, TaskStep
    PROVE  run'.pc \in {"idle", "next"}
<1>1. run \in RunSet
  BY DEF Typed
<1>2. \A id \in Ids, v \in Videos, b \in BOOLEAN : BeginTask(id, v, b) => run'.pc = "next"
  BY DEF BeginTask, NoRun
<1>3. \A id \in Ids : DeleteTask(id) => run'.pc = "idle"
  BY DEF DeleteTask, At
<1>4. CrashAndRestart \/ GiveUp => run'.pc = "idle"
  BY DEF CrashAndRestart, GiveUp, EndRun, NoRun
<1>5. FileError => run'.pc = "next"
  BY <1>1 DEF FileError, AttemptFails, RunSet
<1> QED
  BY <1>2, <1>3, <1>4, <1>5, Zenon DEF TaskStep

LEMMA WorkStepPc ==
    ASSUME Typed, DownloadStep \/ SyncStep
    PROVE  /\ run.pc \in {"next", "fetching", "checking", "syncing"}
           /\ run'.pc \in {"next", "fetching", "checking", "syncing", "storing"}
           /\ UNCHANGED <<rows, budget, reborn, packed, manifest>> /\ run'.id = run.id
<1>1. run \in RunSet
  BY DEF Typed
<1>2. CASE DownloadStep
  <2>1. \A c \in Candidates : Fetch(c) => 
            /\ run.pc = "next" /\ run'.pc = "fetching" /\ run'.id = run.id
            /\ UNCHANGED <<rows, budget, reborn, packed, manifest>>
    BY <1>1 DEF Fetch, At, RunSet, cache, history
  <2>2. DownloadArrives =>
            /\ run.pc = "fetching" /\ run'.pc \in {"checking", "next"} /\ run'.id = run.id
            /\ UNCHANGED <<rows, budget, reborn, packed, manifest>>
    <3>1. DownloadArrives => /\ run.pc = "fetching" /\ (AttemptFails \/ Goto("checking"))
                             /\ UNCHANGED <<rows, budget, reborn, packed, manifest>>
      BY DEF DownloadArrives, At, cache, history
    <3>2. AttemptFails \/ Goto("checking") => run'.pc \in {"checking", "next"} /\ run'.id = run.id
      BY <1>1 DEF Goto, AttemptFails, RunSet
    <3> QED
      BY <3>1, <3>2
  <2>3. DownloadFails =>
            /\ run.pc = "fetching" /\ run'.pc = "next" /\ run'.id = run.id
            /\ UNCHANGED <<rows, budget, reborn, packed, manifest>>
    BY <1>1 DEF DownloadFails, At, AttemptFails, RunSet, cache, history
  <2>4. TakeCached =>
            /\ run.pc = "next" /\ run'.pc = "checking" /\ run'.id = run.id
            /\ UNCHANGED <<rows, budget, reborn, packed, manifest>>
    BY <1>1 DEF TakeCached, At, RunSet, cache, history
  <2>5. ASSUME NEW valid \in BOOLEAN, Check(valid)
        PROVE  /\ run.pc = "checking" /\ run'.pc \in {"syncing", "storing", "next"}
               /\ run'.id = run.id /\ UNCHANGED <<rows, budget, reborn, packed, manifest>>
    <3>1. AttemptFails \/ Goto("syncing") \/ Accept("download")
      BY <2>5, Zenon DEF Check
    <3>2. run'.pc \in {"syncing", "storing", "next"} /\ run'.id = run.id
      BY <1>1, <3>1 DEF Goto, Accept, AttemptFails, RunSet
    <3> QED
      BY <2>5, <3>2 DEF Check, At, cache, history
  <2> QED
    BY <1>2, <2>1, <2>2, <2>3, <2>4, <2>5 DEF DownloadStep
<1>3. CASE SyncStep
  <2>1. run.pc = "syncing" /\ UNCHANGED <<rows, budget, reborn, packed, manifest>>
    BY <1>3 DEF SyncStep, RunSync, SyncBreaksOff, At, cache, history
  <2>2. \/ AttemptFails \/ Accept("output") \/ Accept("download")
        \/ run' = [run EXCEPT !.reference = @ + 1]
    BY <1>3, Zenon DEF SyncStep, RunSync, SyncBreaksOff, WithoutSync
  <2>3. run'.pc \in {"next", "syncing", "storing"} /\ run'.id = run.id
    BY <1>1, <2>1, <2>2 DEF AttemptFails, Accept, RunSet
  <2> QED
    BY <2>1, <2>3
<1> QED
  BY <1>2, <1>3

LEMMA StoreStepPc ==
    ASSUME Typed, \/ \E v \in Videos : CopyMember(v)
                  \/ MemberCopied \/ WriteManifest \/ RemoveSource \/ Record
    PROVE  /\ run.pc \in {"storing", "copying", "published", "recording"}
           /\ run'.pc \in {"storing", "copying", "comparing", "recording", "idle"}
           /\ run'.pc \in {"recording", "idle"} <=> run.pc \in {"published", "recording"}
           /\ UNCHANGED <<budget, reborn>>
<1>1. run \in RunSet
  BY DEF Typed
<1>2. \A v \in Videos : CopyMember(v) =>
          /\ run.pc = "storing" /\ run'.pc = "copying" /\ UNCHANGED <<budget, reborn>>
  BY <1>1 DEF CopyMember, At, RunSet, history
<1>3. MemberCopied =>
          /\ run.pc = "copying" /\ run'.pc = "storing" /\ UNCHANGED <<budget, reborn>>
  BY <1>1 DEF MemberCopied, At, Goto, RunSet, history
<1>4. WriteManifest =>
          /\ run.pc = "storing" /\ run'.pc = "comparing" /\ UNCHANGED <<budget, reborn>>
  BY <1>1 DEF WriteManifest, At, Goto, RunSet, history
<1>5. RemoveSource =>
          /\ run.pc = "published" /\ run'.pc = "recording" /\ UNCHANGED <<budget, reborn>>
  BY <1>1 DEF RemoveSource, At, Goto, RunSet, history
<1>6. Record =>
          /\ run.pc = "recording" /\ run'.pc = "idle" /\ UNCHANGED <<budget, reborn>>
  BY DEF Record, At, EndRun, NoRun, history
<1> QED
  BY <1>2, <1>3, <1>4, <1>5, <1>6

LEMMA QuietLeadsNowhere ==
    ASSUME Typed, Quiet
    PROVE  run'.pc \notin Placing
BY TaskStepPc, WorkStepPc, StoreStepPc DEF Quiet, Placing

LEMMA PlaceSteps ==
    ASSUME Typed, UnderWay, Cleared, Place
    PROVE  /\ run.pc = "placing" /\ run.video \in Videos /\ run.slot \in Slots
           /\ \/ /\ Destination = Nothing /\ Goto("saving") /\ UNCHANGED media
              \/ AttemptFails /\ UNCHANGED media
              \/ /\ Destination # Nothing /\ run.slot = Main /\ settings.overwrite
                 /\ \/ /\ settings.keepBackup /\ Goto("replacing")
                       /\ media' = [media EXCEPT ![run.video].backup = Nothing]
                    \/ /\ ~settings.keepBackup /\ Goto("saving")
                       /\ media' = [media EXCEPT ![run.video].slots[run.slot] = Nothing]
<1>1. run.pc = "placing"
  BY DEF Place, At
<1>2. run.video \in Videos /\ run.slot \in Slots
  BY <1>1 DEF Typed, UnderWay, RunSet
<1>3. CASE Destination = Nothing
  BY <1>1, <1>2, <1>3 DEF Place
<1>4. CASE Destination # Nothing
  <2>1. run.slot = Main
    BY <1>1, <1>4 DEF Cleared
  <2> QED
    BY <1>1, <1>2, <1>4, <2>1 DEF Place
<1> QED
  BY <1>3, <1>4

LEMMA ClearedStep ==
    ASSUME Typed, UnderWay, Room, Cleared, Next
    PROVE  Cleared'
<1>0. run \in RunSet /\ UNCHANGED settings
  BY DEF Typed, Next
<1>1. CASE Quiet
  BY <1>1, QuietLeadsNowhere DEF Cleared, Placing
<1>2. CASE Compare
  <2>1. run.pc = "comparing" /\ UNCHANGED media
    BY <1>2 DEF Compare, At
  <2>2. CASE AttemptFails
    BY <1>0, <2>2 DEF AttemptFails, RunSet, Cleared
  <2>3. CASE run' = [run EXCEPT !.pc = "placing",
                                !.slot = IF run.supplemental THEN FreeExtra ELSE Main]
    <3>1. Beside.slots[FreeExtra] = Nothing
      BY <2>1, FreeExtraIsFree
    <3>2. run'.pc = "placing" /\ run'.slot \in {FreeExtra, Main} /\ run'.video = run.video
      BY <1>0, <2>3 DEF RunSet
    <3> QED
      BY <2>1, <3>1, <3>2 DEF Cleared, Destination, Beside
  <2> QED
    BY <1>2, <2>2, <2>3 DEF Compare
<1>3. CASE Place
  <2>1. ASSUME AttemptFails
        PROVE  Cleared'
    BY <1>0, <2>1 DEF AttemptFails, RunSet, Cleared
  <2>2. ASSUME Destination = Nothing, Goto("saving"), UNCHANGED media
        PROVE  Cleared'
    BY <1>0, <2>2 DEF Goto, RunSet, Cleared, Destination, Beside
  <2>3. ASSUME settings.keepBackup, settings.overwrite, run.slot = Main, Goto("replacing"),
               run.video \in Videos, run.slot \in Slots, Destination # Nothing,
               media' = [media EXCEPT ![run.video].backup = Nothing]
        PROVE  Cleared'
    <3>1. media'[run.video].slots = media[run.video].slots
      BY <2>3 DEF Typed
    <3> QED
      BY <1>0, <2>3, <3>1 DEF Goto, RunSet, Cleared, Destination, Beside
  <2>4. ASSUME Goto("saving"), run.video \in Videos, run.slot \in Slots,
               media' = [media EXCEPT ![run.video].slots[run.slot] = Nothing]
        PROVE  Cleared'
    <3>1. media'[run.video].slots[run.slot] = Nothing
      BY <2>4 DEF Typed
    <3> QED
      BY <1>0, <2>4, <3>1 DEF Goto, RunSet, Cleared, Destination, Beside
  <2> QED
    BY <1>3, <2>1, <2>2, <2>3, <2>4, PlaceSteps
<1>4. CASE BackUp
  <2>1. /\ run.pc = "replacing" /\ Goto("saving")
        /\ media' = [media EXCEPT ![run.video].backup = Destination,
                                  ![run.video].slots[run.slot] = Nothing]
    BY <1>4 DEF BackUp, At
  <2>2. run.video \in Videos /\ run.slot \in Slots
    BY <2>1 DEF Typed, UnderWay, RunSet
  <2>3. media'[run.video].slots[run.slot] = Nothing
    BY <2>1, <2>2 DEF Typed
  <2> QED
    BY <1>0, <2>1, <2>3 DEF Goto, RunSet, Cleared, Destination, Beside
<1>5. CASE CopyBeside
  BY <1>0, <1>5 DEF CopyBeside, At, Goto, RunSet, Cleared, Destination, Beside
<1>6. CASE Publish
  BY <1>0, <1>6 DEF Publish, At, Goto, RunSet, Cleared
<1> QED
  BY <1>1, <1>2, <1>3, <1>4, <1>5, <1>6, QuietOrPlacing

\* What a step does to one name beside a video.
LEMMA SlotsStep ==
    ASSUME Typed, UnderWay, Cleared, Next, NEW v \in Videos, NEW s \in Slots,
           media'[v].slots[s] # media[v].slots[s]
    PROVE  /\ v = run.video /\ s = run.slot
           /\ \/ /\ Publish /\ media[v].slots[s] = Nothing /\ media'[v].slots[s] = Chosen
              \/ /\ s = Main /\ settings.overwrite /\ media'[v].slots[s] = Nothing
                 /\ Place \/ BackUp
<1>1. ~Quiet
  BY QuietKeepsMedia
<1>2. ~Compare /\ ~CopyBeside
  BY DEF Compare, CopyBeside
<1>3. CASE Place
  <2>1. v = run.video /\ s = run.slot /\ s = Main /\ settings.overwrite
        /\ media' = [media EXCEPT ![run.video].slots[run.slot] = Nothing]
    BY <1>3, PlaceSteps, SMTT(30) DEF Typed
  <2>2. media'[v].slots[s] = Nothing
    BY <2>1 DEF Typed
  <2> QED
    BY <1>3, <2>1, <2>2
<1>4. CASE BackUp
  <2>1. /\ run.pc = "replacing"
        /\ media' = [media EXCEPT ![run.video].backup = Destination,
                                  ![run.video].slots[run.slot] = Nothing]
    BY <1>4 DEF BackUp, At
  <2>2. run.slot = Main /\ settings.overwrite
    BY <2>1 DEF Cleared
  <2>3. v = run.video /\ s = run.slot /\ media'[v].slots[s] = Nothing
    BY <2>1 DEF Typed
  <2> QED
    BY <1>4, <2>2, <2>3
<1>5. CASE Publish
  <2>1. run.pc = "publishing" /\ media' = [media EXCEPT ![run.video].slots[run.slot] = Chosen]
    BY <1>5 DEF Publish, At
  <2>2. Destination = Nothing
    BY <2>1 DEF Cleared
  <2>3. v = run.video /\ s = run.slot /\ media'[v].slots[s] = Chosen
    BY <2>1 DEF Typed
  <2> QED
    BY <1>5, <2>2, <2>3 DEF Destination, Beside
<1> QED
  BY <1>1, <1>2, <1>3, <1>4, <1>5, QuietOrPlacing

LEMMA NothingOverwrittenStep ==
    ASSUME Typed, UnderWay, Cleared, Next
    PROVE  \A v \in Videos, s \in Slots :
              media[v].slots[s] # Nothing /\ (s # Main \/ ~settings.overwrite)
                  => media'[v].slots[s] = media[v].slots[s]
BY SlotsStep

-----------------------------------------------------------------------------
(* What was published last.                                                *)

LatestStep ==
    \A v \in Videos :
        /\ latest'[v] # latest[v] => media'[v].slots[Main] = latest'[v]
        /\ media'[v].slots[Main] # media[v].slots[Main] =>
              media'[v].slots[Main] = latest'[v] \/ media'[v].slots[Main] = Nothing

LEMMA LatestChanges ==
    ASSUME Typed, UnderWay, Cleared, Next
    PROVE  LatestStep
<1> SUFFICES ASSUME NEW v \in Videos
             PROVE  /\ latest'[v] # latest[v] => media'[v].slots[Main] = latest'[v]
                    /\ media'[v].slots[Main] # media[v].slots[Main] =>
                          media'[v].slots[Main] = latest'[v] \/ media'[v].slots[Main] = Nothing
  BY DEF LatestStep
<1>0. Main \in Slots
  BY FilesAssumption DEF Slots, Main
<1>1. CASE Publish
  <2>1. /\ run.pc = "publishing" /\ media' = [media EXCEPT ![run.video].slots[run.slot] = Chosen]
        /\ latest' = IF run.slot = Main THEN [latest EXCEPT ![run.video] = Chosen] ELSE latest
    BY <1>1 DEF Publish, At
  <2>2. CASE v = run.video /\ run.slot = Main
    <3>1. media'[v].slots[Main] = Chosen
      BY <1>0, <2>1, <2>2 DEF Typed
    <3>2. latest'[v] = Chosen
      BY <2>1, <2>2 DEF Typed
    <3> QED
      BY <3>1, <3>2
  <2>3. CASE ~(v = run.video /\ run.slot = Main)
    <3>1. latest'[v] = latest[v]
      BY <2>1, <2>3 DEF Typed
    <3>2. media'[v].slots[Main] = media[v].slots[Main]
      BY <1>0, <2>1, <2>3 DEF Typed
    <3> QED
      BY <3>1, <3>2
  <2> QED
    BY <2>2, <2>3
<1>2. CASE ~Publish
  <2>1. latest' = latest
    BY <1>2, QuietKeepsMedia, QuietOrPlacing DEF Compare, Place, BackUp, CopyBeside, history
  <2>2. media'[v].slots[Main] # media[v].slots[Main] => media'[v].slots[Main] = Nothing
    BY <1>0, <1>2, SlotsStep
  <2> QED
    BY <2>1, <2>2
<1> QED
  BY <1>1, <1>2

LEMMA CurrentStep ==
    ASSUME Typed, UnderWay, Cleared, Current, Next
    PROVE  Current'
BY LatestChanges DEF LatestStep, Current

LEMMA LatestKeptStep ==
    ASSUME Typed, UnderWay, Cleared, Current, LatestKept, Next
    PROVE  LatestKept'
<1> SUFFICES ASSUME settings.keepBackup, NEW v \in Videos, latest'[v] # Nothing
             PROVE  latest'[v] \in {media'[v].slots[Main], media'[v].backup}
  BY DEF LatestKept, Next
<1>0. Main \in Slots
  BY FilesAssumption DEF Slots, Main
<1>1. CASE latest'[v] # latest[v]
  BY <1>1, LatestChanges DEF LatestStep
<1>2. CASE latest'[v] = latest[v] /\ UNCHANGED media
  BY <1>2 DEF LatestKept
<1>3. CASE latest'[v] = latest[v] /\ Place
  <2>1. CASE UNCHANGED media
    BY <1>2, <1>3, <2>1
  <2>2. CASE ~ UNCHANGED media
    <3>1. /\ run.slot = Main /\ Destination # Nothing /\ run.video \in Videos
          /\ media' = [media EXCEPT ![run.video].backup = Nothing]
      BY <1>3, <2>2, PlaceSteps
    <3>2. media'[v].slots = media[v].slots
      BY <3>1 DEF Typed
    <3>3. CASE v = run.video
      BY <1>3, <3>1, <3>2, <3>3 DEF Current, Destination, Beside
    <3>4. CASE v # run.video
      <4>1. media'[v] = media[v]
        BY <3>1, <3>4 DEF Typed
      <4> QED
        BY <1>3, <4>1 DEF LatestKept
    <3> QED
      BY <3>3, <3>4
  <2> QED
    BY <2>1, <2>2
<1>4. CASE latest'[v] = latest[v] /\ BackUp
  <2>1. /\ run.pc = "replacing"
        /\ media' = [media EXCEPT ![run.video].backup = Destination,
                                  ![run.video].slots[run.slot] = Nothing]
    BY <1>4 DEF BackUp, At
  <2>2. run.slot = Main /\ run.video \in Videos
    BY <2>1 DEF Cleared, UnderWay
  <2>3. CASE v = run.video
    <3>1. media'[v].backup = media[v].slots[Main]
      BY <2>1, <2>2, <2>3 DEF Typed, Destination, Beside
    <3>2. media[v].slots[Main] # Nothing
      BY <2>1, <2>2, <2>3 DEF Cleared, Destination, Beside
    <3> QED
      BY <1>4, <3>1, <3>2 DEF Current
  <2>4. CASE v # run.video
    <3>1. media'[v] = media[v]
      BY <2>1, <2>4 DEF Typed
    <3> QED
      BY <1>4, <3>1 DEF LatestKept
  <2> QED
    BY <2>3, <2>4
<1>5. CASE latest'[v] = latest[v] /\ Publish
  <2>1. /\ run.pc = "publishing" /\ media' = [media EXCEPT ![run.video].slots[run.slot] = Chosen]
        /\ latest' = IF run.slot = Main THEN [latest EXCEPT ![run.video] = Chosen] ELSE latest
    BY <1>5 DEF Publish, At
  <2>2. CASE v = run.video /\ run.slot = Main
    <3>1. media'[v].slots[Main] = Chosen /\ latest'[v] = Chosen
      BY <1>0, <2>1, <2>2 DEF Typed
    <3> QED
      BY <3>1
  <2>3. CASE ~(v = run.video /\ run.slot = Main)
    <3>1. media'[v].slots[Main] = media[v].slots[Main] /\ media'[v].backup = media[v].backup
      BY <1>0, <2>1, <2>3 DEF Typed
    <3> QED
      BY <1>5, <3>1 DEF LatestKept
  <2> QED
    BY <2>2, <2>3
<1> QED
  BY <1>1, <1>2, <1>3, <1>4, <1>5, QuietKeepsMedia, QuietOrPlacing DEF Compare, CopyBeside

-----------------------------------------------------------------------------
(* The number of additional subtitles.                                     *)

Resting == {"idle", "published", "recording"}

LEMMA RoomKept ==
    ASSUME Typed, Typed', Room, \A v \in Videos : Extras(v)' \subseteq Extras(v),
           \/ Spent' = Spent /\ (run.pc \in Resting => run'.pc \in Resting)
           \/ Spent' = Spent + 1
    PROVE  Room'
<1> SUFFICES ASSUME NEW v \in Videos
             PROVE  /\ Cardinality(Extras(v)') <= Spent'
                    /\ run'.pc \notin Resting => Cardinality(Extras(v)') < Spent'
  BY DEF Room, Resting
<1>1. Cardinality(Extras(v)') <= Cardinality(Extras(v))
  BY Counted, FS_Subset
<1>2. Cardinality(Extras(v)') \in Nat
  BY Counted, FS_CardinalityType, FS_Subset
<1>3. Cardinality(Extras(v)) \in Nat /\ Spent \in Nat
  BY Counted
<1>4. /\ Cardinality(Extras(v)) <= Spent
      /\ run.pc \notin Resting => Cardinality(Extras(v)) < Spent
  BY DEF Room, Resting
<1>5. Spent' \in Nat
  BY <1>3
<1> QED
  BY <1>1, <1>2, <1>3, <1>4, <1>5

LEMMA BegunKept ==
    ASSUME Typed, NEW t \in Ids, rows[t] # "none", NEW status, status # "none",
           rows' = [rows EXCEPT ![t] = status]
    PROVE  Begun' = Begun
BY DEF Typed, Begun

LEMMA RoomTaskStep ==
    ASSUME Typed, Typed', UnderWay, Room, TaskStep, UNCHANGED settings
    PROVE  Room'
<1>0. \A v \in Videos : Extras(v)' \subseteq Extras(v)
  BY QuietKeepsMedia DEF Quiet, Extras
<1>a. IsFiniteSet(Begun) /\ Cardinality(Begun) \in Nat
      /\ budget.faults \in Nat /\ budget.deletes \in Nat /\ Spent \in Nat
  BY Counted, FilesAssumption
<1>b. run.pc # "idle" => run.id \in Ids /\ rows[run.id] = "running"
  BY DEF UnderWay
<1>1. ASSUME NEW id \in Ids, NEW v \in Videos, NEW supplemental \in BOOLEAN,
             BeginTask(id, v, supplemental)
      PROVE  Spent' = Spent + 1
  <2>1. rows[id] = "none" /\ rows' = [rows EXCEPT ![id] = "running"] /\ UNCHANGED budget
    BY <1>1 DEF BeginTask
  <2>2. Begun' = Begun \cup {id} /\ id \notin Begun
    BY <2>1 DEF Begun, Typed
  <2>3. Cardinality(Begun') = Cardinality(Begun) + 1
    BY <1>a, <2>2, FS_AddElement
  <2> QED
    BY <1>a, <2>1, <2>3 DEF Spent
<1>2. ASSUME NEW id \in Ids, DeleteTask(id)
      PROVE  Spent' = Spent /\ run'.pc = "idle"
  <2>1. /\ rows[id] # "none" /\ rows' = [rows EXCEPT ![id] = "none"]
        /\ budget' = [budget EXCEPT !.deletes = @ + 1] /\ run.pc = "idle" /\ UNCHANGED run
    BY <1>2 DEF DeleteTask, At
  <2>2. Begun' = Begun \ {id} /\ id \in Begun
    BY <2>1 DEF Begun, Typed
  <2>3. Cardinality(Begun') = Cardinality(Begun) - 1
    BY <1>a, <2>2, FS_RemoveElement
  <2>4. budget'.deletes = budget.deletes + 1 /\ budget'.faults = budget.faults
    BY <2>1 DEF Typed
  <2> QED
    BY <1>a, <2>1, <2>3, <2>4 DEF Spent
<1>3. ASSUME CrashAndRestart \/ FileError
      PROVE  Spent' = Spent + 1
  <2>1. budget' = [budget EXCEPT !.faults = @ + 1]
    BY <1>3 DEF CrashAndRestart, FileError
  <2>2. Begun' = Begun
    <3>1. CASE CrashAndRestart
      <4>1. run.pc # "idle" /\ rows' = [rows EXCEPT ![run.id] = "interrupted"]
        BY <3>1 DEF CrashAndRestart, At
      <4> QED
        BY <1>b, <4>1, BegunKept
    <3>2. CASE FileError
      BY <3>2 DEF FileError, Begun
    <3> QED
      BY <1>3, <3>1, <3>2
  <2>3. budget'.faults = budget.faults + 1 /\ budget'.deletes = budget.deletes
    BY <2>1 DEF Typed
  <2> QED
    BY <1>a, <2>2, <2>3 DEF Spent
<1>4. ASSUME GiveUp
      PROVE  Spent' = Spent /\ run'.pc = "idle"
  <2>1. run.pc # "idle" /\ rows' = [rows EXCEPT ![run.id] = "failed"] /\ run' = NoRun
        /\ UNCHANGED budget
    BY <1>4 DEF GiveUp, At, EndRun
  <2>2. Begun' = Begun
    BY <1>b, <2>1, BegunKept
  <2> QED
    BY <2>1, <2>2 DEF Spent, NoRun
<1>5. \/ Spent' = Spent /\ run'.pc = "idle"
      \/ Spent' = Spent + 1
  BY <1>1, <1>2, <1>3, <1>4, Zenon DEF TaskStep
<1> QED
  BY <1>0, <1>5, RoomKept DEF Resting

LEMMA RoomPublish ==
    ASSUME Typed, Typed', UnderWay, Room, Publish, UNCHANGED settings
    PROVE  Room'
<1>1. /\ run.pc = "publishing" /\ media' = [media EXCEPT ![run.video].slots[run.slot] = Chosen]
      /\ Goto("published") /\ UNCHANGED <<rows, budget>>
  BY DEF Publish, At
<1>2. run'.pc = "published" /\ Spent' = Spent
  BY <1>1 DEF Typed, RunSet, Goto, Spent, Begun
<1> SUFFICES ASSUME NEW v \in Videos
             PROVE  Cardinality(Extras(v)') <= Spent'
  BY <1>2 DEF Room
<1>3. IsFiniteSet(Extras(v)) /\ Cardinality(Extras(v)) \in Nat /\ Spent \in Nat
      /\ Cardinality(Extras(v)) < Spent
  BY <1>1, Counted DEF Room
<1>4. Extras(v)' \subseteq Extras(v) \cup {run.slot}
  BY <1>1 DEF Typed, Extras
<1>5. IsFiniteSet(Extras(v) \cup {run.slot})
      /\ Cardinality(Extras(v) \cup {run.slot}) <= Cardinality(Extras(v)) + 1
  BY <1>3, FS_AddElement
<1>6. Cardinality(Extras(v)') <= Cardinality(Extras(v) \cup {run.slot})
      /\ IsFiniteSet(Extras(v)')
  BY <1>4, <1>5, FS_Subset
<1>7. Cardinality(Extras(v)') \in Nat /\ Cardinality(Extras(v) \cup {run.slot}) \in Nat
  BY <1>5, <1>6, FS_CardinalityType
<1> QED
  BY <1>2, <1>3, <1>5, <1>6, <1>7

LEMMA RoomStep ==
    ASSUME Typed, Typed', UnderWay, Cleared, Room, Next
    PROVE  Room'
<1>0. UNCHANGED settings /\ run \in RunSet
  BY DEF Typed, Next
<1>1. CASE TaskStep
  BY <1>0, <1>1, RoomTaskStep
<1>2. CASE Publish
  BY <1>0, <1>2, RoomPublish
<1>3. CASE ~TaskStep /\ ~Publish
  <2>1. \A v \in Videos : Extras(v)' \subseteq Extras(v)
    BY <1>3, SlotsStep DEF Extras
  <2>2. Begun' = Begun /\ UNCHANGED budget
    <3>1. CASE Record
      <4>1. run.pc # "idle" /\ rows' = [rows EXCEPT ![run.id] = "completed"] /\ UNCHANGED budget
        BY <3>1 DEF Record, At, EndRun
      <4>2. run.id \in Ids /\ rows[run.id] # "none"
        BY <4>1 DEF UnderWay
      <4> QED
        BY <4>1, <4>2, BegunKept
    <3>2. CASE ~Record
      <4>1. UNCHANGED <<rows, budget>>
        BY <1>3, <3>2, WorkStepPc, QuietOrPlacing
           DEF Quiet, CopyMember, MemberCopied, WriteManifest, RemoveSource,
               Compare, Place, BackUp, CopyBeside
      <4> QED
        BY <4>1 DEF Begun
    <3> QED
      BY <3>1, <3>2
  <2>3. Spent' = Spent
    BY <2>2 DEF Spent
  <2>4. run.pc \in Resting => run'.pc \in Resting
    BY <1>3, WorkStepPc, StoreStepPc, QuietOrPlacing
       DEF Quiet, Resting, Compare, Place, BackUp, CopyBeside, At
  <2> QED
    BY <2>1, <2>3, <2>4, RoomKept
<1> QED
  BY <1>1, <1>2, <1>3

-----------------------------------------------------------------------------
(* What is published is the worker's own file.                             *)

\* A step that ends in a failed attempt, or with the run.
LEMMA AttemptFailsAligned ==
    ASSUME Typed, Aligned, AttemptFails, reborn \subseteq reborn', UNCHANGED media,
           UNCHANGED work \/ work'.download = work.download \/ work'.download.form # "partial"
    PROVE  Aligned'
<1>1. run'.pc = "next" /\ run'.source = "download"
  BY DEF Typed, RunSet, AttemptFails
<1> QED
  BY <1>1 DEF Aligned, Trying

LEMMA AlignedTaskStep ==
    ASSUME Typed, UnderWay, Aligned, TaskStep
    PROVE  Aligned'
<1>0. UNCHANGED media
  BY QuietKeepsMedia DEF Quiet
<1>1. ASSUME NEW id \in Ids, NEW v \in Videos, NEW supplemental \in BOOLEAN,
             BeginTask(id, v, supplemental)
      PROVE  Aligned'
  <2>1. run'.pc = "next" /\ run'.source = "download" /\ UNCHANGED <<work, reborn>>
    BY <1>1 DEF BeginTask, NoRun, history
  <2> QED
    BY <1>0, <2>1 DEF Aligned, Trying
<1>2. ASSUME NEW id \in Ids, DeleteTask(id)
      PROVE  Aligned'
  <2>1. UNCHANGED <<run, work>> /\ reborn \subseteq reborn'
    BY <1>2 DEF DeleteTask
  <2> QED
    BY <1>0, <2>1 DEF Aligned
<1>3. CASE CrashAndRestart \/ GiveUp
  <2>1. run' = NoRun /\ work' = EmptyWork /\ UNCHANGED reborn
    BY <1>3 DEF CrashAndRestart, GiveUp, EndRun, history
  <2> QED
    BY <1>0, <2>1 DEF Aligned, NoRun, EmptyWork, Nothing, File, Trying
<1>4. CASE FileError
  BY <1>0, <1>4, AttemptFailsAligned DEF FileError, history
<1> QED
  BY <1>1, <1>2, <1>3, <1>4, Zenon DEF TaskStep

LEMMA AlignedDownloadStep ==
    ASSUME Typed, UnderWay, Aligned, Packing, DownloadStep
    PROVE  Aligned'
<1>0. UNCHANGED <<media, reborn>> /\ run \in RunSet
  BY QuietKeepsMedia, WorkStepPc DEF Quiet, Typed
<1>1. ASSUME NEW c \in Candidates, Fetch(c)
      PROVE  Aligned'
  <2>1. run'.pc = "fetching" /\ run'.source = run.source /\ run.pc = "next"
        /\ work'.download = Nothing
    BY <1>0, <1>1 DEF Fetch, At, RunSet, Typed
  <2> QED
    BY <1>0, <2>1 DEF Aligned, Trying, Nothing, File
<1>2. CASE DownloadArrives
  <2>1. CASE AttemptFails /\ UNCHANGED work
    BY <1>0, <2>1, AttemptFailsAligned
  <2>2. CASE Goto("checking") /\ run.pc = "fetching"
             /\ work' = [work EXCEPT !.download = File(Member[run.candidate][run.video], "whole")]
    <3>1. run'.pc = "checking" /\ run'.source = run.source /\ work'.download.form = "whole"
      BY <1>0, <2>2 DEF Goto, RunSet, Typed, File
    <3> QED
      BY <1>0, <2>2, <3>1 DEF Aligned
  <2> QED
    BY <1>2, <2>1, <2>2 DEF DownloadArrives, At
<1>3. CASE DownloadFails
  BY <1>0, <1>3, AttemptFailsAligned DEF DownloadFails
<1>4. CASE TakeCached
  <2>1. PICK k \in Cached(run.video) :
          /\ work' = [work EXCEPT !.download = packed[k][run.video]]
          /\ run' = [run EXCEPT !.pc = "checking", !.candidate = k.candidate, !.cached = TRUE]
    BY <1>4 DEF TakeCached
  <2>2. run.pc = "next" /\ run.video \in Videos
    BY <1>4 DEF TakeCached, At, UnderWay
  <2>3. k = manifest[run.video] /\ manifest[run.video] # NoKey
    BY <2>1 DEF Cached
  <2>4. packed[k][run.video].form = "whole" \/ reborn # {}
    <3>1. \/ k.id \in reborn
          \/ packed[k][run.video] = File(Member[k.candidate][run.video], "whole")
      BY <2>2, <2>3 DEF Packing
    <3> QED
      BY <3>1 DEF File
  <2>5. run'.pc = "checking" /\ run'.source = "download"
    BY <1>0, <2>1, <2>2 DEF RunSet, Aligned
  <2>6. work'.download = packed[k][run.video]
    BY <2>1 DEF Typed
  <2> QED
    BY <1>0, <2>4, <2>5, <2>6 DEF Aligned
<1>5. ASSUME NEW valid \in BOOLEAN, Check(valid)
      PROVE  Aligned'
  <2>1. AttemptFails \/ Goto("syncing") \/ Accept("download")
    BY <1>5, Zenon DEF Check
  <2>2. run.pc = "checking" /\ UNCHANGED work
    BY <1>5 DEF Check, At
  <2>3. CASE AttemptFails
    BY <1>0, <2>2, <2>3, AttemptFailsAligned
  <2>4. CASE Goto("syncing") \/ Accept("download")
    <3>1. run'.source = "download"
      BY <1>0, <2>2, <2>4 DEF Goto, Accept, RunSet, Aligned
    <3> QED
      BY <1>0, <2>2, <3>1 DEF Aligned
  <2> QED
    BY <2>1, <2>3, <2>4
<1> QED
  BY <1>1, <1>2, <1>3, <1>4, <1>5 DEF DownloadStep

LEMMA AlignedSyncStep ==
    ASSUME Typed, UnderWay, Aligned, SyncStep
    PROVE  Aligned'
<1>0. /\ UNCHANGED <<media, reborn>> /\ run \in RunSet
  BY QuietKeepsMedia, WorkStepPc DEF Quiet, Typed
<1>1. run.pc = "syncing" /\ run.source = "download"
  BY DEF SyncStep, RunSync, SyncBreaksOff, At, Aligned
<1>2. PICK written \in {"nothing", "partial", "synced"} :
         /\ work' = [work EXCEPT !.output = OutputAfter(written)]
         /\ \/ AttemptFails \/ Accept("download")
            \/ run' = [run EXCEPT !.reference = @ + 1]
            \/ Accept("output") /\ written = "synced"
  <2>1. ASSUME NEW written \in {"nothing", "synced"}, NEW exitcode \in {0, 1},
               NEW verdict \in {"fine", "low_quality", "no_speech"},
               RunSync(written, exitcode, verdict)
        PROVE  /\ work' = [work EXCEPT !.output = OutputAfter(written)]
               /\ \/ AttemptFails \/ Accept("download")
                  \/ run' = [run EXCEPT !.reference = @ + 1]
                  \/ Accept("output") /\ written = "synced"
    <3>1. SyncSucceeds(written, exitcode, verdict) => written = "synced"
      BY DEF SyncSucceeds, OutputAfter, ClearedOutput
    <3> QED
      BY <2>1, <3>1, Zenon DEF RunSync, WithoutSync
  <2>2. ASSUME NEW written \in {"nothing", "partial"}, SyncBreaksOff(written)
        PROVE  /\ work' = [work EXCEPT !.output = OutputAfter(written)]
               /\ AttemptFails \/ Accept("download")
    BY <2>2, Zenon DEF SyncBreaksOff, WithoutSync
  <2> QED
    BY <2>1, <2>2 DEF SyncStep
<1>3. work'.download = work.download /\ work'.output = OutputAfter(written)
  BY <1>1, <1>2, OutputTyped
<1>4. CASE AttemptFails
  BY <1>0, <1>3, <1>4, AttemptFailsAligned
<1>5. CASE Accept("download") \/ run' = [run EXCEPT !.reference = @ + 1]
  <2>1. run'.source = "download"
    BY <1>0, <1>1, <1>5 DEF Accept, RunSet
  <2> QED
    BY <1>0, <1>3, <2>1 DEF Aligned
<1>6. CASE Accept("output") /\ written = "synced"
  <2>1. run'.pc = "storing" /\ work'.output = File(work.download.text, "synced")
    BY <1>0, <1>3, <1>6 DEF Accept, RunSet, OutputAfter
  <2> QED
    BY <1>0, <1>3, <2>1 DEF Aligned
<1> QED
  BY <1>2, <1>4, <1>5, <1>6

LEMMA AlignedPlaceStep ==
    ASSUME Typed, UnderWay, Cleared, Aligned, Next, PlaceStep
    PROVE  Aligned'
<1>0. UNCHANGED reborn /\ run \in RunSet
  BY DEF PlaceStep, CopyMember, MemberCopied, WriteManifest, Compare, Place, BackUp, CopyBeside,
     Publish, RemoveSource, Record, history, Typed
<1>1. CASE Record
  <2>1. run' = NoRun /\ work' = EmptyWork /\ UNCHANGED <<reborn, media>>
    BY <1>1 DEF Record, EndRun, history
  <2> QED
    BY <2>1 DEF Aligned, NoRun, EmptyWork, Nothing, File, Trying
<1>2. CASE RemoveSource
  <2>1. run'.pc = "recording" /\ UNCHANGED media
        /\ work'.download.form \in {work.download.form, "none"}
    BY <1>0, <1>2 DEF RemoveSource, Goto, RunSet, Typed, Nothing, File
  <2> QED
    BY <1>0, <2>1 DEF Aligned, Trying
<1>3. CASE AttemptFails /\ UNCHANGED <<work, media>>
  BY <1>0, <1>3, AttemptFailsAligned
<1>4. ASSUME ~Record, ~RemoveSource, ~(AttemptFails /\ UNCHANGED <<work, media>>)
      PROVE  /\ run.pc \in Trying /\ UNCHANGED work /\ run'.source = run.source
             /\ run'.pc \in Trying \cup {"published"} /\ run'.pc \notin {"checking", "syncing"}
  <2>1. run.pc \in Trying /\ UNCHANGED work
    BY <1>4 DEF PlaceStep, CopyMember, MemberCopied, WriteManifest, Compare, Place, BackUp,
       CopyBeside, Publish, At, Trying
  <2>2. \/ \E pc \in {"storing", "comparing", "saving", "replacing", "publishing", "published"} :
                Goto(pc)
        \/ Compare \/ \E v \in Videos : CopyMember(v)
    BY <1>4 DEF PlaceStep, MemberCopied, WriteManifest, Place, BackUp, CopyBeside, Publish
  <2>3. CASE \E pc \in {"storing", "comparing", "saving", "replacing", "publishing", "published"} :
                Goto(pc)
    BY <1>0, <2>1, <2>3 DEF Goto, RunSet, Trying
  <2>4. CASE Compare
    <3>1. run' = [run EXCEPT !.pc = "placing",
                             !.slot = IF run.supplemental THEN FreeExtra ELSE Main]
      BY <1>4, <2>4 DEF Compare
    <3> QED
      BY <1>0, <2>1, <3>1 DEF RunSet, Trying
  <2>5. CASE \E v \in Videos : CopyMember(v)
    BY <1>0, <2>1, <2>5 DEF CopyMember, RunSet, Trying
  <2> QED
    BY <2>2, <2>3, <2>4, <2>5
<1>5. ASSUME run.pc = "publishing"
      PROVE  Chosen.form = "partial" => reborn # {}
  <2>1. CASE run.source = "output"
    BY <1>5, <2>1 DEF Aligned, Trying, Chosen, File
  <2>2. CASE run.source # "output"
    BY <2>2 DEF Aligned, Chosen
  <2> QED
    BY <2>1, <2>2
<1>6. \A v \in Videos, s \in Slots : media'[v].slots[s].form = "partial" => reborn # {}
  <2> SUFFICES ASSUME NEW v \in Videos, NEW s \in Slots,
                      media'[v].slots[s] # media[v].slots[s]
               PROVE  media'[v].slots[s].form = "partial" => reborn # {}
    BY DEF Aligned
  <2>1. \/ Publish /\ media'[v].slots[s] = Chosen
        \/ media'[v].slots[s] = Nothing
    BY SlotsStep
  <2> QED
    BY <1>5, <2>1 DEF Publish, At, Nothing, File
<1>7. CASE ~Record /\ ~RemoveSource /\ ~(AttemptFails /\ UNCHANGED <<work, media>>)
  <2>1. run'.pc \notin {"next", "fetching", "checking", "syncing"}
    BY <1>4, <1>7 DEF Trying
  <2>2. run'.pc \in Trying /\ run'.source = "output" =>
          work'.output = File(work'.download.text, "synced")
    BY <1>4, <1>7 DEF Aligned
  <2> QED
    BY <1>0, <1>4, <1>6, <1>7, <2>1, <2>2 DEF Aligned
<1> QED
  BY <1>1, <1>2, <1>3, <1>7

LEMMA AlignedStep ==
    ASSUME Typed, UnderWay, Cleared, Aligned, Packing, Next
    PROVE  Aligned'
BY AlignedTaskStep, AlignedDownloadStep, AlignedSyncStep, AlignedPlaceStep DEF Next

-----------------------------------------------------------------------------
(* What the manifest names is there.                                       *)

\* The parts of Packing.
Named(v) ==
    manifest[v] # NoKey =>
        \/ manifest[v].id \in reborn
        \/ /\ packed[manifest[v]][v] = File(Member[manifest[v].candidate][v], "whole")
           /\ rows[manifest[v].id] # "none"

NotAgain(v) ==
    Mine(v) /\ run.pc # "idle" =>
        \/ run.id \in reborn
        \/ /\ manifest[v].candidate \notin run.left
           /\ run.pc \in {"fetching", "checking", "syncing", "storing", "copying"} =>
                 run.cached \/ manifest[v].candidate # run.candidate

Copied ==
    /\ run.pc \in {"storing", "copying"} =>
          /\ run.store \subseteq ToStore
          /\ \A v \in ToStore \ run.store :
                packed[RunKey][v] \in {File(Member[run.candidate][v], "whole"),
                                       File(Member[run.candidate][v],
                                            IF run.pc = "copying" THEN "partial" ELSE "whole")}
    /\ run.pc = "copying" => ToStore # {}

LEMMA PackingParts ==
    Packing <=> (\A v \in Videos : Named(v)) /\ (\A v \in Videos : NotAgain(v)) /\ Copied
BY DEF Packing, Named, NotAgain, Copied

\* A step that leaves the cache alone.
LEMMA NamedKept ==
    ASSUME Typed, NEW v \in Videos, Named(v), UNCHANGED <<packed, manifest>>,
           reborn \subseteq reborn',
           \A t \in Ids : rows[t] # "none" => rows'[t] # "none" \/ t \in reborn'
    PROVE  Named(v)'
<1>1. manifest[v] # NoKey => manifest[v].id \in Ids
  BY KeyTyped DEF Typed
<1> QED
  BY <1>1 DEF Named

LEMMA NotAgainKept ==
    ASSUME NEW v \in Videos, NotAgain(v), UNCHANGED manifest, reborn \subseteq reborn',
           run.pc # "idle", run'.id = run.id, run'.left \subseteq run.left,
           \/ run'.pc \notin {"fetching", "checking", "syncing", "storing", "copying"}
           \/ /\ run.pc \in {"fetching", "checking", "syncing", "storing", "copying"}
              /\ run'.cached = run.cached /\ run'.candidate = run.candidate
    PROVE  NotAgain(v)'
BY DEF NotAgain, Mine

LEMMA NotCopying ==
    ASSUME run'.pc \notin {"storing", "copying"}
    PROVE  Copied'
BY DEF Copied

LEMMA AttemptFailsPacking ==
    ASSUME Typed, Packing, AttemptFails, run.pc # "idle",
           UNCHANGED <<packed, manifest, reborn, rows>>
    PROVE  Packing'
<1>1. run'.pc = "next" /\ run'.id = run.id /\ run'.left = run.left
  BY DEF Typed, RunSet, AttemptFails
<1>2. \A v \in Videos : Named(v)'
  BY NamedKept, PackingParts
<1>3. \A v \in Videos : NotAgain(v)'
  BY <1>1, NotAgainKept, PackingParts
<1>4. Copied'
  BY <1>1, NotCopying
<1>5. Packing' <=> (\A v \in Videos : Named(v)') /\ (\A v \in Videos : NotAgain(v)') /\ Copied'
  BY DEF Packing, Named, NotAgain, Copied
<1> QED
  BY <1>2, <1>3, <1>4, <1>5

LEMMA PackingTaskStep ==
    ASSUME Typed, UnderWay, Packing, TaskStep
    PROVE  Packing'
<1>0. UNCHANGED <<packed, manifest>> /\ reborn \subseteq reborn'
  BY DEF TaskStep, BeginTask, DeleteTask, CrashAndRestart, FileError, GiveUp, cache, history
<1>1. \A t \in Ids : rows[t] # "none" => rows'[t] # "none" \/ t \in reborn'
  <2>1. \A id \in Ids, v \in Videos, b \in BOOLEAN : BeginTask(id, v, b) =>
           rows' = [rows EXCEPT ![id] = "running"]
    BY DEF BeginTask
  <2>2. \A id \in Ids : DeleteTask(id) =>
           rows' = [rows EXCEPT ![id] = "none"] /\ reborn' = reborn \cup {id}
    BY DEF DeleteTask
  <2>3. CrashAndRestart => rows' = [rows EXCEPT ![run.id] = "interrupted"]
    BY DEF CrashAndRestart
  <2>4. FileError => UNCHANGED rows
    BY DEF FileError
  <2>5. GiveUp => rows' = [rows EXCEPT ![run.id] = "failed"]
    BY DEF GiveUp, EndRun
  <2>6. rows \in [Ids -> {"none", "running", "failed", "completed", "interrupted"}]
    BY DEF Typed
  <2> QED
    BY <2>1, <2>2, <2>3, <2>4, <2>5, <2>6 DEF TaskStep
<1>2. \A v \in Videos : Named(v)'
  BY <1>0, <1>1, NamedKept, PackingParts
<1>3. ASSUME NEW v \in Videos
      PROVE  NotAgain(v)'
  <2>1. ASSUME NEW id \in Ids, NEW w \in Videos, NEW b \in BOOLEAN, BeginTask(id, w, b)
        PROVE  NotAgain(v)'
    <3>1. rows[id] = "none" /\ run'.id = id /\ UNCHANGED reborn
      BY <2>1 DEF BeginTask, NoRun, history
    <3> QED
      BY <1>0, <3>1, PackingParts DEF Named, NotAgain, Mine
  <2>2. CASE run'.pc = "idle"
    BY <2>2 DEF NotAgain
  <2>3. CASE FileError
    <3>1. AttemptFails /\ run.pc # "idle"
      BY <2>3 DEF FileError
    <3>2. run'.pc = "next" /\ run'.id = run.id /\ run'.left = run.left
      BY <3>1 DEF Typed, RunSet, AttemptFails
    <3> QED
      BY <1>0, <3>1, <3>2, NotAgainKept, PackingParts
  <2>4. \A id \in Ids : DeleteTask(id) => run'.pc = "idle"
    BY DEF DeleteTask, At
  <2>5. CrashAndRestart \/ GiveUp => run'.pc = "idle"
    BY DEF CrashAndRestart, GiveUp, EndRun, NoRun
  <2> QED
    BY <2>1, <2>2, <2>3, <2>4, <2>5, Zenon DEF TaskStep
<1>4. Copied'
  <2>1. run'.pc \in {"idle", "next"}
    BY TaskStepPc
  <2> QED
    BY <2>1, NotCopying
<1>5. Packing' <=> (\A v \in Videos : Named(v)') /\ (\A v \in Videos : NotAgain(v)') /\ Copied'
  BY DEF Packing, Named, NotAgain, Copied
<1> QED
  BY <1>2, <1>3, <1>4, <1>5

LEMMA PackingWorkStep ==
    ASSUME Typed, UnderWay, Packing, DownloadStep \/ SyncStep
    PROVE  Packing'
<1>0. /\ run \in RunSet /\ UNCHANGED <<packed, manifest, reborn, rows>>
      /\ run'.id = run.id /\ run.pc \in {"next", "fetching", "checking", "syncing"}
  BY WorkStepPc DEF Typed
<1>1. \A v \in Videos : Named(v)'
  BY <1>0, NamedKept, PackingParts
<1>2. ASSUME (\A v \in Videos : NotAgain(v)') /\ Copied'
      PROVE  Packing'
  <2>1. Packing' <=> (\A v \in Videos : Named(v)') /\ (\A v \in Videos : NotAgain(v)') /\ Copied'
    BY DEF Packing, Named, NotAgain, Copied
  <2> QED
    BY <1>1, <1>2, <2>1
<1>3. ASSUME NEW c \in Candidates, Fetch(c)
      PROVE  Packing'
  <2>1. c \in run.left /\ run' = [run EXCEPT !.pc = "fetching", !.candidate = c, !.left = @ \ {c}]
    BY <1>3 DEF Fetch
  <2>2. run'.pc = "fetching" /\ run'.candidate = c /\ run'.left = run.left \ {c}
    BY <1>0, <2>1 DEF RunSet
  <2>3. \A v \in Videos : NotAgain(v)'
    BY <1>0, <2>1, <2>2, PackingParts DEF NotAgain, Mine
  <2> QED
    BY <1>2, <2>2, <2>3, NotCopying
<1>4. CASE AttemptFails
  BY <1>0, <1>4, AttemptFailsPacking
<1>5. CASE (run.pc = "fetching" /\ Goto("checking")) \/ (run.pc = "checking" /\ Goto("syncing"))
           \/ (run.pc = "syncing" /\ run' = [run EXCEPT !.reference = @ + 1])
  <2>1. run'.pc \in {"checking", "syncing"} /\ run'.cached = run.cached
        /\ run'.candidate = run.candidate /\ run'.left = run.left
    BY <1>0, <1>5 DEF Goto, RunSet
  <2>2. \A v \in Videos : NotAgain(v)'
    BY <1>0, <1>5, <2>1, NotAgainKept, PackingParts
  <2> QED
    BY <1>2, <2>1, <2>2, NotCopying
<1>6. CASE TakeCached
  <2>1. \E k \in Cached(run.video) :
          run' = [run EXCEPT !.pc = "checking", !.candidate = k.candidate, !.cached = TRUE]
    BY <1>6 DEF TakeCached
  <2>2. run'.pc = "checking" /\ run'.cached /\ run'.left = run.left
    BY <1>0, <2>1 DEF RunSet
  <2>3. \A v \in Videos : NotAgain(v)'
    BY <1>0, <2>2, PackingParts DEF NotAgain, Mine
  <2> QED
    BY <1>2, <2>2, <2>3, NotCopying
<1>7. CASE run.pc \in {"checking", "syncing"} /\ (Accept("download") \/ Accept("output"))
  <2>1. run'.pc = "storing" /\ run'.cached = run.cached /\ run'.store = ToStore
        /\ run'.candidate = run.candidate /\ run'.left = run.left
    BY <1>0, <1>7 DEF Accept, RunSet
  <2>2. \A v \in Videos : NotAgain(v)'
    BY <1>0, <1>7, <2>1, NotAgainKept, PackingParts
  <2>3. ToStore' = ToStore
    BY <2>1 DEF ToStore
  <2>4. Copied'
    BY <2>1, <2>3 DEF Copied
  <2> QED
    BY <1>2, <2>2, <2>4
<1>8. CASE DownloadStep
  <2>1. ASSUME NEW valid \in BOOLEAN, Check(valid)
        PROVE  run.pc = "checking" /\ (AttemptFails \/ Goto("syncing") \/ Accept("download"))
    BY <2>1, Zenon DEF Check, At
  <2>2. DownloadArrives => run.pc = "fetching" /\ (AttemptFails \/ Goto("checking"))
    BY DEF DownloadArrives, At
  <2>3. DownloadFails => AttemptFails
    BY DEF DownloadFails
  <2> QED
    BY <1>3, <1>4, <1>5, <1>6, <1>7, <1>8, <2>1, <2>2, <2>3 DEF DownloadStep
<1>9. CASE SyncStep
  <2>1. run.pc = "syncing"
    BY <1>9 DEF SyncStep, RunSync, SyncBreaksOff, At
  <2>2. \/ AttemptFails \/ Accept("output") \/ Accept("download")
        \/ run' = [run EXCEPT !.reference = @ + 1]
    BY <1>9, Zenon DEF SyncStep, RunSync, SyncBreaksOff, WithoutSync
  <2> QED
    BY <1>4, <1>5, <1>7, <2>1, <2>2
<1> QED
  BY <1>8, <1>9

\* While a pack is stored, no episode of the manifest has the copy under way.
LEMMA NotTheOneCopied ==
    ASSUME Typed, UnderWay, Packing, run.pc \in {"storing", "copying"}, ToStore # {},
           NEW v \in Videos, manifest[v] # NoKey, manifest[v].id \notin reborn
    PROVE  manifest[v] # RunKey
<1>1. ~run.cached /\ run.pc # "idle"
  BY DEF ToStore
<1>2. RunKey.id = run.id /\ RunKey.candidate = run.candidate
  BY DEF RunKey, Key
<1>3. CASE manifest[v].id = run.id
  <2>1. Mine(v) /\ run.id \notin reborn
    BY <1>3 DEF Mine
  <2>2. manifest[v].candidate # run.candidate
    BY <1>1, <2>1, PackingParts DEF NotAgain
  <2> QED
    BY <1>2, <2>2
<1>4. CASE manifest[v].id # run.id
  BY <1>2, <1>4
<1> QED
  BY <1>3, <1>4

LEMMA PackingCopyMember ==
    ASSUME Typed, UnderWay, Packing, NEW w \in Videos, CopyMember(w)
    PROVE  Packing'
<1>1. /\ run.pc = "storing" /\ w \in run.store /\ run \in RunSet
      /\ packed' = [packed EXCEPT ![RunKey][w] = File(Member[run.candidate][w], "partial")]
      /\ run' = [run EXCEPT !.pc = "copying", !.store = @ \ {w}]
      /\ UNCHANGED <<rows, manifest, reborn>>
  BY DEF CopyMember, At, history, Typed
<1>2. run'.pc = "copying" /\ run'.store = run.store \ {w} /\ run'.cached = run.cached
      /\ run'.candidate = run.candidate /\ run'.left = run.left /\ run'.id = run.id
  BY <1>1 DEF RunSet
<1>3. run.store \subseteq ToStore /\ w \in ToStore
  BY <1>1 DEF Packing
<1>4. RunKey \in Keys
  BY <1>1, <1>3, StoredMember, RunKeyTyped
<1>5. ToStore' = ToStore /\ RunKey' = RunKey
  BY <1>2 DEF ToStore, RunKey
<1>6. ASSUME NEW v \in Videos
      PROVE  Named(v)'
  <2>1. CASE manifest[v] # NoKey /\ manifest[v].id \notin reborn
    <3>1. manifest[v] # RunKey
      BY <1>1, <1>3, <2>1, NotTheOneCopied
    <3>2. manifest[v] \in Keys
      BY <2>1 DEF Typed
    <3>3. packed'[manifest[v]] = packed[manifest[v]]
      BY <1>1, <1>4, <3>1, <3>2 DEF Typed
    <3> QED
      BY <1>1, <3>3, PackingParts DEF Named
  <2>2. CASE ~(manifest[v] # NoKey /\ manifest[v].id \notin reborn)
    BY <1>1, <2>2 DEF Named
  <2> QED
    BY <2>1, <2>2
<1>7. \A v \in Videos : NotAgain(v)'
  BY <1>1, <1>2, NotAgainKept, PackingParts
<1>8. Copied'
  <2>1. \A v \in ToStore \ run'.store :
           packed'[RunKey][v] \in {File(Member[run.candidate][v], "whole"),
                                   File(Member[run.candidate][v], "partial")}
    <3> SUFFICES ASSUME NEW v \in ToStore \ run'.store
                 PROVE  packed'[RunKey][v] \in {File(Member[run.candidate][v], "whole"),
                                                File(Member[run.candidate][v], "partial")}
      OBVIOUS
    <3>0. v \in Videos
      BY StoredMember
    <3>1. CASE v = w
      BY <1>1, <1>4, <3>1 DEF Typed
    <3>2. CASE v # w
      <4>1. packed'[RunKey][v] = packed[RunKey][v]
        BY <1>1, <1>4, <3>0, <3>2 DEF Typed
      <4>2. v \in ToStore \ run.store
        BY <1>2, <3>2
      <4> QED
        BY <1>1, <4>1, <4>2 DEF Packing
    <3> QED
      BY <3>1, <3>2
  <2> QED
    BY <1>2, <1>3, <1>5, <2>1 DEF Copied
<1>9. Packing' <=> (\A v \in Videos : Named(v)') /\ (\A v \in Videos : NotAgain(v)') /\ Copied'
  BY DEF Packing, Named, NotAgain, Copied
<1> QED
  BY <1>6, <1>7, <1>8, <1>9

LEMMA PackingMemberCopied ==
    ASSUME Typed, UnderWay, Packing, MemberCopied
    PROVE  Packing'
<1>1. /\ run.pc = "copying" /\ run \in RunSet /\ Goto("storing")
      /\ packed' = [packed EXCEPT ![RunKey] =
                      [v \in Videos |-> IF @[v].form = "partial"
                                        THEN File(@[v].text, "whole") ELSE @[v]]]
      /\ UNCHANGED <<rows, manifest, reborn>>
  BY DEF MemberCopied, At, history, Typed
<1>2. run'.pc = "storing" /\ run'.store = run.store /\ run'.cached = run.cached
      /\ run'.candidate = run.candidate /\ run'.left = run.left /\ run'.id = run.id
  BY <1>1 DEF RunSet, Goto
<1>3. ToStore # {} /\ run.store \subseteq ToStore
  BY <1>1 DEF Packing
<1>4. RunKey \in Keys
  BY <1>1, <1>3, StoredMember, RunKeyTyped
<1>5. ToStore' = ToStore /\ RunKey' = RunKey
  BY <1>2 DEF ToStore, RunKey
<1>6. ASSUME NEW v \in Videos
      PROVE  Named(v)'
  <2>1. CASE manifest[v] # NoKey /\ manifest[v].id \notin reborn
    <3>1. manifest[v] # RunKey
      BY <1>1, <1>3, <2>1, NotTheOneCopied
    <3>2. manifest[v] \in Keys
      BY <2>1 DEF Typed
    <3>3. packed'[manifest[v]] = packed[manifest[v]]
      BY <1>1, <1>4, <3>1, <3>2 DEF Typed
    <3> QED
      BY <1>1, <3>3, PackingParts DEF Named
  <2>2. CASE ~(manifest[v] # NoKey /\ manifest[v].id \notin reborn)
    BY <1>1, <2>2 DEF Named
  <2> QED
    BY <2>1, <2>2
<1>7. \A v \in Videos : NotAgain(v)'
  BY <1>1, <1>2, NotAgainKept, PackingParts
<1>8. Copied'
  <2>1. ASSUME NEW v \in ToStore \ run.store
        PROVE  packed'[RunKey][v] = File(Member[run.candidate][v], "whole")
    <3>0. v \in Videos
      BY StoredMember
    <3>1. packed[RunKey][v] \in {File(Member[run.candidate][v], "whole"),
                                 File(Member[run.candidate][v], "partial")}
      BY <1>1, <2>1 DEF Packing
    <3>2. packed'[RunKey][v] = IF packed[RunKey][v].form = "partial"
                               THEN File(packed[RunKey][v].text, "whole") ELSE packed[RunKey][v]
      BY <1>1, <1>4, <3>0 DEF Typed
    <3> QED
      BY <3>1, <3>2 DEF File
  <2> QED
    BY <1>2, <1>3, <1>5, <2>1 DEF Copied
<1>9. Packing' <=> (\A v \in Videos : Named(v)') /\ (\A v \in Videos : NotAgain(v)') /\ Copied'
  BY DEF Packing, Named, NotAgain, Copied
<1> QED
  BY <1>6, <1>7, <1>8, <1>9

LEMMA PackingWriteManifest ==
    ASSUME Typed, UnderWay, Packing, WriteManifest
    PROVE  Packing'
<1>1. /\ run.pc = "storing" /\ run \in RunSet /\ Goto("comparing") /\ run.store = {}
      /\ manifest' = [v \in Videos |-> IF v \in ToStore THEN RunKey ELSE manifest[v]]
      /\ UNCHANGED <<rows, packed, reborn>>
  BY DEF WriteManifest, At, history, Typed
<1>2. run'.pc = "comparing" /\ run'.left = run.left /\ run'.id = run.id
  BY <1>1 DEF RunSet, Goto
<1>3. RunKey.id = run.id /\ RunKey.candidate = run.candidate
  BY DEF RunKey, Key
<1>4. run.id \in Ids /\ rows[run.id] = "running"
      /\ (run.cached \/ run.candidate \notin run.left)
  BY <1>1 DEF UnderWay
<1>5. ASSUME NEW v \in Videos, v \in ToStore
      PROVE  Named(v)' /\ NotAgain(v)'
  <2>1. manifest'[v] = RunKey /\ ~run.cached
    BY <1>1, <1>5, StoredMember
  <2>2. packed[RunKey][v] = File(Member[run.candidate][v], "whole")
    BY <1>1, <1>5 DEF Packing
  <2> QED
    BY <1>1, <1>2, <1>3, <1>4, <2>1, <2>2 DEF Named, NotAgain
<1>6. ASSUME NEW v \in Videos, v \notin ToStore
      PROVE  Named(v)' /\ NotAgain(v)'
  <2>1. manifest'[v] = manifest[v]
    BY <1>1, <1>6
  <2> QED
    BY <1>1, <1>2, <2>1, PackingParts DEF Named, NotAgain, Mine
<1>7. Copied'
  BY <1>2, NotCopying
<1>8. Packing' <=> (\A v \in Videos : Named(v)') /\ (\A v \in Videos : NotAgain(v)') /\ Copied'
  BY DEF Packing, Named, NotAgain, Copied
<1> QED
  BY <1>5, <1>6, <1>7, <1>8

LEMMA PackingStep ==
    ASSUME Typed, UnderWay, Packing, Next
    PROVE  Packing'
<1>1. CASE TaskStep
  BY <1>1, PackingTaskStep
<1>2. CASE DownloadStep \/ SyncStep
  BY <1>2, PackingWorkStep
<1>3. CASE PlaceStep
  <2>1. ASSUME Compare \/ Place \/ BackUp \/ CopyBeside \/ Publish \/ RemoveSource \/ Record
        PROVE  Packing'
    <3>1. UNCHANGED <<packed, manifest, reborn>> /\ run \in RunSet
      BY <2>1 DEF Compare, Place, BackUp, CopyBeside, Publish, RemoveSource, Record, cache,
         history, Typed
    <3>2. run.pc \notin {"idle", "storing", "copying"}
      BY <2>1 DEF Compare, Place, BackUp, CopyBeside, Publish, RemoveSource, Record, At
    <3>3. CASE Record
      <4>1. run' = NoRun /\ rows' = [rows EXCEPT ![run.id] = "completed"]
        BY <3>3 DEF Record, EndRun
      <4>2. \A v \in Videos : Named(v)'
        <5>1. \A t \in Ids : rows[t] # "none" => rows'[t] # "none" \/ t \in reborn'
          BY <4>1 DEF Typed
        <5> QED
          BY <3>1, <5>1, NamedKept, PackingParts
      <4>3. run'.pc = "idle"
        BY <4>1 DEF NoRun
      <4>4. \A v \in Videos : NotAgain(v)'
        BY <4>3 DEF NotAgain
      <4>5. Packing' <=> (\A v \in Videos : Named(v)') /\ (\A v \in Videos : NotAgain(v)') /\ Copied'
        BY DEF Packing, Named, NotAgain, Copied
      <4> QED
        BY <4>2, <4>3, <4>4, <4>5, NotCopying
    <3>4. CASE ~Record
      <4>1. UNCHANGED rows
        BY <2>1, <3>4 DEF Compare, Place, BackUp, CopyBeside, Publish, RemoveSource
      <4>2. CASE AttemptFails
        BY <3>1, <3>2, <4>1, <4>2, AttemptFailsPacking
      <4>3. CASE ~AttemptFails
        <5>1. \/ \E pc \in {"saving", "replacing", "publishing", "published", "recording"} : Goto(pc)
              \/ run' = [run EXCEPT !.pc = "placing",
                                    !.slot = IF run.supplemental THEN FreeExtra ELSE Main]
          BY <2>1, <3>4, <4>3 DEF Compare, Place, BackUp, CopyBeside, Publish, RemoveSource
        <5>2. run'.pc \in {"placing", "saving", "replacing", "publishing", "published", "recording"}
              /\ run'.left = run.left /\ run'.id = run.id
          BY <3>1, <5>1 DEF Goto, RunSet
        <5>3. \A v \in Videos : Named(v)'
          BY <3>1, <4>1, NamedKept, PackingParts
        <5>4. \A v \in Videos : NotAgain(v)'
          BY <3>1, <3>2, <5>2, NotAgainKept, PackingParts
        <5>5. Packing' <=> (\A v \in Videos : Named(v)') /\ (\A v \in Videos : NotAgain(v)') /\ Copied'
          BY DEF Packing, Named, NotAgain, Copied
        <5> QED
          BY <5>2, <5>3, <5>4, <5>5, NotCopying
      <4> QED
        BY <4>2, <4>3
    <3> QED
      BY <3>3, <3>4
  <2> QED
    BY <1>3, <2>1, PackingCopyMember, PackingMemberCopied, PackingWriteManifest, Zenon DEF PlaceStep
<1> QED
  BY <1>1, <1>2, <1>3 DEF Next

-----------------------------------------------------------------------------
(* The theorems.                                                           *)

LEMMA InitIInv == Init => IInv
<1> SUFFICES ASSUME Init PROVE IInv
  OBVIOUS
<1>1. Typed /\ UnderWay
  BY InitTyped
<1>2. /\ \A v \in Videos, s \in Slots : media[v].slots[s] = Nothing
      /\ run = NoRun /\ work = EmptyWork
      /\ latest = [v \in Videos |-> Nothing] /\ manifest = [v \in Videos |-> NoKey]
  BY DEF Init
<1>3. Cleared
  BY <1>2 DEF Cleared, NoRun
<1>4. Current
  BY <1>2, FilesAssumption DEF Current, Slots, Main
<1>5. LatestKept
  BY <1>2 DEF LatestKept
<1>6. Room
  <2>1. \A v \in Videos : Extras(v) = {}
    BY <1>2 DEF Extras
  <2>2. Cardinality({}) = 0
    BY FS_EmptySet
  <2>3. Spent \in Nat
    BY <1>1, Counted
  <2> QED
    BY <1>2, <2>1, <2>2, <2>3 DEF Room, NoRun
<1>7. Aligned
  BY <1>2 DEF Aligned, NoRun, EmptyWork, Nothing, File, Trying
<1>8. Packing
  BY <1>2 DEF Packing, NoRun, Mine
<1> QED
  BY <1>1, <1>3, <1>4, <1>5, <1>6, <1>7, <1>8 DEF IInv

LEMMA NextIInv == IInv /\ [Next]_vars => IInv'
<1> SUFFICES ASSUME IInv, [Next]_vars PROVE IInv'
  OBVIOUS
<1>1. CASE Next
  <2>1. Typed' /\ UnderWay'
    BY <1>1, TypedStep DEF IInv
  <2>2. Cleared'
    BY <1>1, ClearedStep DEF IInv
  <2>3. Current' /\ LatestKept'
    BY <1>1, CurrentStep, LatestKeptStep DEF IInv
  <2>4. Room'
    BY <1>1, <2>1, RoomStep DEF IInv
  <2>5. Aligned'
    BY <1>1, AlignedStep DEF IInv
  <2>6. Packing'
    BY <1>1, PackingStep DEF IInv
  <2> QED
    BY <2>1, <2>2, <2>3, <2>4, <2>5, <2>6 DEF IInv
<1>2. CASE UNCHANGED vars
  <2>1. UNCHANGED <<settings, rows, media, work, packed, manifest, run, latest, reborn, budget>>
    BY <1>2 DEF vars
  <2>2. Typed' /\ UnderWay' /\ Cleared' /\ Current' /\ LatestKept'
    BY <2>1 DEF IInv, Typed, UnderWay, Cleared, Current, LatestKept, Destination, Beside
  <2>3. Room'
    BY <2>1 DEF IInv, Room, Extras, Spent, Begun
  <2>4. Aligned'
    BY <2>1 DEF IInv, Aligned
  <2>5. Packing'
    BY <2>1 DEF IInv, Packing, Mine, RunKey, ToStore
  <2> QED
    BY <2>2, <2>3, <2>4, <2>5 DEF IInv
<1> QED
  BY <1>1, <1>2

LEMMA AlwaysIInv == Spec => []IInv
BY InitIInv, NextIInv, PTL DEF Spec

\* The state of SubtitleFiles keeps its type, for any number of videos, candidates, tasks,
\* faults and deletions; the clause that is not immediate is that there is always a name
\* free for an additional subtitle (_supplemental_subtitle_path).
THEOREM TypeCorrect == Spec => []TypeOK
<1>1. IInv => TypeOK
  <2> SUFFICES ASSUME IInv PROVE TypeOK
    OBVIOUS
  <2>1. Typed /\ UnderWay /\ Cleared
    BY DEF IInv
  <2> QED
    BY <2>1 DEF TypeOK, Typed, UnderWay, Cleared, RunSet, Destination
<1> QED
  BY <1>1, AlwaysIInv, PTL

\* Wherever safe_place_subtitle and BundleCache.store are broken off, a player reads no half
\* subtitle, and the manifest of a season names finished copies of the right members, as
\* long as no identifier was used again.
THEOREM WholeFiles == Spec => []FilesAreWhole
<1>1. IInv => FilesAreWhole
  BY DEF IInv, Aligned, Packing, FilesAreWhole
<1> QED
  BY <1>1, AlwaysIInv, PTL

\* With keep_backup the subtitle that was published last is in place or in the backup,
\* between any two steps of safe_place_subtitle and after any fault.
THEOREM LatestIsKept == Spec => []LatestKept
<1>1. IInv => LatestKept
  BY DEF IInv
<1> QED
  BY <1>1, AlwaysIInv, PTL

\* What sync_subtitle's output is published as is the text of this attempt, aligned.
THEOREM OutputIsOwn == Spec => []SyncedIsOwn
<1>1. IInv => SyncedIsOwn
  BY DEF IInv, Aligned, SyncedIsOwn, Chosen, Trying
<1> QED
  BY <1>1, AlwaysIInv, PTL

\* No step of the service changes a subtitle that lies beside a video, unless it is the main
\* one and overwrite is set.
THEOREM NeverOverwritten == Spec => NothingOverwritten
<1> DEFINE Kept == \A v \in Videos, s \in Slots :
                      media[v].slots[s] # Nothing /\ (s # Main \/ ~settings.overwrite)
                          => media'[v].slots[s] = media[v].slots[s]
<1>1. IInv /\ [Next]_vars => [Kept]_vars
  BY NothingOverwrittenStep DEF IInv
<1>2. [][Kept]_vars <=> NothingOverwritten
  BY DEF NothingOverwritten
<1> HIDE DEF Kept
<1> QED
  BY <1>1, <1>2, AlwaysIInv, PTL DEF Spec
=============================================================================
