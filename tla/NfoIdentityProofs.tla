-------------------------- MODULE NfoIdentityProofs --------------------------
(***************************************************************************)
(* Proofs about the identity of a video, for every value of the constants: *)
(* any number of titles, files, tasks, writes and crashes, and windows of  *)
(* any length.                                                             *)
(***************************************************************************)
EXTENDS NfoIdentityProperties, SequenceTheorems, TLAPS

Roots == {"absent", "malformed", "unsafe", "movie", "episodedetails", "tvshow", "other"}
Doc == [root : Roots, work : Works \cup {NoWork}, place : Places \cup {NoPlace}]
TaskType == [source : Sources, status : Statuses, payload : Identities]
Pcs == {"idle", "asleep", "tvshow", "stem", "movie", "stem again", "found"}
PreflightType == [pc : Pcs, task : Nat, tvshow : Doc, found : Identities,
                  since : Nat, touched : SUBSET Files]

\* What the variables are, without what a task has.
Types ==
    /\ path \in Paths /\ age \in 0..NFO_READY_WAIT
    /\ files \in [Files -> Contents]
    /\ tasks \in Seq(TaskType) /\ Len(tasks) \in 1..MaxTasks
    /\ preflight \in PreflightType
    /\ searched \in [1..MaxTasks -> SUBSET Identities]

\* Only a task that is being prepared is without an identity, and it waits for one.
Prepared ==
    /\ \A t \in DOMAIN tasks :
          tasks[t].status \in {"ready", "processing", "searching", "completed"} =>
             tasks[t].payload # NoIdentity
    /\ preflight.pc # "idle" =>
          preflight.task \in DOMAIN tasks /\ tasks[preflight.task].status = "queued"
    /\ preflight.pc = "found" => preflight.found # NoIdentity

\* A task has worked with its payload only, and not before it is processed: a task the
\* preflight still writes has not worked with anything.
Frozen ==
    \A t \in 1..MaxTasks :
        IF t \in DOMAIN tasks
        THEN /\ searched[t] \subseteq {tasks[t].payload}
             /\ tasks[t].status \in {"queued", "ready"} => searched[t] = {}
        ELSE searched[t] = {}

\* What the preflight under way has read of a file is what the file says, if nobody has
\* touched it since.
Was(f, document) == f \in preflight.touched \/ files[f] = document
Reading ==
    /\ preflight.pc = "stem" => Was("tvshow", preflight.tvshow)
    /\ preflight.pc \in {"movie", "stem again"} => Was("tvshow", Absent)
    /\ preflight.pc = "stem again" => Was("movie", Absent)
    /\ preflight.pc = "found" =>
          LET identity == preflight.found
          IN  /\ \/ identity.from \in preflight.touched
                 \/ identity.work = files[identity.from].work
              /\ identity.kind = "movie" => Was("tvshow", Absent)
              /\ identity.from = "stem" => Was("movie", Absent)

-----------------------------------------------------------------------------
(* Documents, identities and tasks.                                        *)

LEMMA Constants ==
    /\ NFO_READY_WAIT \in Nat /\ MOVIE_NFO_PREFERRED_WAIT \in Nat /\ MaxTasks \in Nat \ {0}
    /\ Paths \subseteq Places \cup {NoPlace} /\ NoWork \notin Works /\ NoPlace \notin Places
BY NfoAssumption

LEMMA DocumentType ==
    /\ Absent \in Doc /\ Malformed \in Doc
    /\ \A f \in Files : Written(f) \subseteq Doc
<1>1. \A root \in Roots, work \in Works \cup {NoWork}, place \in Places \cup {NoPlace} :
         Document(root, work, place) \in Doc
  BY DEF Document, Doc
<1>2. Absent \in Doc /\ Malformed \in Doc /\ Unsafe \in Doc
  BY <1>1 DEF Absent, Malformed, Unsafe, Roots
<1>3. Written("stem") \subseteq Doc
  BY <1>1, <1>2 DEF Written, Roots
<1>4. Written("movie") \subseteq Doc /\ Written("tvshow") \subseteq Doc
  BY <1>1 DEF Written, Roots
<1> QED
  BY <1>2, <1>3, <1>4 DEF Files

LEMMA ContentType ==
    /\ Contents \subseteq Doc /\ Absent \in Contents /\ Malformed \in Contents
    /\ \A f \in Files : Written(f) \subseteq Contents
BY DocumentType DEF Contents

LEMMA NoPreflightType ==
    ASSUME NEW t \in Nat, NEW pc \in Pcs, NEW n \in Nat
    PROVE  [NoPreflight EXCEPT !.pc = pc, !.task = t, !.since = n] \in PreflightType
BY DocumentType DEF NoPreflight, PreflightType, Identities

LEMMA IdentityType ==
    ASSUME NEW kind \in {"movie", "episode"}, NEW work \in Works,
           NEW place \in Places \cup {NoPlace}, NEW from \in Files
    PROVE  /\ Identity(kind, work, place, from) \in Identities
           /\ Identity(kind, work, place, from) # NoIdentity
BY DEF Identity, NoIdentity, Identities

LEMMA PutTask ==
    ASSUME tasks \in Seq(TaskType), NEW t \in DOMAIN tasks, NEW new \in TaskType,
           tasks' = [tasks EXCEPT ![t] = new]
    PROVE  /\ tasks' \in Seq(TaskType) /\ Len(tasks') = Len(tasks)
           /\ DOMAIN tasks' = DOMAIN tasks /\ tasks'[t] = new
           /\ \A u \in DOMAIN tasks : u # t => tasks'[u] = tasks[u]
<1>1. DOMAIN tasks = 1..Len(tasks)
  BY LenProperties
<1>2. /\ tasks' \in Seq(TaskType) /\ Len(tasks') = Len(tasks)
      /\ \A u \in 1..Len(tasks) : tasks'[u] = IF u = t THEN new ELSE tasks[u]
  BY <1>1, ExceptSeq
<1>3. DOMAIN tasks' = 1..Len(tasks)
  BY <1>2, LenProperties
<1> QED
  BY <1>1, <1>2, <1>3

LEMMA ATask ==
    ASSUME tasks \in Seq(TaskType), NEW t \in DOMAIN tasks
    PROVE  tasks[t] \in TaskType /\ t \in 1..Len(tasks)
BY LenProperties, ElementOfSeq

LEMMA TypedTask ==
    ASSUME Types, NEW t \in DOMAIN tasks
    PROVE  tasks[t] \in TaskType /\ t \in 1..MaxTasks
<1>1. tasks[t] \in TaskType /\ t \in 1..Len(tasks) /\ Len(tasks) \in 1..MaxTasks
  BY ATask DEF Types
<1> QED
  BY <1>1, Constants

LEMMA ChangedStatus ==
    ASSUME tasks \in Seq(TaskType), NEW t \in DOMAIN tasks,
           NEW status \in Statuses, SetStatus(t, status)
    PROVE  /\ tasks' \in Seq(TaskType) /\ Len(tasks') = Len(tasks)
           /\ DOMAIN tasks' = DOMAIN tasks
           /\ tasks'[t] = [tasks[t] EXCEPT !.status = status]
           /\ \A u \in DOMAIN tasks : u # t => tasks'[u] = tasks[u]
<1> DEFINE new == [tasks[t] EXCEPT !.status = status]
<1>1. new \in TaskType
  BY ATask DEF TaskType
<1>2. tasks' = [tasks EXCEPT ![t] = new]
  BY DEF SetStatus
<1> HIDE DEF new
<1>3. /\ tasks' \in Seq(TaskType) /\ Len(tasks') = Len(tasks)
      /\ DOMAIN tasks' = DOMAIN tasks /\ tasks'[t] = new
      /\ \A u \in DOMAIN tasks : u # t => tasks'[u] = tasks[u]
  BY <1>1, <1>2, PutTask
<1> QED
  BY <1>3 DEF new

-----------------------------------------------------------------------------
(* How a step of the preflight ends.                                       *)

Others == <<path, files, age, searched, budget>>

Failed == SetStatus(preflight.task, "failed") /\ preflight' = NoPreflight

Slept ==
    /\ tasks' = tasks
    /\ preflight' = [NoPreflight EXCEPT !.pc = "asleep", !.task = preflight.task, !.since = age]

WentOn(pc, document) ==
    /\ tasks' = tasks
    /\ preflight' = [preflight EXCEPT !.pc = pc, !.tvshow = document]

FoundIt(kind, work, place, from) ==
    /\ work \in Works /\ place \in Places \cup {NoPlace} /\ tasks' = tasks
    /\ preflight' = [preflight EXCEPT !.pc = "found", !.found = Identity(kind, work, place, from)]

LEMMA RaiseEnds == ASSUME NEW e, Raise(e) PROVE Failed \/ Slept
BY DEF Raise, Failed, Slept, Sleep

LEMMA FoundEnds ==
    ASSUME NEW kind, NEW work \in Works \cup {NoWork}, NEW place \in Places \cup {NoPlace},
           NEW from, Found(Identity(kind, work, place, from))
    PROVE  Failed \/ Slept \/ FoundIt(kind, work, place, from)
BY RaiseEnds DEF Found, FoundIt, Identity

LEMMA ReadTvshowEnds ==
    ASSUME Types, ReadTvshow
    PROVE  Failed \/ Slept \/ WentOn("stem", files["tvshow"])
BY RaiseEnds DEF ReadTvshow, GoOn, WentOn

LEMMA ReadStemEnds ==
    ASSUME Types, ReadStem
    PROVE  \/ Failed \/ Slept
           \/ preflight.tvshow = Absent /\ WentOn("movie", Absent)
           \/ \E place \in Places \cup {NoPlace} :
                 FoundIt("episode", preflight.tvshow.work, place, "tvshow")
<1> DEFINE document == IF files["stem"].root = "episodedetails" THEN files["stem"] ELSE Absent
<1>1. document \in Doc /\ preflight.tvshow \in Doc /\ path \in Places \cup {NoPlace}
  BY DocumentType, ContentType, Constants DEF Types, Files, PreflightType
<1>2. CASE preflight.tvshow # Absent
  <2>1. FoundEpisode(preflight.tvshow, document)
    BY <1>2 DEF ReadStem
  <2> HIDE DEF document
  <2> DEFINE place == IF document.place # NoPlace THEN document.place ELSE path
  <2>2. /\ place \in Places \cup {NoPlace} /\ preflight.tvshow.work \in Works \cup {NoWork}
    BY <1>1 DEF Doc
  <2>3. \/ \E e \in Errors : Raise(e)
        \/ Found(Identity("episode", preflight.tvshow.work, place, "tvshow"))
    BY <2>1 DEF FoundEpisode, Errors
  <2> HIDE DEF place
  <2> QED
    BY <2>2, <2>3, RaiseEnds, FoundEnds
<1>3. CASE preflight.tvshow = Absent
  BY <1>3, RaiseEnds DEF ReadStem, GoOn, WentOn
<1> QED
  BY <1>2, <1>3

LEMMA ReadMovieEnds ==
    ASSUME Types, ReadMovie
    PROVE  \/ Failed \/ Slept
           \/ preflight.pc = "movie" /\ files["movie"] = Absent /\ WentOn("stem again", Absent)
           \/ \E f \in {"movie", "stem"} :
                 /\ FoundIt("movie", files[f].work, NoPlace, f)
                 /\ f = "stem" => preflight.pc = "stem again"
<1> DEFINE f == IF preflight.pc = "movie" THEN MovieFile ELSE "stem"
<1>1. f \in {"movie", "stem"} /\ files[f] \in Doc
  BY ContentType DEF MovieFile, Types, Files
<1>2. CASE f = "stem" /\ preflight.pc = "movie"
  BY <1>2 DEF ReadMovie, GoOn, WentOn, MovieFile
<1>3. CASE ~(f = "stem" /\ preflight.pc = "movie")
  <2>1. \/ \E e \in Errors : Raise(e)
        \/ Found(Identity("movie", files[f].work, NoPlace, f))
    BY <1>3 DEF ReadMovie, Errors, ReadError
  <2>2. f = "stem" => preflight.pc = "stem again"
    BY <1>3 DEF ReadMovie
  <2> HIDE DEF f
  <2>3. files[f].work \in Works \cup {NoWork}
    BY <1>1 DEF Doc
  <2> QED
    BY <1>1, <2>1, <2>2, <2>3, RaiseEnds, FoundEnds
<1> QED
  BY <1>2, <1>3

-----------------------------------------------------------------------------
(* Each end keeps the invariant.                                           *)

Inv == Types /\ Prepared /\ Frozen /\ Reading

\* A step that leaves a task its payload, what it has worked with, and whether it is being
\* prepared, leaves Frozen.
LEMMA SameTasks ==
    ASSUME Types, Frozen, searched' = searched, DOMAIN tasks' = DOMAIN tasks,
           \A t \in DOMAIN tasks :
              /\ tasks'[t].payload = tasks[t].payload
              /\ tasks'[t].status \in {"queued", "ready"} =>
                    tasks[t].status \in {"queued", "ready"}
    PROVE  Frozen'
BY DEF Frozen

LEMMA FailedKeeps ==
    ASSUME Inv, preflight.pc # "idle", Failed, UNCHANGED Others
    PROVE  Inv'
<1> DEFINE t == preflight.task
<1>1. t \in DOMAIN tasks /\ tasks[t] \in TaskType /\ "failed" \in Statuses
  BY ATask DEF Inv, Types, Prepared, Statuses
<1>2. /\ tasks' \in Seq(TaskType) /\ Len(tasks') = Len(tasks)
      /\ DOMAIN tasks' = DOMAIN tasks
      /\ tasks'[t] = [tasks[t] EXCEPT !.status = "failed"]
      /\ \A u \in DOMAIN tasks : u # t => tasks'[u] = tasks[u]
  BY <1>1, ChangedStatus DEF Inv, Types, Failed
<1>3. \A u \in DOMAIN tasks : /\ tasks'[u].payload = tasks[u].payload
                              /\ tasks'[u].status \in {"failed", tasks[u].status}
  BY <1>1, <1>2 DEF TaskType
<1>4. preflight' \in PreflightType /\ preflight'.pc = "idle"
  BY DocumentType DEF Failed, NoPreflight, PreflightType, Identities, Pcs
<1>5. Types'
  BY <1>2, <1>4 DEF Inv, Types, Others
<1>6. Prepared'
  <2>1. preflight'.pc \notin {"asleep", "found"}
    BY <1>4
  <2> QED
    BY <1>2, <1>3, <1>4, <2>1 DEF Inv, Prepared
<1>7. Frozen'
  BY <1>2, <1>3, SameTasks DEF Inv, Others
<1>8. Reading'
  BY <1>4 DEF Reading
<1> QED
  BY <1>5, <1>6, <1>7, <1>8 DEF Inv

LEMMA SleptKeeps ==
    ASSUME Inv, preflight.pc # "idle", Slept, UNCHANGED Others
    PROVE  Inv'
<1>1. preflight' \in PreflightType /\ preflight'.pc = "asleep" /\ preflight'.task = preflight.task
  <2>1. preflight.task \in Nat /\ age \in Nat
    BY Constants DEF Inv, Types, PreflightType
  <2> QED
    BY <2>1, NoPreflightType DEF Slept, Pcs, NoPreflight
<1>2. Types'
  BY <1>1 DEF Inv, Types, Others, Slept
<1>3. Prepared'
  BY <1>1 DEF Inv, Prepared, Slept
<1>4. Frozen'
  BY SameTasks DEF Inv, Others, Slept
<1>5. Reading'
  BY <1>1 DEF Reading
<1> QED
  BY <1>2, <1>3, <1>4, <1>5 DEF Inv

LEMMA WentOnKeeps ==
    ASSUME Inv, preflight.pc # "idle", NEW pc \in {"stem", "movie", "stem again"},
           NEW document \in Doc, WentOn(pc, document), UNCHANGED Others,
           pc = "stem" => Was("tvshow", document),
           pc \in {"movie", "stem again"} => Was("tvshow", Absent),
           pc = "stem again" => Was("movie", Absent)
    PROVE  Inv'
<1>1. /\ preflight' \in PreflightType /\ preflight'.pc = pc /\ preflight'.tvshow = document
      /\ preflight'.task = preflight.task /\ preflight'.touched = preflight.touched
  BY DEF Inv, Types, PreflightType, WentOn, Pcs
<1>2. Types'
  BY <1>1 DEF Inv, Types, Others, WentOn
<1>3. Prepared'
  BY <1>1 DEF Inv, Prepared, WentOn
<1>4. Frozen'
  BY SameTasks DEF Inv, Others, WentOn
<1>5. Reading'
  BY <1>1 DEF Reading, Was, Others
<1> QED
  BY <1>2, <1>3, <1>4, <1>5 DEF Inv

LEMMA FoundKeeps ==
    ASSUME Inv, preflight.pc # "idle", NEW kind \in {"movie", "episode"}, NEW from \in Files,
           NEW work, NEW place, FoundIt(kind, work, place, from), UNCHANGED Others,
           from \in preflight.touched \/ work = files[from].work,
           kind = "movie" => Was("tvshow", Absent),
           from = "stem" => Was("movie", Absent)
    PROVE  Inv'
<1> DEFINE identity == Identity(kind, work, place, from)
<1>1. identity \in Identities /\ identity # NoIdentity
  BY IdentityType DEF FoundIt
<1>2. identity.kind = kind /\ identity.work = work /\ identity.from = from
  BY DEF Identity
<1>3. preflight' = [preflight EXCEPT !.pc = "found", !.found = identity]
  BY DEF FoundIt
<1> HIDE DEF identity
<1>4. /\ preflight' \in PreflightType /\ preflight'.pc = "found" /\ preflight'.found = identity
      /\ preflight'.task = preflight.task /\ preflight'.touched = preflight.touched
  BY <1>1, <1>3 DEF Inv, Types, PreflightType, Pcs
<1>5. Types'
  BY <1>4 DEF Inv, Types, Others, FoundIt
<1>6. Prepared'
  BY <1>1, <1>4 DEF Inv, Prepared, FoundIt
<1>7. Frozen'
  BY SameTasks DEF Inv, Others, FoundIt
<1>8. Reading'
  BY <1>2, <1>4 DEF Reading, Was, Others
<1> QED
  BY <1>5, <1>6, <1>7, <1>8 DEF Inv

LEMMA ReadingKeeps ==
    ASSUME Inv, ReadTvshow \/ ReadStem \/ ReadMovie
    PROVE  Inv'
<1>1. UNCHANGED Others /\ preflight.pc # "idle"
  BY DEF ReadTvshow, ReadStem, ReadMovie, Others
<1>2. ASSUME Failed \/ Slept PROVE Inv'
  BY <1>1, <1>2, FailedKeeps, SleptKeeps
<1>3. CASE ReadTvshow
  <2>1. CASE WentOn("stem", files["tvshow"])
    <3>1. files["tvshow"] \in Doc /\ Was("tvshow", files["tvshow"])
      BY ContentType DEF Inv, Types, Files, Was
    <3> QED
      BY <1>1, <2>1, <3>1, WentOnKeeps
  <2> QED
    BY <1>2, <1>3, <2>1, ReadTvshowEnds DEF Inv
<1>4. CASE ReadStem
  <2>1. Was("tvshow", preflight.tvshow) /\ preflight.tvshow \in Doc
    BY <1>4 DEF ReadStem, Inv, Reading, Types, PreflightType
  <2>2. CASE preflight.tvshow = Absent /\ WentOn("movie", Absent)
    BY <1>1, <2>1, <2>2, WentOnKeeps
  <2>3. CASE \E place \in Places \cup {NoPlace} :
                FoundIt("episode", preflight.tvshow.work, place, "tvshow")
    <3>1. "tvshow" \in preflight.touched \/ preflight.tvshow.work = files["tvshow"].work
      BY <2>1 DEF Was
    <3> QED
      BY <1>1, <2>3, <3>1, FoundKeeps DEF Files
  <2> QED
    BY <1>2, <1>4, <2>2, <2>3, ReadStemEnds DEF Inv
<1>5. CASE ReadMovie
  <2>1. /\ Was("tvshow", Absent)
        /\ preflight.pc = "stem again" => Was("movie", Absent)
    BY <1>5 DEF ReadMovie, Inv, Reading
  <2>2. CASE files["movie"] = Absent /\ WentOn("stem again", Absent)
    <3>1. Was("movie", Absent) /\ Absent \in Doc
      BY <2>2, DocumentType DEF Was
    <3> QED
      BY <1>1, <2>1, <2>2, <3>1, WentOnKeeps
  <2>3. CASE \E f \in {"movie", "stem"} :
                /\ FoundIt("movie", files[f].work, NoPlace, f)
                /\ f = "stem" => preflight.pc = "stem again"
    BY <1>1, <2>1, <2>3, FoundKeeps DEF Files
  <2> QED
    BY <1>2, <1>5, <2>2, <2>3, ReadMovieEnds DEF Inv
<1> QED
  BY <1>3, <1>4, <1>5

LEMMA FreezeKeeps == ASSUME Inv, Freeze PROVE Inv'
<1> DEFINE t == preflight.task
<1>1. UNCHANGED Others /\ preflight.pc # "idle" /\ t \in DOMAIN tasks
  BY DEF Freeze, Others, Inv, Prepared
<1>2. CASE Slept
  BY <1>1, <1>2, SleptKeeps
<1>3. CASE ~Slept
  <2> DEFINE new == [tasks[t] EXCEPT !.status = "ready", !.payload = preflight.found]
  <2>1. /\ tasks' = [tasks EXCEPT ![t] = new] /\ preflight' = NoPreflight
        /\ preflight.found # NoIdentity /\ preflight.found \in Identities
    BY <1>3 DEF Freeze, Sleep, Slept, NewPayload, Inv, Prepared, Types, PreflightType
  <2>2. new \in TaskType /\ new.status = "ready" /\ new.payload = preflight.found
    BY <1>1, <2>1, ATask DEF TaskType, Inv, Types, Statuses
  <2> HIDE DEF new
  <2>3. /\ tasks' \in Seq(TaskType) /\ Len(tasks') = Len(tasks)
        /\ DOMAIN tasks' = DOMAIN tasks /\ tasks'[t] = new
        /\ \A u \in DOMAIN tasks : u # t => tasks'[u] = tasks[u]
    BY <1>1, <2>1, <2>2, PutTask DEF Inv, Types
  <2>4. preflight' \in PreflightType /\ preflight'.pc = "idle"
    BY <2>1, DocumentType DEF NoPreflight, PreflightType, Identities, Pcs
  <2>5. Types'
    BY <1>1, <2>3, <2>4 DEF Inv, Types, Others
  <2>6. Prepared'
    BY <2>1, <2>2, <2>3, <2>4 DEF Inv, Prepared
  <2>7. Frozen'
    <3>1. tasks[t].status = "queued" /\ t \in 1..MaxTasks
      BY <1>1, TypedTask DEF Inv, Prepared
    <3>2. searched[t] = {}
      BY <1>1, <3>1 DEF Inv, Frozen
    <3> QED
      BY <1>1, <2>3, <3>2 DEF Inv, Frozen, Others
  <2>8. Reading'
    BY <2>4 DEF Reading
  <2> QED
    BY <2>5, <2>6, <2>7, <2>8 DEF Inv
<1> QED
  BY <1>2, <1>3

\* A step that gives a preflight a start or an end, and leaves the tasks as they are.
LEMMA PreflightMoves ==
    ASSUME Inv, tasks' = tasks, UNCHANGED Others, preflight' \in PreflightType,
           \/ preflight'.pc = "idle"
           \/ /\ preflight'.pc = "tvshow" /\ preflight'.task \in DOMAIN tasks
              /\ tasks[preflight'.task].status = "queued"
    PROVE  Inv'
<1>1. Types'
  BY DEF Inv, Types, Others
<1>2. Prepared'
  BY DEF Inv, Prepared
<1>3. Frozen'
  BY SameTasks DEF Inv, Others
<1>4. Reading'
  BY DEF Reading
<1> QED
  BY <1>1, <1>2, <1>3, <1>4 DEF Inv

LEMMA BeginPreflightKeeps ==
    ASSUME Inv, NEW t \in DOMAIN tasks, BeginPreflight(t) PROVE Inv'
<1>1. t \in Nat
  BY ATask DEF Inv, Types
<1>2. preflight' \in PreflightType /\ preflight'.pc = "tvshow" /\ preflight'.task = t
  BY <1>1, DocumentType DEF BeginPreflight, NoPreflight, PreflightType, Identities, Pcs
<1> QED
  BY <1>2, PreflightMoves DEF BeginPreflight, Others

LEMMA WakeUpKeeps == ASSUME Inv, WakeUp PROVE Inv'
<1>1. preflight' \in PreflightType /\ preflight'.pc = "idle"
  BY DocumentType DEF WakeUp, NoPreflight, PreflightType, Identities, Pcs
<1> QED
  BY <1>1, PreflightMoves DEF WakeUp, Others

\* A worker takes a task on, uses its payload, or puts an end to it.
LEMMA WorkKeeps ==
    ASSUME Inv, NEW t \in DOMAIN tasks, BeginProcessing(t) \/ Search(t) \/ EndProcessing(t)
    PROVE  Inv'
<1>1. PICK status \in {"processing", "searching", "completed", "failed"} : SetStatus(t, status)
  BY DEF BeginProcessing, Search, EndProcessing
<1>2. /\ tasks[t].status \in {"ready", "processing", "searching"} /\ UNCHANGED <<path, files, age, preflight>>
      /\ searched' = searched \/ Use(t)
  BY DEF BeginProcessing, Search, EndProcessing
<1>3. /\ tasks' \in Seq(TaskType) /\ Len(tasks') = Len(tasks)
      /\ DOMAIN tasks' = DOMAIN tasks
      /\ tasks'[t] = [tasks[t] EXCEPT !.status = status]
      /\ \A u \in DOMAIN tasks : u # t => tasks'[u] = tasks[u]
  BY <1>1, ChangedStatus DEF Inv, Types, Statuses
<1>4. /\ tasks[t] \in TaskType /\ t \in 1..MaxTasks
      /\ tasks'[t].payload = tasks[t].payload /\ tasks'[t].status = status
  <2>1. tasks[t] \in TaskType /\ t \in 1..MaxTasks
    BY TypedTask DEF Inv
  <2> QED
    BY <1>3, <2>1 DEF TaskType
<1>5. searched' \in [1..MaxTasks -> SUBSET Identities]
  BY <1>2, <1>4 DEF Inv, Types, Use, Payload, TaskType
<1>6. Types'
  BY <1>2, <1>3, <1>5 DEF Inv, Types
<1>7. Prepared'
  <2>1. preflight.pc # "idle" => preflight.task \in DOMAIN tasks \ {t}
    BY <1>2 DEF Inv, Prepared
  <2>2. tasks[t].payload # NoIdentity
    BY <1>2 DEF Inv, Prepared
  <2>3. \A u \in DOMAIN tasks' :
           tasks'[u].status \in {"ready", "processing", "searching", "completed"} =>
              tasks'[u].payload # NoIdentity
    BY <1>3, <1>4, <2>2 DEF Inv, Prepared
  <2>4. preflight'.pc # "idle" =>
           preflight'.task \in DOMAIN tasks' /\ tasks'[preflight'.task].status = "queued"
    BY <1>2, <1>3, <2>1 DEF Inv, Prepared
  <2>5. preflight'.pc = "found" => preflight'.found # NoIdentity
    BY <1>2 DEF Inv, Prepared
  <2> QED
    BY <2>3, <2>4, <2>5 DEF Prepared
<1>8. Frozen'
  <2>1. searched'[t] \subseteq {tasks[t].payload} /\ \A u \in 1..MaxTasks : u # t => searched'[u] = searched[u]
    BY <1>2, <1>4 DEF Inv, Types, Frozen, Use, Payload
  <2> QED
    BY <1>3, <1>4, <2>1 DEF Inv, Frozen
<1>9. Reading'
  BY <1>2 DEF Inv, Reading, Was
<1> QED
  BY <1>6, <1>7, <1>8, <1>9 DEF Inv

LEMMA RetryKeeps == ASSUME Inv, Retry PROVE Inv'
<1> DEFINE t == Len(tasks)
           new == NewTask("other", tasks[t].payload)
<1>1. tasks' = Append(tasks, new) /\ t < MaxTasks /\ UNCHANGED Others /\ UNCHANGED preflight
  BY DEF Retry, Others
<1>2. t \in Nat \ {0} /\ DOMAIN tasks = 1..t /\ t + 1 \in 1..MaxTasks
  BY <1>1, Constants, LenProperties DEF Inv, Types
<1>3. tasks[t] \in TaskType
  BY <1>2, TypedTask DEF Inv
<1>4. new \in TaskType /\ new.status = "queued" /\ new.payload = tasks[t].payload
  BY <1>3 DEF TaskType, NewTask, Sources, Statuses
<1> HIDE DEF new
<1>5. /\ tasks' \in Seq(TaskType) /\ Len(tasks') = t + 1
      /\ \A u \in 1..t : tasks'[u] = tasks[u]
      /\ tasks'[t + 1] = new
  BY <1>1, <1>4, AppendProperties DEF Inv, Types
<1>6. DOMAIN tasks' = 1..(t + 1)
  BY <1>5, LenProperties
<1> HIDE DEF t
<1>7. DOMAIN tasks' = DOMAIN tasks \cup {t + 1} /\ t + 1 \notin DOMAIN tasks
  BY <1>2, <1>6
<1>8. Types'
  BY <1>1, <1>2, <1>5 DEF Inv, Types, Others
<1>9. Prepared'
  BY <1>1, <1>2, <1>4, <1>5, <1>7 DEF Inv, Prepared
<1>10. Frozen'
  BY <1>1, <1>2, <1>4, <1>5, <1>7 DEF Inv, Frozen, Others
<1>11. Reading'
  BY <1>1 DEF Inv, Reading, Was, Others
<1> QED
  BY <1>8, <1>9, <1>10, <1>11 DEF Inv

LEMMA RestartKeeps == ASSUME Inv, Restart PROVE Inv'
<1> DEFINE after(t) == [tasks[t] EXCEPT !.status =
                          IF @ \in {"processing", "searching"} THEN "interrupted"
                          ELSE IF @ = "ready" THEN "queued" ELSE @]
<1>1. tasks' = [t \in DOMAIN tasks |-> after(t)] /\ preflight' = NoPreflight
  BY DEF Restart
<1>2. \A t \in DOMAIN tasks : after(t) \in TaskType /\ after(t).payload = tasks[t].payload
  BY TypedTask DEF Inv, TaskType, Statuses
<1>3. \A t \in DOMAIN tasks :
         /\ after(t).status \in {"ready", "processing", "searching", "completed"} =>
               tasks[t].status = "completed"
         /\ after(t).status \in {"queued", "ready"} => tasks[t].status \in {"queued", "ready"}
  BY TypedTask DEF Inv, TaskType
<1> HIDE DEF after
<1>4. \A t \in DOMAIN tasks : tasks'[t] = after(t)
  BY <1>1
<1>5. tasks' \in Seq(TaskType) /\ Len(tasks') = Len(tasks) /\ DOMAIN tasks' = DOMAIN tasks
  <2>1. DOMAIN tasks = 1..Len(tasks) /\ Len(tasks) \in Nat
    BY LenProperties DEF Inv, Types
  <2>2. tasks' = [t \in 1..Len(tasks) |-> after(t)]
    BY <1>1, <2>1
  <2>3. tasks' \in Seq(TaskType)
    BY <1>2, <2>1, <2>2, IsASeq
  <2>4. DOMAIN tasks' = 1..Len(tasks)
    BY <2>2
  <2> QED
    BY <2>1, <2>3, <2>4, LenProperties
<1>6. preflight' \in PreflightType /\ preflight'.pc = "idle"
  BY <1>1, DocumentType DEF NoPreflight, PreflightType, Identities, Pcs
<1>7. UNCHANGED <<path, files, age, searched>>
  BY DEF Restart
<1>8. Types'
  BY <1>5, <1>6, <1>7 DEF Inv, Types
<1>9. Prepared'
  BY <1>2, <1>3, <1>4, <1>5, <1>6 DEF Inv, Prepared
<1>10. Frozen'
  BY <1>2, <1>3, <1>4, <1>5, <1>7, SameTasks DEF Inv
<1>11. Reading'
  BY <1>6 DEF Reading
<1> QED
  BY <1>8, <1>9, <1>10, <1>11 DEF Inv

\* Whatever MoviePilot does to a file, a preflight under way knows it as touched.
LEMMA TouchKeeps ==
    ASSUME Inv, NEW f \in Files, NEW content \in Contents, Touch(f, content)
    PROVE  Inv'
<1>1. /\ files' = [files EXCEPT ![f] = content] /\ UNCHANGED <<path, age, tasks, searched>>
      /\ IF preflight.pc \in {"idle", "asleep"} THEN preflight' = preflight
         ELSE preflight' = [preflight EXCEPT !.touched = @ \cup {f}]
  BY DEF Touch
<1>2. /\ preflight' \in PreflightType /\ preflight'.pc = preflight.pc
      /\ preflight'.task = preflight.task /\ preflight'.found = preflight.found
      /\ preflight'.tvshow = preflight.tvshow
      /\ preflight.pc \notin {"idle", "asleep"} =>
            preflight'.touched = preflight.touched \cup {f}
  BY <1>1 DEF Inv, Types, PreflightType
<1>3. Types'
  BY <1>1, <1>2 DEF Inv, Types
<1>4. Prepared'
  BY <1>1, <1>2 DEF Inv, Prepared
<1>5. Frozen'
  BY <1>1, SameTasks DEF Inv
<1>6. Reading'
  <2>1. CASE preflight.pc \in {"idle", "asleep", "tvshow"}
    BY <1>2, <2>1 DEF Reading
  <2>2. CASE preflight.pc \notin {"idle", "asleep", "tvshow"}
    <3>1. preflight'.touched = preflight.touched \cup {f}
      BY <1>2, <2>2
    <3>2. \A g \in Files : \A document : Was(g, document) => Was(g, document)'
      BY <1>1, <3>1 DEF Was, Inv, Types
    <3>3. preflight.pc = "found" =>
             LET identity == preflight.found
             IN  \/ identity.from \in preflight'.touched
                 \/ identity.work = files'[identity.from].work
      BY <1>1, <3>1 DEF Inv, Types, Reading
    <3> QED
      BY <1>2, <3>2, <3>3 DEF Inv, Reading, Files
  <2> QED
    BY <2>1, <2>2
<1> QED
  BY <1>3, <1>4, <1>5, <1>6 DEF Inv

LEMMA EnvironmentKeeps ==
    ASSUME Inv, Tick \/ \E f \in Files : BeginWrite(f) \/ EndWrite(f)
    PROVE  Inv'
<1>1. CASE Tick
  <2>1. age' \in 0..NFO_READY_WAIT /\ UNCHANGED <<path, files, tasks, preflight, searched>>
    BY <1>1, Constants DEF Tick, Inv, Types
  <2>2. Frozen'
    BY <2>1, SameTasks DEF Inv
  <2> QED
    BY <2>1, <2>2 DEF Inv, Types, Prepared, Reading, Was
<1>2. CASE \E f \in Files : BeginWrite(f)
  BY <1>2, TouchKeeps, ContentType DEF BeginWrite
<1>3. CASE \E f \in Files : EndWrite(f)
  BY <1>3, TouchKeeps, ContentType DEF EndWrite
<1> QED
  BY <1>1, <1>2, <1>3

-----------------------------------------------------------------------------
(* The invariant, and what follows from it.                                *)

LEMMA InitInv == ASSUME Init PROVE Inv
<1>1. PICK source \in Sources : tasks = <<NewTask(source, NoIdentity)>>
  BY DEF Init
<1> DEFINE new == NewTask(source, NoIdentity)
<1>2. new \in TaskType /\ new.status = "queued" /\ new.payload = NoIdentity
  BY DEF NewTask, TaskType, Statuses, Identities
<1> HIDE DEF new
<1>3. tasks \in Seq(TaskType) /\ Len(tasks) = 1 /\ DOMAIN tasks = {1} /\ tasks[1] = new
  BY <1>1, <1>2 DEF new
<1>4. preflight \in PreflightType /\ preflight.pc = "idle"
  BY DocumentType DEF Init, NoPreflight, PreflightType, Identities, Pcs
<1>5. files \in [Files -> Contents]
  BY LibrariesAssumption DEF Init
<1>6. Types
  BY <1>3, <1>4, <1>5, Constants DEF Init, Types
<1>7. Prepared
  BY <1>2, <1>3, <1>4 DEF Prepared
<1>8. Frozen
  BY <1>3 DEF Init, Frozen
<1>9. Reading
  BY <1>4 DEF Reading
<1> QED
  BY <1>6, <1>7, <1>8, <1>9 DEF Inv

LEMMA NextInv == ASSUME Inv, [Next]_vars PROVE Inv'
<1>1. CASE UNCHANGED vars
  <2>1. Frozen'
    BY <1>1, SameTasks DEF Inv, vars
  <2> QED
    BY <1>1, <2>1 DEF Inv, Types, Prepared, Reading, Was, vars
<1>2. CASE PreflightStep
  BY <1>2, ReadingKeeps, FreezeKeeps, WakeUpKeeps DEF PreflightStep
<1>3. ASSUME NEW t \in DOMAIN tasks, Step(t) PROVE Inv'
  BY <1>3, BeginPreflightKeeps, WorkKeeps DEF Step
<1>4. CASE Retry \/ Restart
  BY <1>4, RetryKeeps, RestartKeeps
<1>5. CASE Tick \/ \E f \in Files : BeginWrite(f) \/ EndWrite(f)
  BY <1>5, EnvironmentKeeps
<1> QED
  BY <1>1, <1>2, <1>3, <1>4, <1>5 DEF Next

LEMMA InvCorrect == Spec => []Inv
BY InitInv, NextInv, PTL DEF Spec

(* The state keeps its types, and only a task that is being prepared is    *)
(* without an identity.                                                    *)
THEOREM TypeCorrect == Spec => []TypeOK
<1>1. Inv => TypeOK
  <2> SUFFICES ASSUME Inv PROVE TypeOK
    OBVIOUS
  <2>1. \A t \in DOMAIN tasks : tasks[t] \in TaskType
    BY TypedTask DEF Inv
  <2> QED
    BY <2>1 DEF Inv, Types, Prepared, TypeOK, TaskType
<1> QED
  BY <1>1, InvCorrect, PTL

(* A task works with one identity for all of its life, over any number of  *)
(* files rewritten, retries and restarts.                                  *)
THEOREM IdentityIsFrozen == Spec => []IdentityFrozen
<1>1. Inv => IdentityFrozen
  BY DEF Inv, Frozen, IdentityFrozen
<1> QED
  BY <1>1, InvCorrect, PTL

\* Only the end of a preflight makes a queued task ready.
LEMMA ReadyByFreeze ==
    ASSUME Inv, [Next]_vars, NEW t \in DOMAIN tasks,
           tasks[t].status = "queued", tasks'[t].status = "ready"
    PROVE  Freeze /\ t = preflight.task
<1>1. tasks' # tasks
  OBVIOUS
<1>2. ASSUME NEW u \in DOMAIN tasks, NEW status \in Statuses \ {"ready"}, SetStatus(u, status)
      PROVE  FALSE
  <2>1. tasks[u] \in TaskType
    BY TypedTask DEF Inv
  <2>2. tasks'[u] = [tasks[u] EXCEPT !.status = status] /\ (t # u => tasks'[t] = tasks[t])
    BY <1>2, ChangedStatus DEF Inv, Types
  <2> QED
    BY <2>1, <2>2 DEF TaskType
<1>3. CASE ReadTvshow \/ ReadStem \/ ReadMovie
  <2>1. Failed \/ tasks' = tasks
    BY <1>3, ReadTvshowEnds, ReadStemEnds, ReadMovieEnds
    DEF Inv, Slept, WentOn, FoundIt
  <2>2. preflight.task \in DOMAIN tasks
    BY <1>3 DEF ReadTvshow, ReadStem, ReadMovie, Inv, Prepared
  <2> QED
    BY <1>1, <1>2, <2>1, <2>2 DEF Failed, Statuses
<1>4. CASE Freeze
  <2> DEFINE u == preflight.task
             new == [tasks[u] EXCEPT !.status = "ready", !.payload = preflight.found]
  <2>1. u \in DOMAIN tasks /\ preflight.found \in Identities
    BY <1>4 DEF Freeze, Inv, Prepared, Types, PreflightType
  <2>2. tasks' = [tasks EXCEPT ![u] = new]
    BY <1>1, <1>4 DEF Freeze, NewPayload
  <2>3. new \in TaskType
    BY <2>1, TypedTask DEF Inv, TaskType, Statuses
  <2> HIDE DEF new
  <2>4. t # u => tasks'[t] = tasks[t]
    BY <2>1, <2>2, <2>3, PutTask DEF Inv, Types
  <2> QED
    BY <1>4, <2>4
<1>5. CASE WakeUp \/ Tick \/ \E f \in Files : BeginWrite(f) \/ EndWrite(f)
  BY <1>1, <1>5 DEF WakeUp, Tick, BeginWrite, EndWrite, Touch
<1>6. ASSUME NEW u \in DOMAIN tasks, Step(u) PROVE FALSE
  BY <1>1, <1>2, <1>6
  DEF Step, BeginPreflight, BeginProcessing, Search, EndProcessing, Statuses
<1>7. CASE Retry
  <2>1. tasks' = Append(tasks, NewTask("other", tasks[Len(tasks)].payload)) /\ t \in 1..Len(tasks)
    BY <1>7, ATask DEF Retry, Inv, Types
  <2>2. NewTask("other", tasks[Len(tasks)].payload) \in TaskType
    <3>1. Len(tasks) \in DOMAIN tasks
      BY Constants, LenProperties DEF Inv, Types
    <3> QED
      BY <3>1, TypedTask DEF Inv, NewTask, TaskType, Sources, Statuses
  <2>3. tasks'[t] = tasks[t]
    BY <2>1, <2>2, AppendProperties DEF Inv, Types
  <2> QED
    BY <2>3
<1>8. CASE Restart
  BY <1>8, TypedTask DEF Restart, Inv, TaskType
<1>9. CASE UNCHANGED vars
  BY <1>1, <1>9 DEF vars
<1> QED
  BY <1>3, <1>4, <1>5, <1>6, <1>7, <1>8, <1>9 DEF Next, PreflightStep

\* What the preflight has found is what the task gets.
LEMMA FrozenIsFound ==
    ASSUME Inv, Freeze, tasks'[preflight.task].status = "ready"
    PROVE  /\ preflight.pc = "found" /\ tasks'[preflight.task].payload = preflight.found
           /\ preflight.found.from = "stem" /\ tasks[preflight.task].source = "moviepilot-csf"
                 => age >= MOVIE_NFO_PREFERRED_WAIT
<1> DEFINE t == preflight.task
           new == [tasks[t] EXCEPT !.status = "ready", !.payload = preflight.found]
<1>1. /\ t \in DOMAIN tasks /\ tasks[t].status = "queued" /\ preflight.pc = "found"
      /\ preflight.found \in Identities
  BY DEF Freeze, Inv, Prepared, Types, PreflightType
<1>2. /\ tasks' = [tasks EXCEPT ![t] = new]
      /\ ~(preflight.found.from = "stem" /\ Waits(t, MOVIE_NFO_PREFERRED_WAIT))
  BY <1>1 DEF Freeze, NewPayload
<1>3. new \in TaskType /\ new.payload = preflight.found
  BY <1>1, TypedTask DEF Inv, TaskType, Statuses
<1> HIDE DEF new
<1>4. tasks'[t] = new
  BY <1>1, <1>2, <1>3, PutTask DEF Inv, Types
<1>5. Waits(t, MOVIE_NFO_PREFERRED_WAIT) \/ age >= MOVIE_NFO_PREFERRED_WAIT
         \/ tasks[t].source # "moviepilot-csf"
  BY Constants DEF Waits, Inv, Types
<1> QED
  BY <1>1, <1>2, <1>3, <1>4, <1>5

(* The identity a task gets is what the file it is from says, and no file  *)
(* of a higher rank was there, unless one has been written since it was    *)
(* read in this very preflight.                                            *)
THEOREM IdentityFollowsFiles == Spec => IdentityIsCurrent
<1>1. ASSUME Inv, [Next]_vars, NEW t \in DOMAIN tasks,
             tasks[t].status = "queued", tasks'[t].status = "ready"
      PROVE  /\ \/ tasks'[t].payload.from \in preflight.touched
                \/ tasks'[t].payload.work = files[tasks'[t].payload.from].work
             /\ tasks'[t].payload.kind = "movie" => Was("tvshow", Absent)
             /\ tasks'[t].payload.from = "stem" =>
                   /\ Was("movie", Absent)
                   /\ tasks[t].source = "moviepilot-csf" => age >= MOVIE_NFO_PREFERRED_WAIT
  <2>1. Freeze /\ t = preflight.task
    BY <1>1, ReadyByFreeze
  <2>2. /\ preflight.pc = "found" /\ tasks'[t].payload = preflight.found
        /\ preflight.found.from = "stem" /\ tasks[t].source = "moviepilot-csf"
              => age >= MOVIE_NFO_PREFERRED_WAIT
    BY <1>1, <2>1, FrozenIsFound
  <2> QED
    BY <1>1, <2>2 DEF Inv, Reading
<1>2. Inv /\ [Next]_vars =>
         [\A t \in DOMAIN tasks :
             tasks[t].status = "queued" /\ tasks'[t].status = "ready" =>
                 LET identity == tasks'[t].payload
                     was(f, document) == f \in preflight.touched \/ files[f] = document
                 IN  /\ \/ identity.from \in preflight.touched
                        \/ identity.work = files[identity.from].work
                     /\ identity.kind = "movie" => was("tvshow", Absent)
                     /\ identity.from = "stem" =>
                           /\ was("movie", Absent)
                           /\ tasks[t].source = "moviepilot-csf" =>
                                 age >= MOVIE_NFO_PREFERRED_WAIT]_vars
  BY <1>1 DEF Was
<1> QED
  BY <1>2, InvCorrect, PTL DEF Spec, IdentityIsCurrent
=============================================================================
