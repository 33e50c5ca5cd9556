----------------------------- MODULE NfoIdentity -----------------------------
(***************************************************************************)
(* Whose subtitles a task searches for.  The identity of a video is read   *)
(* from the NFO files beside it (media/nfo.py), one after the other, while *)
(* MoviePilot is still writing them.  A task of MoviePilot waits for them, *)
(* a retry or a task of the user does not.  What the preflight has found   *)
(* is kept in the payload of the task's job, which its retries inherit     *)
(* (pipeline/orchestrator.py, db/repository.py).                           *)
(*                                                                         *)
(* The age of MoviePilot's job is counted in steps of 30 s, which is how   *)
(* long the preflight sleeps before it looks again.                        *)
(***************************************************************************)
EXTENDS Naturals, Sequences

CONSTANTS
    Works, NoWork,      \* titles with a year; a file without one of them
    Places, NoPlace,    \* season and episode numbers; none
    Paths,              \* the number the name of the video may have
    Libraries,          \* what the files may be when the first task comes
    NFO_READY_WAIT, MOVIE_NFO_PREFERRED_WAIT,    \* in steps of the age
    MaxWrites, MaxTasks, MaxCrashes     \* bounds

ASSUME NfoAssumption ==
    /\ NoWork \notin Works /\ NoPlace \notin Places
    /\ Paths \subseteq Places \cup {NoPlace}
    /\ {NFO_READY_WAIT, MOVIE_NFO_PREFERRED_WAIT, MaxWrites, MaxCrashes} \subseteq Nat
    /\ MaxTasks \in Nat \ {0}
    /\ MOVIE_NFO_PREFERRED_WAIT <= NFO_READY_WAIT

VARIABLES
    path,       \* the season and episode number in the name of the video
    files,      \* movie.nfo, the NFO file with the name of the video, tvshow.nfo
    age,        \* of the job of MoviePilot
    tasks,      \* a task, its retry, the retry of that ...
    preflight,  \* the preflight under way, or asleep
    searched,   \* history: the identities each task has been working with
    budget      \* how many of the bounded steps there were

vars == <<path, files, age, tasks, preflight, searched, budget>>

Files == {"movie", "stem", "tvshow"}

Document(root, work, place) == [root |-> root, work |-> work, place |-> place]
Absent == Document("absent", NoWork, NoPlace)
Malformed == Document("malformed", NoWork, NoPlace)     \* as a file half written is
Unsafe == Document("unsafe", NoWork, NoPlace)           \* or too large

\* MoviePilot has been seen to write a film's document for an episode.
Written(f) ==
    IF f = "stem"
    THEN {Document("movie", work, NoPlace) : work \in Works} \cup
         {Document("episodedetails", NoWork, place) : place \in Places} \cup {Unsafe}
    ELSE {Document(f, work, NoPlace) : work \in Works \cup {NoWork}} \cup
         {Document("other", NoWork, NoPlace)}

Contents == {Absent, Malformed} \cup UNION {Written(f) : f \in Files}

ASSUME LibrariesAssumption == Libraries \subseteq [Files -> Contents]

Identity(kind, work, place, from) ==
    [kind |-> kind, work |-> work, place |-> place, from |-> from]
NoIdentity == Identity("none", NoWork, NoPlace, "none")

Errors == {"nfo_not_found", "nfo_series_not_found", "nfo_malformed", "nfo_unsafe_xml",
           "nfo_wrong_type", "nfo_identity_incomplete", "nfo_episode_path_conflict",
           "nfo_episode_identity_incomplete"}

\* Those a task of MoviePilot waits for.
WaitedFor == Errors \ {"nfo_unsafe_xml", "nfo_episode_path_conflict",
                       "nfo_episode_identity_incomplete"}

NoPreflight == [pc |-> "idle", task |-> 0, tvshow |-> Absent, found |-> NoIdentity,
                since |-> 0, touched |-> {}]

\* All that the source decides here is who waits: a task of the user or a retry does not.
Sources == {"moviepilot-csf", "other"}

NewTask(source, payload) == [source |-> source, status |-> "queued", payload |-> payload]

Init ==
    /\ path \in Paths
    /\ files \in Libraries
    /\ age = 0
    /\ \E source \in Sources : tasks = <<NewTask(source, NoIdentity)>>
    /\ preflight = NoPreflight
    /\ searched = [t \in 1..MaxTasks |-> {}]
    /\ budget = [writes |-> 0, crashes |-> 0]

-----------------------------------------------------------------------------
(* The preflight.                                                          *)

SetStatus(t, status) == tasks' = [tasks EXCEPT ![t].status = status]

BeginPreflight(t) ==
    /\ preflight.pc = "idle" /\ tasks[t].status = "queued"
    /\ preflight' = [NoPreflight EXCEPT !.pc = "tvshow", !.task = t]
    /\ UNCHANGED <<path, files, age, tasks, searched, budget>>

\* (mutant) A task of MoviePilot waits for as long as it takes.
WaitsOn(t, limit) == tasks[t].source = "moviepilot-csf"

\* _nfo_wait_remaining
Waits(t, limit) == tasks[t].source = "moviepilot-csf" /\ age < limit

Sleep == preflight' = [NoPreflight EXCEPT !.pc = "asleep", !.task = preflight.task, !.since = age]

Raise(error) ==
    IF error \in WaitedFor /\ Waits(preflight.task, NFO_READY_WAIT)
    THEN Sleep /\ UNCHANGED tasks
    ELSE SetStatus(preflight.task, "failed") /\ preflight' = NoPreflight

Readable(document) == document \notin {Malformed, Unsafe}
ReadError(document) == IF document = Unsafe THEN "nfo_unsafe_xml" ELSE "nfo_malformed"

Found(identity) ==
    IF identity.work = NoWork THEN Raise("nfo_identity_incomplete")
    ELSE preflight' = [preflight EXCEPT !.pc = "found", !.found = identity] /\ UNCHANGED tasks

GoOn(pc, tvshow) ==
    preflight' = [preflight EXCEPT !.pc = pc, !.tvshow = tvshow] /\ UNCHANGED tasks

\* _find_tvshow_document
ReadTvshow ==
    /\ preflight.pc = "tvshow"
    /\ LET document == files["tvshow"]
       IN  IF ~Readable(document) THEN Raise(ReadError(document))
           ELSE IF document.root \notin {"absent", "tvshow"} THEN Raise("nfo_wrong_type")
           ELSE GoOn("stem", document)
    /\ UNCHANGED <<path, files, age, searched, budget>>

\* _episode_identity: the title is the series', the numbers are the episode's own, or
\* those in the name of the video.
FoundEpisode(series, episode) ==
    IF series.work = NoWork THEN Raise("nfo_identity_incomplete")
    ELSE IF NoPlace \notin {episode.place, path} /\ episode.place # path
    THEN Raise("nfo_episode_path_conflict")
    ELSE IF {episode.place, path} = {NoPlace} THEN Raise("nfo_episode_identity_incomplete")
    ELSE Found(Identity("episode", series.work,
                        IF episode.place # NoPlace THEN episode.place ELSE path, "tvshow"))

\* _find_episode_document, which passes over what is not an episode's document.
ReadStem ==
    /\ preflight.pc = "stem"
    /\ LET document == IF files["stem"].root = "episodedetails" THEN files["stem"] ELSE Absent
       IN  IF preflight.tvshow # Absent THEN FoundEpisode(preflight.tvshow, document)
           ELSE IF document # Absent THEN Raise("nfo_series_not_found")
           ELSE GoOn("movie", Absent)
    /\ UNCHANGED <<path, files, age, searched, budget>>

MovieFile == IF files["movie"] # Absent THEN "movie" ELSE "stem"

\* _find_movie_documents and _movie_identity: movie.nfo counts alone where there is one.
ReadMovie ==
    /\ preflight.pc \in {"movie", "stem again"}
    /\ LET f == IF preflight.pc = "movie" THEN MovieFile ELSE "stem"
           document == files[f]
       IN  IF f = "stem" /\ preflight.pc = "movie" THEN GoOn("stem again", Absent)
           ELSE IF ~Readable(document) THEN Raise(ReadError(document))
           ELSE IF document.root # "movie" THEN Raise("nfo_not_found")
           ELSE Found(Identity("movie", document.work, NoPlace, f))
    /\ UNCHANGED <<path, files, age, searched, budget>>

\* (mutant) What the parent of a retry has found is not looked for again.
KeptPayload(t) == IF tasks[t].payload = NoIdentity THEN preflight.found ELSE tasks[t].payload

NewPayload(t) == preflight.found

\* A film waits for its movie.nfo; else the identity is kept, and the task goes on.
Freeze ==
    /\ preflight.pc = "found"
    /\ IF preflight.found.from = "stem" /\ Waits(preflight.task, MOVIE_NFO_PREFERRED_WAIT)
       THEN Sleep /\ UNCHANGED tasks
       ELSE /\ tasks' = [tasks EXCEPT ![preflight.task].status = "ready",
                                      ![preflight.task].payload = NewPayload(preflight.task)]
            /\ preflight' = NoPreflight
    /\ UNCHANGED <<path, files, age, searched, budget>>

\* The sleep of _run_preflight is over, and the task is in its queue again.
WakeUp ==
    /\ preflight.pc = "asleep" /\ age > preflight.since
    /\ preflight' = NoPreflight
    /\ UNCHANGED <<path, files, age, tasks, searched, budget>>

PreflightStep == ReadTvshow \/ ReadStem \/ ReadMovie \/ Freeze \/ WakeUp

-----------------------------------------------------------------------------
(* The processing of a task, which takes the identity from the payload.    *)

\* (mutant) The files are read again.
ReadAgain(t) ==
    LET identity == tasks[t].payload
    IN  IF files[identity.from].work = NoWork THEN identity
        ELSE [identity EXCEPT !.work = files[identity.from].work]

Payload(t) == tasks[t].payload

Use(t) == searched' = [searched EXCEPT ![t] = @ \cup {Payload(t)}]

BeginProcessing(t) ==
    /\ tasks[t].status = "ready"
    /\ SetStatus(t, "processing") /\ Use(t)
    /\ UNCHANGED <<path, files, age, preflight, budget>>

\* _build_search_request
Search(t) ==
    /\ tasks[t].status = "processing"
    /\ SetStatus(t, "searching") /\ Use(t)
    /\ UNCHANGED <<path, files, age, preflight, budget>>

EndProcessing(t) ==
    /\ tasks[t].status \in {"processing", "searching"}
    /\ \E status \in {"completed", "failed"} : SetStatus(t, status)
    /\ UNCHANGED <<path, files, age, preflight, searched, budget>>

Step(t) == BeginPreflight(t) \/ BeginProcessing(t) \/ Search(t) \/ EndProcessing(t)

\* create_retry_child, for the retry loop, the recovery or the user.
Retry ==
    LET t == Len(tasks)
    IN  /\ t < MaxTasks /\ tasks[t].status \in {"completed", "failed", "interrupted"}
        /\ tasks' = Append(tasks, NewTask("other", tasks[t].payload))
        /\ UNCHANGED <<path, files, age, preflight, searched, budget>>

\* The process ends and recovers its queue: what was being processed is interrupted,
\* what has only been prepared is prepared again.
Restart ==
    /\ budget.crashes < MaxCrashes
    /\ budget' = [budget EXCEPT !.crashes = @ + 1]
    /\ tasks' = [t \in DOMAIN tasks |-> [tasks[t] EXCEPT !.status =
                    IF @ \in {"processing", "searching"} THEN "interrupted"
                    ELSE IF @ = "ready" THEN "queued" ELSE @]]
    /\ preflight' = NoPreflight
    /\ UNCHANGED <<path, files, age, searched>>

-----------------------------------------------------------------------------
(* MoviePilot and the clock.                                               *)

Touch(f, content) ==
    /\ files' = [files EXCEPT ![f] = content]
    /\ preflight' = IF preflight.pc \in {"idle", "asleep"} THEN preflight
                    ELSE [preflight EXCEPT !.touched = @ \cup {f}]
    /\ UNCHANGED <<path, age, tasks, searched>>

BeginWrite(f) ==
    /\ budget.writes < MaxWrites /\ files[f] # Malformed
    /\ Touch(f, Malformed)
    /\ budget' = [budget EXCEPT !.writes = @ + 1]

EndWrite(f) ==
    /\ files[f] = Malformed
    /\ \E content \in Written(f) : Touch(f, content)
    /\ UNCHANGED budget

Tick ==
    /\ age < NFO_READY_WAIT
    /\ age' = age + 1
    /\ UNCHANGED <<path, files, tasks, preflight, searched, budget>>

Next ==
    \/ PreflightStep
    \/ \E t \in DOMAIN tasks : Step(t)
    \/ Retry
    \/ Restart
    \/ \E f \in Files : BeginWrite(f) \/ EndWrite(f)
    \/ Tick

Spec == Init /\ [][Next]_vars

\* The workers run on, and time passes.  MoviePilot may leave a file half written.
Fairness ==
    /\ WF_vars(PreflightStep) /\ WF_vars(Tick)
    /\ \A t \in 1..MaxTasks : WF_vars(t \in DOMAIN tasks /\ Step(t))

FairSpec == Spec /\ Fairness
=============================================================================
