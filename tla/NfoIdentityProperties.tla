------------------------ MODULE NfoIdentityProperties ------------------------
(***************************************************************************)
(* What must hold of the identity of a video, however the files it is read *)
(* from change under the tasks that read them.                             *)
(***************************************************************************)
EXTENDS NfoIdentity

Identities ==
    {NoIdentity} \cup [kind : {"movie", "episode"}, work : Works,
                       place : Places \cup {NoPlace}, from : Files]

Statuses == {"queued", "ready", "processing", "searching", "completed", "failed", "interrupted"}

\* The state is well-typed, and only a task that is being prepared is without an identity
\* of its own.
TypeOK ==
    /\ path \in Paths /\ age \in 0..NFO_READY_WAIT
    /\ files \in [Files -> Contents]
    /\ Len(tasks) \in 1..MaxTasks
    /\ \A t \in DOMAIN tasks :
          /\ tasks[t].source \in Sources /\ tasks[t].status \in Statuses
          /\ tasks[t].payload \in Identities
          /\ tasks[t].status \in {"ready", "processing", "searching", "completed"} =>
                tasks[t].payload # NoIdentity
    /\ preflight.pc # "idle" =>
          preflight.task \in DOMAIN tasks /\ tasks[preflight.task].status = "queued"

\* What a task takes for the identity of its video is what the file it is from says now:
\* neither what a task before it has found, nor the file of a lesser rank.  A film's
\* identity is never taken from beside a tvshow.nfo, nor from the file of the video's name
\* where there is a movie.nfo, or where MoviePilot may still be writing one.
IdentityIsCurrent ==
    [][\A t \in DOMAIN tasks :
          tasks[t].status = "queued" /\ tasks'[t].status = "ready" =>
              LET identity == tasks'[t].payload
                  was(f, document) == f \in preflight.touched \/ files[f] = document
              IN  /\ \/ identity.from \in preflight.touched
                     \/ identity.work = files[identity.from].work
                  /\ identity.kind = "movie" => was("tvshow", Absent)
                  /\ identity.from = "stem" =>
                        /\ was("movie", Absent)
                        /\ tasks[t].source = "moviepilot-csf" =>
                              age >= MOVIE_NFO_PREFERRED_WAIT]_vars

\* A task works with one identity for all of its life, though the files may change while
\* it is in the queue or is processed, and the process may restart.
IdentityFrozen ==
    \A t \in 1..MaxTasks : \A one, other \in searched[t] : one = other

\* Every task that waits for its files is searched for or fails in the end, even if a
\* file is never finished.
EveryWaitEnds ==
    \A t \in 1..MaxTasks :
        (t \in DOMAIN tasks /\ tasks[t].status = "queued") ~>
            (t \in DOMAIN tasks /\ tasks[t].status \in {"completed", "failed", "interrupted"})
=============================================================================
