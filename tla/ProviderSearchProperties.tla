---------------------- MODULE ProviderSearchProperties ----------------------
(***************************************************************************)
(* What the search of the sources promises to a task, to the sources and   *)
(* to the retry that follows a failure.                                    *)
(***************************************************************************)
EXTENDS ProviderSearch

\* The state of the search keeps to its kind, counters within their limits.
TypeOK ==
    /\ stored \in Configs /\ run.conf \in Configs /\ run.request \in Requests
    /\ sched.interval \in [Sources -> Nat] /\ sched.cooldown \in [Sources -> Nat]
    /\ negative \in [AssrtKeys -> 0..NegativeTtl]
    /\ misses \in [AssrtTexts -> 0..NegativeTtl]
    /\ run.pc \in {"idle", "selecting", "sleeping", "searching", "enriching", "downloading"}
    /\ run.source \in Sources \cup {"none"}
    /\ ToSet(run.left) \cap run.searched = {}
    /\ run.found \in 0..MaxFound /\ run.used + run.batch \in 0..MaxAttempts
    /\ run.timeouts \in 0..MAX_SEARCH_TIMEOUTS /\ run.rounds \in 0..CaptchaRounds
    /\ run.turn \in DOMAIN Solvers /\ run.skipped \in 0..(Len(Solvers) - 1)
    /\ run.challenge \in {"none", "shown", "answered"}
    /\ run.truth \subseteq {"answered", "failed"}

\* A source whose search has ended rests for the interval in force at that
\* time before the next one begins, in the same task or in another, however
\* long the search took; only an interval saved as zero lifts the rest.
SourceIntervalKept ==
    [][\A p \in Sources :
          p \in run'.searched \ run.searched
              => owed[p] = 0 \/ sched.interval[p] = 0]_vars

\* A query is left out only when the very same text found nothing at ASSRT
\* less than NegativeTtl ago: the shared memory of empty answers never hides
\* a query that another episode, season or work needs.
NoUsefulQuerySkipped ==
    [][AssrtSkipsQuery => misses[Queries[run.query]] < NegativeTtl]_vars

\* A task that gives up with attempts left has searched every source that was
\* enabled when it started, whatever failed, cooled down or was reconfigured; and
\* it is retried as after an outage, within a minute, only if some search was
\* broken off or could not begin and none came to its end.
GivesUpWithCause ==
    /\ run.outcome \notin {"none", "completed"} /\ run.used < MaxAttempts
          => run.searched = ToSet(run.conf.order)
    /\ run.outcome = "all_providers_failed" => "answered" \notin run.truth

\* A page is given up as one that rejects every answer only after every
\* solver has been asked: a solver that is wrong each time does not use up
\* the rounds of the others.
RejectedAfterEverySolver ==
    run.challenge = "answered" /\ run.rounds = CaptchaRounds
        => run.asked = ToSet(Solvers)

\* Whatever the sources do, a task that began its search ends it: no cooldown,
\* challenge, timeout or fallback keeps the worker for ever.
EverySearchEnds == run.pc # "idle" ~> run.pc = "idle"
=============================================================================
