-------------------------- MODULE ProviderSearch --------------------------
(***************************************************************************)
(* The search of one task after the other: process_video_task asks the     *)
(* registry for batches (providers/registry.py), the registry asks the     *)
(* scheduler which source is next, and the adapter of that source sends    *)
(* its queries, one request at a time, each of which may be answered, run  *)
(* into its timeout or fail.  The orchestrator tries the candidates of a   *)
(* batch before it asks for the next one, and names a reason when none     *)
(* was placed.                                                             *)
(*                                                                         *)
(* Adapters are built anew for each task: what they remember (the solver   *)
(* whose turn it is) lasts for one run.  The scheduler and the memory of   *)
(* empty answers live as long as the process.  Intervals, times to live    *)
(* and waits are counted in ticks that are left; a search takes as many    *)
(* ticks as pass between its steps, the delay an adapter keeps between two *)
(* requests among them.                                                    *)
(***************************************************************************)
EXTENDS SearchQueries, ProviderScheduler

CONSTANTS
    Requests,         \* what tasks search for
    Configs,          \* stored settings: order, intervals and who has a key
    Subproviders,     \* the sources Subliminal itself searches, in order
    Solvers,          \* captcha solvers in their configured order
    NegativeTtl,      \* ttl_seconds of ProviderNegativeCache
    MaxFound,         \* bound on the candidates of a batch
    MaxPages,         \* bound on the pages of one query
    MaxAttempts,      \* max_candidate_attempts
    MaxTasks, MaxConfigs   \* bounds on what the environment does

MAX_SEARCH_TIMEOUTS == 2   \* Zimuku: timeouts after which a search gives up
CaptchaRounds == 3         \* Zimuku: requests for one page, each of which may be challenged
DownloadPages == 3         \* Zimuku: detail page, link page, file

Sources == {"zimuku", "assrt", "subdl", "subliminal"}

ASSUME SearchAssumption ==
    /\ \A c \in Configs :
          /\ c.order \in Seq(Sources) /\ IsInjective(c.order)
          /\ c.interval \in [Sources -> Nat]
          /\ c.keys \subseteq {"assrt", "subdl"}
    /\ Requests # {} /\ \A r \in Requests : r.title # NoTitle
    /\ Subproviders \in Seq(STRING) \ {<<>>}
    /\ Solvers \in Seq(STRING) /\ Len(Solvers) \in 1..CaptchaRounds
    /\ {NegativeTtl, MaxFound, MaxPages, MaxAttempts, MaxTasks, MaxConfigs} \subseteq Nat

VARIABLES
    stored,     \* the settings in the database
    sched,      \* the scheduler all tasks share
    negative,   \* the ticks each empty answer of ASSRT is remembered for
    run,        \* the run of the processing worker
    misses,     \* history: how long ago each query found nothing at ASSRT
    owed,       \* history: the rest each source was due when its search ended
    budget      \* how many tasks and changes of settings there were

vars == <<stored, sched, negative, run, misses, owed, budget>>

Report(name, status) == [name |-> name, status |-> status]

NewRun(request, conf) ==
    [pc |-> "selecting", request |-> request, conf |-> conf, left |-> conf.order,
     source |-> "none", wait |-> 0, query |-> 1, page |-> 1, timeouts |-> 0,
     answered |-> FALSE, found |-> 0, batch |-> 0, used |-> 0, failure |-> "none",
     challenge |-> "none", rounds |-> 0, turn |-> 1, skipped |-> 0, asked |-> {},
     reports |-> {}, searched |-> {}, truth |-> {}, outcome |-> "none"]

AssrtKeys == UNION {{NegativeKey(r, q) : q \in ToSet(AssrtQueries(r))} : r \in Requests}
AssrtTexts == UNION {ToSet(AssrtQueries(r)) : r \in Requests}

Init ==
    /\ stored \in Configs
    /\ sched = Scheduler(stored.interval, [p \in Sources |-> 0])
    /\ negative = [k \in AssrtKeys |-> 0]
    /\ run = [NewRun(CHOOSE r \in Requests : TRUE, stored) EXCEPT !.pc = "idle"]
    /\ misses = [q \in AssrtTexts |-> NegativeTtl]
    /\ owed = [p \in Sources |-> 0]
    /\ budget = [tasks |-> 0, configs |-> 0]

-----------------------------------------------------------------------------
(* The orchestrator's loop and the registry it asks for batches.           *)

\* process_video_task reads the settings once, when the task starts.
StartTask(r) ==
    /\ run.pc = "idle" /\ budget.tasks < MaxTasks
    /\ sched' = UpdateIntervals(sched, stored.interval)
    /\ run' = NewRun(r, stored)
    /\ budget' = [budget EXCEPT !.tasks = @ + 1]
    /\ UNCHANGED <<stored, negative, misses, owed>>

SaveSettings(c) ==
    /\ budget.configs < MaxConfigs /\ c # stored
    /\ stored' = c
    /\ budget' = [budget EXCEPT !.configs = @ + 1]
    /\ UNCHANGED <<sched, negative, run, misses, owed>>

\* _search_failure_reason, from the reports of the adapters and the registry.
SearchFailureReason(reports) ==
    LET attempted == {r \in reports : r.status \in {"completed", "failed"}}
    IN  IF attempted # {} /\ \A r \in attempted : r.status = "failed"
        THEN "all_providers_failed"
        ELSE IF attempted = {} /\ \E r \in reports : r.status = "skipped"
        THEN "no_compatible_provider"
        ELSE "no_candidate_found"

\* What the adapters of the run remembered ends with it.
Finish(r, outcome) ==
    run' = [NewRun(r.request, r.conf) EXCEPT
              !.pc = "idle", !.outcome = outcome, !.used = r.used,
              !.searched = r.searched, !.truth = r.truth, !.left = r.left]

Failed(r) ==
    Finish(r, IF r.failure # "none" THEN r.failure ELSE SearchFailureReason(r.reports))

\* (mutant) A source without results ends the search.
FirstSourceOnly(r) == Failed(r)

\* The next batch is asked for while attempts are left and a source remains.
NextBatch(r) ==
    IF r.used < MaxAttempts /\ r.left # <<>>
    THEN run' = [r EXCEPT !.pc = "selecting", !.query = 1, !.page = 1, !.found = 0,
                          !.timeouts = 0, !.answered = FALSE]
    ELSE Failed(r)

\* (mutant) A source stays among those that remain.
SearchAgain(r, i) ==
    [r EXCEPT !.pc = "searching", !.source = r.left[i], !.searched = @ \cup {r.left[i]}]

\* The adapter of the i-th of the sources that remain starts its search.
Search(r, i) ==
    [r EXCEPT !.pc = "searching", !.source = r.left[i],
              !.left = RemoveAt(@, i), !.searched = @ \cup {r.left[i]}]

\* _select_provider, over one pass of the loop in acquire.
SelectSource ==
    /\ run.pc = "selecting" /\ run.left # <<>>
    /\ \/ \E i \in DOMAIN run.left :
             /\ FirstReady(sched, run.left, i)
             /\ run' = Search(run, i)
             /\ sched' = Reserve(sched, run.left[i])
       \/ /\ \A i \in DOMAIN run.left : ~Ready(sched, run.left[i])
          /\ run' = [run EXCEPT !.pc = "sleeping", !.wait = WaitTime(sched, run.left)]
          /\ UNCHANGED sched
    /\ UNCHANGED <<stored, negative, misses, owed, budget>>

NothingEnabled ==
    /\ run.pc = "selecting" /\ run.left = <<>>
    /\ Failed(run)
    /\ UNCHANGED <<stored, sched, negative, misses, owed, budget>>

WakeUp ==
    /\ run.pc = "sleeping" /\ run.wait = 0
    /\ run' = [run EXCEPT !.pc = "selecting"]
    /\ UNCHANGED <<stored, sched, negative, misses, owed, budget>>

(***************************************************************************)
(* _search_provider: the adapter has returned or raised, and the scheduler *)
(* is told in either case.  Candidates of another film or episode are left *)
(* out, the others are tried while the budget lasts.                       *)
(***************************************************************************)
SearchEnds(r, status) ==
    LET done == [r EXCEPT !.reports = @ \cup {Report(r.source, status)}]
    IN  /\ sched' = MarkCompleted(sched, r.source)
        /\ owed' = [owed EXCEPT ![r.source] = sched.interval[r.source]]
        /\ \E ranked \in 0..(IF status = "completed" THEN r.found ELSE 0) :
              /\ ranked <= MaxAttempts - r.used
              /\ IF ranked = 0 THEN NextBatch(done)
                 ELSE run' = [done EXCEPT !.pc = "downloading", !.batch = ranked, !.page = 1]

\* A candidate has been downloaded, checked and placed, or another one is needed.
AttemptEnds(r, placed) ==
    LET done == [r EXCEPT !.batch = @ - 1, !.used = @ + 1, !.page = 1]
        missed == [done EXCEPT !.failure = "candidate_rejected"]
    IN  /\ IF placed THEN Finish(done, "completed")
           ELSE IF missed.batch = 0 THEN NextBatch(missed)
           ELSE run' = missed
        /\ UNCHANGED <<sched, owed>>

-----------------------------------------------------------------------------
(* What an adapter's requests find out.                                    *)

Queries == CASE run.source = "zimuku" -> ZimukuQueries(run.request)
             [] run.source = "assrt" -> AssrtQueries(run.request)
             [] run.source = "subdl" -> SubdlQueries(run.request)
             [] run.source = "subliminal" -> Subproviders

LastQuery == run.query = Len(Queries)

At(p, pc) == run.pc = pc /\ run.source = p

\* History: a search came to its end with an answer, or was broken off.
Worked(r) == [r EXCEPT !.truth = @ \cup {"answered"}]
Broke(r) == [r EXCEPT !.truth = @ \cup {"failed"}]

GoOn(r) == run' = r /\ UNCHANGED <<sched, owed>>

\* The query that found nothing was the last one, or is followed by the next.
QueryEnds(r) ==
    IF LastQuery THEN SearchEnds(Worked(r), "completed")
    ELSE GoOn([r EXCEPT !.query = @ + 1, !.page = 1])

\* A source that fails after it was asked.
SearchFails(r) == SearchEnds(Broke(r), "failed")

HasKey(p) == p \in run.conf.keys

\* Without its key an adapter reports that it was skipped, and returns nothing.
SearchWithoutKey ==
    /\ \E p \in {"assrt", "subdl"} : At(p, "searching") /\ ~HasKey(p)
    /\ SearchEnds([run EXCEPT !.reports = @ \cup {Report(run.source, "skipped")}],
                  "completed")
    /\ UNCHANGED <<stored, negative, misses, budget>>

-----------------------------------------------------------------------------
(* ASSRT.                                                                  *)

AssrtKey == NegativeKey(run.request, Queries[run.query])

AssrtAsks == At("assrt", "searching") /\ HasKey("assrt") /\ negative[AssrtKey] = 0

\* A query that lately found nothing is not sent.
AssrtSkipsQuery ==
    /\ At("assrt", "searching") /\ HasKey("assrt") /\ negative[AssrtKey] > 0
    /\ QueryEnds(run)
    /\ UNCHANGED <<stored, negative, misses, budget>>

AssrtFindsNothing ==
    /\ AssrtAsks
    /\ negative' = [negative EXCEPT ![AssrtKey] = NegativeTtl]
    /\ misses' = [misses EXCEPT ![Queries[run.query]] = 0]
    /\ QueryEnds(run)
    /\ UNCHANGED <<stored, budget>>

AssrtFinds(n) ==
    /\ AssrtAsks
    /\ GoOn([run EXCEPT !.pc = "enriching", !.found = n])
    /\ UNCHANGED <<stored, negative, misses, budget>>

\* The details of each candidate are asked for; one that fails is left as it is.
AssrtDetail ==
    /\ At("assrt", "enriching")
    /\ IF run.page = run.found THEN SearchEnds(Worked(run), "completed")
       ELSE GoOn([run EXCEPT !.page = @ + 1])
    /\ UNCHANGED <<stored, negative, misses, budget>>

\* The details are remembered for a while, or are asked for again before the file is.
AssrtAsksDetail ==
    /\ At("assrt", "downloading") /\ run.page = 1
    /\ GoOn([run EXCEPT !.page = 2])
    /\ UNCHANGED <<stored, negative, misses, budget>>

-----------------------------------------------------------------------------
(* SubDL and Subliminal.                                                   *)

\* A query that finds no work, or a work without subtitles, is followed by the next.
SubdlAnswers(n) ==
    /\ At("subdl", "searching") /\ HasKey("subdl")
    /\ IF n = 0 THEN QueryEnds(run)
       ELSE SearchEnds([Worked(run) EXCEPT !.found = n], "completed")
    /\ UNCHANGED <<stored, negative, misses, budget>>

\* A request of ASSRT or SubDL that is not answered fails the whole search.
ApiSearchFails ==
    /\ AssrtAsks \/ (At("subdl", "searching") /\ HasKey("subdl"))
    /\ SearchFails(run)
    /\ UNCHANGED <<stored, negative, misses, budget>>

(***************************************************************************)
(* Subliminal asks its own sources one by one, reports on each under a     *)
(* name of its own, and goes on when one of them fails or is not usable.   *)
(***************************************************************************)
SubliminalAsks(status, n) ==
    /\ At("subliminal", "searching")
    /\ LET name == "subliminal:" \o Queries[run.query]
           told == CASE status = "completed" -> Worked(run)
                     [] status = "failed" -> Broke(run)
                     [] status = "skipped" -> run
           r == [told EXCEPT !.reports = @ \cup {Report(name, status)},
                             !.found = Min({@ + n, MaxFound})]
       IN  IF LastQuery THEN SearchEnds(r, "completed")
           ELSE GoOn([r EXCEPT !.query = @ + 1])
    /\ UNCHANGED <<stored, negative, misses, budget>>

\* The video cannot be scanned: no source is asked.
SubliminalCannotScan ==
    /\ At("subliminal", "searching") /\ run.query = 1
    /\ SearchEnds(run, "failed")
    /\ UNCHANGED <<stored, negative, misses, budget>>

\* The file of a candidate comes with one request, or does not come.
DownloadEnds(placed) ==
    /\ \E p \in {"assrt", "subdl", "subliminal"} : At(p, "downloading")
    /\ AttemptEnds(run, placed)
    /\ UNCHANGED <<stored, negative, misses, budget>>

-----------------------------------------------------------------------------
(***************************************************************************)
(* Zimuku: a search or a download opens page after page, and each page may *)
(* be guarded by an image to recognise.                                    *)
(***************************************************************************)
OpensPage == run.source = "zimuku" /\ run.pc \in {"searching", "downloading"}

Cleared(r) == [r EXCEPT !.challenge = "none", !.rounds = 0, !.skipped = 0, !.asked = {}]

\* The page could not be had: what becomes of the query, the search or the download.
PageLost(kind) ==
    LET r == [Cleared(run) EXCEPT !.timeouts = @ + 1]
    IN  IF run.pc = "downloading" THEN AttemptEnds(Cleared(run), FALSE)
        ELSE IF kind = "timeout" /\ r.timeouts < MAX_SEARCH_TIMEOUTS
        THEN IF ~LastQuery THEN GoOn([r EXCEPT !.query = @ + 1, !.page = 1])
             ELSE IF run.answered THEN SearchEnds(Worked(r), "completed")
             ELSE SearchFails(r)
        ELSE SearchFails(Cleared(run))

PageFails(kind) ==
    /\ OpensPage /\ run.challenge = "none"
    /\ PageLost(kind)
    /\ UNCHANGED <<stored, negative, misses, budget>>

\* A search page that names another one: a redirection or the page of a work.
PageLeadsOn ==
    /\ OpensPage /\ run.challenge = "none"
    /\ run.page < (IF run.pc = "searching" THEN MaxPages ELSE DownloadPages)
    /\ GoOn([Cleared(run) EXCEPT !.page = @ + 1])
    /\ UNCHANGED <<stored, negative, misses, budget>>

\* The last page of a query, with what was found on all of them.
ZimukuQueryAnswered(n) ==
    /\ At("zimuku", "searching") /\ run.challenge = "none"
    /\ LET r == [Cleared(run) EXCEPT !.answered = TRUE]
       IN  IF n = 0 THEN QueryEnds(r)
           ELSE SearchEnds([Worked(r) EXCEPT !.found = n], "completed")
    /\ UNCHANGED <<stored, negative, misses, budget>>

ZimukuFileArrives(placed) ==
    /\ At("zimuku", "downloading") /\ run.challenge = "none" /\ run.page = DownloadPages
    /\ AttemptEnds(Cleared(run), placed)
    /\ UNCHANGED <<stored, negative, misses, budget>>

\* (mutant) Requests for one page are not counted.
ChallengesForever ==
    /\ OpensPage /\ run.challenge = "none"
    /\ GoOn([run EXCEPT !.challenge = "shown", !.rounds = 1, !.skipped = 0])
    /\ UNCHANGED <<stored, negative, misses, budget>>

\* _request: the page shows an image instead, for at most CaptchaRounds requests.
PageChallenges ==
    /\ OpensPage /\ run.challenge = "none"
    /\ GoOn([run EXCEPT !.challenge = "shown", !.rounds = @ + 1, !.skipped = 0])
    /\ UNCHANGED <<stored, negative, misses, budget>>

\* CaptchaSolverChain.solve: the solver whose turn it is, after those that failed.
SolverIndex == 1 + ((run.turn - 1 + run.skipped) % Len(Solvers))

\* (mutant) The solver that answered is asked again.
SameTurn(index) == index

NextTurn(index) == 1 + (index % Len(Solvers))

Asked(r) == [r EXCEPT !.asked = @ \cup {Solvers[SolverIndex]}]

SolverAnswers ==
    /\ OpensPage /\ run.challenge = "shown"
    /\ GoOn([Asked(run) EXCEPT !.challenge = "answered", !.turn = NextTurn(SolverIndex)])
    /\ UNCHANGED <<stored, negative, misses, budget>>

\* A solver that reports an error is passed over; without another one the page is lost.
SolverGivesUp ==
    /\ OpensPage /\ run.challenge = "shown"
    /\ IF run.skipped + 1 < Len(Solvers)
       THEN GoOn([Asked(run) EXCEPT !.skipped = @ + 1])
       ELSE PageLost("error")
    /\ UNCHANGED <<stored, negative, misses, budget>>

\* The error of a solver that cannot be reached is not one the chain expects.
SolverUnreachable(kind) ==
    /\ OpensPage /\ run.challenge = "shown"
    /\ PageLost(kind)
    /\ UNCHANGED <<stored, negative, misses, budget>>

\* _submit_captcha, after which the page is asked for again while rounds are left.
SubmitAnswer ==
    /\ OpensPage /\ run.challenge = "answered"
    /\ IF run.rounds < CaptchaRounds THEN GoOn([run EXCEPT !.challenge = "none"])
       ELSE PageLost("rejected")
    /\ UNCHANGED <<stored, negative, misses, budget>>

SubmitFails(kind) ==
    /\ OpensPage /\ run.challenge = "answered"
    /\ PageLost(kind)
    /\ UNCHANGED <<stored, negative, misses, budget>>

-----------------------------------------------------------------------------
Older(age) == Min({age + 1, NegativeTtl})

\* Time passes: reservations and memories run out, and a sleeping worker wakes up.
Tick ==
    /\ sched' = Elapse(sched)
    /\ negative' = [k \in AssrtKeys |-> Less(negative[k])]
    /\ misses' = [q \in AssrtTexts |-> Older(misses[q])]
    /\ owed' = [p \in Sources |-> Less(owed[p])]
    /\ run' = [run EXCEPT !.wait = Less(@)]
    /\ UNCHANGED <<stored, budget>>

Steps ==
    \/ SelectSource \/ NothingEnabled \/ WakeUp \/ SearchWithoutKey
    \/ AssrtSkipsQuery \/ AssrtFindsNothing \/ AssrtDetail \/ AssrtAsksDetail
    \/ \E n \in 1..MaxFound : AssrtFinds(n)
    \/ ApiSearchFails \/ SubliminalCannotScan
    \/ \E n \in 0..MaxFound : SubdlAnswers(n) \/ ZimukuQueryAnswered(n)
    \/ \E n \in 0..MaxFound : SubliminalAsks("completed", n)
    \/ \E status \in {"failed", "skipped"} : SubliminalAsks(status, 0)
    \/ \E placed \in BOOLEAN : DownloadEnds(placed) \/ ZimukuFileArrives(placed)
    \/ PageLeadsOn \/ PageChallenges \/ SolverAnswers \/ SolverGivesUp \/ SubmitAnswer
    \/ \E kind \in {"timeout", "error"} :
          PageFails(kind) \/ SolverUnreachable(kind) \/ SubmitFails(kind)

Next ==
    \/ \E r \in Requests : StartTask(r)
    \/ \E c \in Configs : SaveSettings(c)
    \/ Steps
    \/ Tick

Spec == Init /\ [][Next]_vars

\* The worker thread runs on, and time does not stop.
Fairness == WF_vars(Steps) /\ WF_vars(Tick)

FairSpec == Spec /\ Fairness
=============================================================================
