----------------------- MODULE ProviderSearchProofs -----------------------
(***************************************************************************)
(* Proofs about the search of the sources, for every value of the          *)
(* constants: a run gives up with cause, a page is given up only after     *)
(* every solver was asked, a source that was searched gets its rest, and   *)
(* no useful query is left out.                                            *)
(*                                                                         *)
(* The argument is about the record of the run.  Most steps change it and  *)
(* nothing else that matters, and end in one of a few operators (NextBatch,*)
(* SearchEnds, AttemptEnds, QueryEnds, PageLost), for each of which a      *)
(* lemma says that a sound record becomes a sound record.  What the        *)
(* scheduler and the memory of empty answers have to do with history are   *)
(* invariants of their own.                                                *)
(***************************************************************************)
EXTENDS ProviderSearchProperties, SequenceTheorems, WellFoundedInduction, TLAPS

Stages == {"idle", "selecting", "sleeping", "searching", "enriching", "downloading"}
Reporters == Sources \cup {"subliminal:" \o p : p \in ToSet(Subproviders)}
Reports == [name : Reporters, status : {"completed", "failed", "skipped"}]
Failures == {"all_providers_failed", "no_compatible_provider", "no_candidate_found",
             "candidate_rejected"}

RunType ==
    [pc : Stages, request : Requests, conf : Configs, left : Seq(Sources),
     source : Sources \cup {"none"}, wait : Nat, query : Nat \ {0}, page : Nat,
     timeouts : 0..MAX_SEARCH_TIMEOUTS, answered : BOOLEAN, found : 0..MaxFound,
     batch : Nat, used : Nat, failure : {"none", "candidate_rejected"},
     challenge : {"none", "shown", "answered"}, rounds : 0..CaptchaRounds,
     turn : 1..Len(Solvers), skipped : 0..(Len(Solvers) - 1),
     asked : SUBSET ToSet(Solvers), reports : SUBSET Reports,
     searched : SUBSET Sources, truth : SUBSET {"answered", "failed"},
     outcome : Failures \cup {"none", "completed"}]

\* What the sources of a run are asked, of any record.
QueriesOf(r) == CASE r.source = "zimuku" -> ZimukuQueries(r.request)
                  [] r.source = "assrt" -> AssrtQueries(r.request)
                  [] r.source = "subdl" -> SubdlQueries(r.request)
                  [] r.source = "subliminal" -> Subproviders

\* Every source of the task is either yet to be searched or has been.
Partition(r) ==
    /\ IsInjective(r.left)
    /\ ToSet(r.left) \cap r.searched = {}
    /\ ToSet(r.left) \cup r.searched = ToSet(r.conf.order)

\* How many solvers are asked before the j-th, beginning with the one whose turn it is.
Distance(turn, j) == IF j >= turn THEN j - turn ELSE j + Len(Solvers) - turn

\* The requests of the page whose image was answered.
AnsweredRounds(r) == IF r.challenge = "shown" THEN r.rounds - 1 ELSE r.rounds

\* A solver that was not asked yet is ahead, the nearer the more have answered.
Rotation(r) ==
    /\ r.challenge = "none" => r.rounds < CaptchaRounds
    /\ r.challenge # "none" => r.rounds > 0
    /\ \A j \in 1..Len(Solvers) :
          Solvers[j] \notin r.asked =>
              /\ Distance(r.turn, j) + AnsweredRounds(r) < Len(Solvers)
              /\ r.challenge = "shown" => r.skipped <= Distance(r.turn, j)

\* A search that was answered has been reported as such.
Told(r) ==
    "answered" \in r.truth => \E report \in r.reports : report.status = "completed"

\* What every record of a run satisfies while the run is under way.
Sound(r) ==
    /\ r \in RunType /\ Partition(r) /\ Rotation(r)
    /\ r.used + r.batch <= MaxAttempts

\* What the stage of a run says of the rest of its record.
Staged(r) ==
    /\ r.pc \in {"selecting", "sleeping"} => r.query = 1
    /\ r.pc = "searching" => r.query <= Len(QueriesOf(r))
    /\ r.pc \in {"searching", "enriching", "downloading"} => r.source \in Sources
    /\ r.pc = "downloading" <=> r.batch > 0
    /\ r.pc # "idle" => r.outcome = "none" /\ Told(r)
    /\ r.outcome \in Failures => r.used = MaxAttempts \/ r.left = <<>>
    /\ r.outcome = "all_providers_failed" => "answered" \notin r.truth

RunInv(r) == Sound(r) /\ Staged(r)

\* The scheduler hears of the end of a search, ...
Ended(r) ==
    /\ sched' = MarkCompleted(sched, r.source)
    /\ owed' = [owed EXCEPT ![r.source] = sched.interval[r.source]]
    /\ r.source \in Sources

\* ... or a search goes on and the scheduler hears nothing.
Kept(r) ==
    /\ UNCHANGED <<sched, owed>>
    /\ r.pc \in {"searching", "enriching"} =>
          run'.pc \in {"searching", "enriching"} /\ run'.source = r.source

\* A step of a run that begins no search.
Moved(r) == RunInv(run') /\ run'.searched = r.searched /\ (Ended(r) \/ Kept(r))

Typed ==
    /\ stored \in Configs
    /\ sched \in [interval : [Sources -> Nat], cooldown : [Sources -> Nat]]
    /\ negative \in [AssrtKeys -> 0..NegativeTtl]
    /\ misses \in [AssrtTexts -> 0..NegativeTtl]
    /\ owed \in [Sources -> Nat]

\* The scheduler keeps the rest a source is due, except of the one being searched.
Resting ==
    \A p \in Sources :
        \/ run.pc \in {"searching", "enriching"} /\ run.source = p
        \/ owed[p] <= sched.cooldown[p]

\* An empty answer is remembered for as long as it is not NegativeTtl old.
Memory ==
    \A r \in Requests : \A q \in ToSet(AssrtQueries(r)) :
        negative[NegativeKey(r, q)] > 0
            => misses[q] + negative[NegativeKey(r, q)] <= NegativeTtl

IInv == Typed /\ RunInv(run) /\ Resting /\ Memory

-----------------------------------------------------------------------------
(* Sequences and numbers.                                                  *)

LEMMA LeastNatural ==
    ASSUME NEW S, S \subseteq Nat, S # {}
    PROVE  \E m \in S : \A n \in S : m =< n
<1> DEFINE R == {ss \in Nat \X Nat : ss[1] < ss[2]}
<1>1. IsWellFoundedOn(R, Nat)
  BY NatLessThanWellFounded DEF OpToRel
<1>2. \E m \in S : \A n \in S : ~ (<<n, m>> \in R)
  <2> HIDE DEF R
  <2> QED
    BY <1>1, WFMin
<1>3. PICK m \in S : \A n \in S : ~ (<<n, m>> \in R)
  BY <1>2
<1>4. ASSUME NEW n \in S
      PROVE  m =< n
  <2>1. m \in Nat /\ n \in Nat /\ ~ (<<n, m>> \in R)
    BY <1>3
  <2>2. ~ (n < m)
    BY <2>1
  <2> QED
    BY <2>1, <2>2
<1> QED
  BY <1>3, <1>4

LEMMA MinIsMember ==
    ASSUME NEW S, S \subseteq Nat, S # {}
    PROVE  Min(S) \in S /\ \A n \in S : Min(S) <= n
<1>1. \E m \in S : \A n \in S : m =< n
  BY LeastNatural
<1> QED
  BY <1>1, Zenon DEF Min

LEMMA MaxOfTwo ==
    ASSUME NEW a \in Nat, NEW b \in Nat
    PROVE  Max({a, b}) = IF a >= b THEN a ELSE b
<1> DEFINE P(x) == x \in {a, b} /\ \A y \in {a, b} : x >= y
<1>1. \E x \in {a, b} : \A y \in {a, b} : x >= y
  <2>1. CASE a >= b
    BY <2>1
  <2>2. CASE ~ (a >= b)
    BY <2>2
  <2> QED
    BY <2>1, <2>2
<1>2. Max({a, b}) \in {a, b} /\ \A y \in {a, b} : Max({a, b}) >= y
  BY <1>1, Zenon DEF Max
<1> QED
  BY <1>2

\* The element at a position of an injective sequence, and what is left without it.
LEMMA RemovedElements ==
    ASSUME NEW S, NEW s \in Seq(S), NEW i \in DOMAIN s, IsInjective(s)
    PROVE  /\ RemoveAt(s, i) \in Seq(S)
           /\ IsInjective(RemoveAt(s, i))
           /\ ToSet(RemoveAt(s, i)) = ToSet(s) \ {s[i]}
<1> DEFINE r == RemoveAt(s, i)
<1>1. /\ Len(s) \in Nat /\ DOMAIN s = 1..Len(s) /\ i \in 1..Len(s)
      /\ \A j \in 1..Len(s) : s[j] \in S
  OBVIOUS
<1> DEFINE u == SubSeq(s, 1, i - 1)
<1> DEFINE v == SubSeq(s, i + 1, Len(s))
<1>2. /\ u \in Seq(S) /\ Len(u) = i - 1
      /\ \A j \in 1..(i - 1) : u[j] = s[j]
  <2>1. 1 \in Int /\ i - 1 \in Int /\ \A j \in 1..(i - 1) : s[j] \in S
    BY <1>1
  <2>2. /\ u \in Seq(S)
        /\ Len(u) = IF 1 <= i - 1 THEN i - 1 - 1 + 1 ELSE 0
        /\ \A j \in 1..(i - 1 - 1 + 1) : u[j] = s[1 + j - 1]
    BY <2>1, SubSeqProperties
  <2> QED
    BY <1>1, <2>2
<1>3. /\ v \in Seq(S) /\ Len(v) = Len(s) - i
      /\ \A j \in 1..(Len(s) - i) : v[j] = s[i + j]
  <2>1. i + 1 \in Int /\ Len(s) \in Int /\ \A j \in (i + 1)..Len(s) : s[j] \in S
    BY <1>1
  <2>2. /\ v \in Seq(S)
        /\ Len(v) = IF i + 1 <= Len(s) THEN Len(s) - (i + 1) + 1 ELSE 0
        /\ \A j \in 1..(Len(s) - (i + 1) + 1) : v[j] = s[i + 1 + j - 1]
    BY <2>1, SubSeqProperties
  <2>3. ASSUME NEW j \in 1..(Len(s) - i)
        PROVE  v[j] = s[i + j]
    <3>1. j \in 1..(Len(s) - (i + 1) + 1) /\ i + 1 + j - 1 = i + j
      BY <1>1
    <3> QED
      BY <2>2, <3>1
  <2>4. Len(v) = Len(s) - i
    BY <1>1, <2>2
  <2> QED
    BY <2>2, <2>3, <2>4
<1> HIDE DEF u, v
<1>4. /\ r \in Seq(S) /\ Len(r) = Len(s) - 1
      /\ \A j \in 1..(Len(s) - 1) : r[j] = IF j < i THEN s[j] ELSE s[j + 1]
  <2>1. r = u \o v
    BY DEF RemoveAt, u, v
  <2>2. /\ u \o v \in Seq(S)
        /\ Len(u \o v) = Len(u) + Len(v)
        /\ \A j \in 1..(Len(u) + Len(v)) :
              (u \o v)[j] = IF j <= Len(u) THEN u[j] ELSE v[j - Len(u)]
    BY <1>2, <1>3, ConcatProperties
  <2>3. ASSUME NEW j \in 1..(Len(s) - 1)
        PROVE  r[j] = IF j < i THEN s[j] ELSE s[j + 1]
    <3>1. j \in 1..(Len(u) + Len(v))
      BY <1>1, <1>2, <1>3
    <3>2. r[j] = IF j <= i - 1 THEN u[j] ELSE v[j - (i - 1)]
      BY <1>2, <2>1, <2>2, <3>1
    <3>3. CASE j < i
      BY <1>1, <1>2, <3>2, <3>3
    <3>4. CASE ~ (j < i)
      <4>1. j - (i - 1) \in 1..(Len(s) - i) /\ i + (j - (i - 1)) = j + 1 /\ ~ (j <= i - 1)
        BY <1>1, <3>4
      <4> QED
        BY <1>3, <3>2, <3>4, <4>1
    <3> QED
      BY <3>3, <3>4
  <2> QED
    BY <1>1, <1>2, <1>3, <2>1, <2>2, <2>3
<1>5. DOMAIN r = 1..(Len(s) - 1)
  BY <1>1, <1>4
<1>6. \A a, b \in 1..Len(s) : s[a] = s[b] => a = b
  BY <1>1 DEF IsInjective
<1> HIDE DEF r
<1>7. IsInjective(r)
  <2> SUFFICES ASSUME NEW a \in 1..(Len(s) - 1), NEW b \in 1..(Len(s) - 1), r[a] = r[b]
               PROVE  a = b
    BY <1>5 DEF IsInjective
  <2> DEFINE at(k) == IF k < i THEN k ELSE k + 1
  <2>1. at(a) \in 1..Len(s) /\ at(b) \in 1..Len(s) /\ r[a] = s[at(a)] /\ r[b] = s[at(b)]
    BY <1>1, <1>4
  <2>2. at(a) = at(b)
    BY <1>6, <2>1
  <2> QED
    BY <1>1, <2>2
<1>8. ASSUME NEW x \in ToSet(r)
      PROVE  x \in ToSet(s) \ {s[i]}
  <2>1. PICK j \in 1..(Len(s) - 1) : x = r[j]
    BY <1>5 DEF ToSet
  <2>2. PICK k \in 1..Len(s) : k # i /\ x = s[k]
    <3>1. CASE j < i
      BY <1>1, <1>4, <2>1, <3>1
    <3>2. CASE ~ (j < i)
      BY <1>1, <1>4, <2>1, <3>2
    <3> QED
      BY <3>1, <3>2
  <2> QED
    BY <1>1, <1>6, <2>2 DEF ToSet
<1>9. ASSUME NEW x \in ToSet(s) \ {s[i]}
      PROVE  x \in ToSet(r)
  <2>1. PICK k \in 1..Len(s) : x = s[k]
    BY <1>1 DEF ToSet
  <2>2. k # i
    BY <2>1
  <2>3. PICK j \in 1..(Len(s) - 1) : x = r[j]
    <3>1. CASE k < i
      <4>1. k \in 1..(Len(s) - 1) /\ r[k] = s[k]
        BY <1>1, <1>4, <3>1
      <4> QED
        BY <2>1, <4>1
    <3>2. CASE k > i
      <4>1. k - 1 \in 1..(Len(s) - 1) /\ r[k - 1] = s[k]
        BY <1>1, <1>4, <3>2
      <4> QED
        BY <2>1, <4>1
    <3> QED
      BY <1>1, <2>2, <3>1, <3>2
  <2> QED
    BY <1>5, <2>3 DEF ToSet
<1> QED
  BY <1>4, <1>7, <1>8, <1>9 DEF r

-----------------------------------------------------------------------------
(* The queries.                                                            *)

Strategies ==
    {"title", "title_year", "season_pack", "season_pack_localized", "episode_exact",
     "episode_localized", "imdb_id", "tmdb_id", "file_name"}

Texts(r) ==
    [strategy : Strategies, title : {r.title, r.original, r.imdb, r.tmdb}, year : {0, r.year},
     season : {0, r.season}, episode : {0, r.episode}]

LEMMA TitlesThere ==
    ASSUME NEW r
    PROVE  /\ Titles(r) \in Seq({r.title, r.original})
           /\ Len(Titles(r)) \in {1, 2}
<1>1. <<r.title>> \in Seq({r.title, r.original}) /\ Len(<<r.title>>) = 1
  OBVIOUS
<1>2. /\ <<r.title, r.original>> \in Seq({r.title, r.original})
      /\ Len(<<r.title, r.original>>) = 2
  OBVIOUS
<1>3. Titles(r) = <<r.title>> \/ Titles(r) = <<r.title, r.original>>
  BY Zenon DEF Titles
<1> QED
  BY <1>1, <1>2, <1>3

LEMMA QueryText ==
    ASSUME NEW r, NEW s \in Strategies, NEW t \in {r.title, r.original, r.imdb, r.tmdb},
           NEW y \in {0, r.year}, NEW n \in {0, r.season}, NEW e \in {0, r.episode}
    PROVE  Query(s, t, y, n, e) \in Texts(r)
<1> DEFINE T == {r.title, r.original, r.imdb, r.tmdb}
<1> DEFINE Y == {0, r.year}
<1> DEFINE N == {0, r.season}
<1> DEFINE E == {0, r.episode}
<1>1. t \in T /\ y \in Y /\ n \in N /\ e \in E
  OBVIOUS
<1>2. Texts(r) = [strategy : Strategies, title : T, year : Y, season : N, episode : E]
  BY DEF Texts
<1> HIDE DEF T, Y, N, E
<1> QED
  BY <1>1, <1>2 DEF Query

LEMMA MadeOfTexts ==
    ASSUME NEW r, NEW t \in {r.title, r.original}
    PROVE  /\ Bare(t) \in Texts(r) /\ TitleYear(r, t) \in Texts(r)
           /\ SeasonPack(r, t) \in Texts(r) /\ Exact(r, t) \in Texts(r)
           /\ Query("season_pack_localized", t, 0, r.season, 0) \in Texts(r)
           /\ Query("episode_localized", t, 0, r.season, r.episode) \in Texts(r)
<1>1. {"title", "title_year", "season_pack", "season_pack_localized", "episode_exact",
       "episode_localized"} \subseteq Strategies
  BY DEF Strategies
<1>2. t \in {r.title, r.original, r.imdb, r.tmdb}
  OBVIOUS
<1>3. \A s \in Strategies : \A y \in {0, r.year}, n \in {0, r.season}, e \in {0, r.episode} :
         Query(s, t, y, n, e) \in Texts(r)
  BY <1>2, QueryText
<1>4. Query("title", t, 0, 0, 0) \in Texts(r) /\ Query("title_year", t, r.year, 0, 0) \in Texts(r)
  BY <1>1, <1>3
<1>5. /\ Query("season_pack", t, 0, r.season, 0) \in Texts(r)
      /\ Query("episode_exact", t, 0, r.season, r.episode) \in Texts(r)
      /\ Query("season_pack_localized", t, 0, r.season, 0) \in Texts(r)
      /\ Query("episode_localized", t, 0, r.season, r.episode) \in Texts(r)
  BY <1>1, <1>3
<1> QED
  BY <1>4, <1>5 DEF Bare, TitleYear, SeasonPack, Exact

LEMMA SubdlTexts ==
    ASSUME NEW r
    PROVE  /\ Query("imdb_id", r.imdb, 0, 0, 0) \in Texts(r)
           /\ Query("tmdb_id", r.tmdb, 0, 0, 0) \in Texts(r)
<1>1. "imdb_id" \in Strategies /\ "tmdb_id" \in Strategies
  BY DEF Strategies
<1> QED
  BY <1>1, QueryText

LEMMA SingleText ==
    ASSUME NEW S, NEW x \in S
    PROVE  <<x>> \in Seq(S) /\ Len(<<x>>) = 1
OBVIOUS

LEMMA PerTitleQueries ==
    ASSUME NEW r, NEW f, f = [i \in 1..Len(Titles(r)) |-> f[i]],
           \A i \in 1..Len(Titles(r)) : f[i] \in Texts(r)
    PROVE  f \in Seq(Texts(r)) /\ Len(f) \in {1, 2}
<1>1. Len(Titles(r)) \in Nat /\ Len(Titles(r)) \in {1, 2}
  <2>1. Len(Titles(r)) \in {1, 2}
    BY TitlesThere
  <2> QED
    BY <2>1
<1>2. f \in [1..Len(Titles(r)) -> Texts(r)]
  <2> HIDE DEF Texts
  <2> QED
    OBVIOUS
<1>3. f \in Seq(Texts(r))
  BY <1>1, <1>2
<1>4. Len(f) = Len(Titles(r))
  BY <1>1, <1>2
<1> QED
  BY <1>1, <1>3, <1>4

LEMMA NotEmpty ==
    ASSUME NEW S, NEW u \in Seq(S), NEW v \in Seq(S), Len(u) > 0 \/ Len(v) > 0
    PROVE  u \o v \in Seq(S) /\ Len(u \o v) > 0
<1>1. u \o v \in Seq(S) /\ Len(u \o v) = Len(u) + Len(v)
  BY ConcatProperties
<1>2. Len(u) \in Nat /\ Len(v) \in Nat
  OBVIOUS
<1> QED
  BY <1>1, <1>2

LEMMA WhenQueries ==
    ASSUME NEW S, NEW c \in BOOLEAN, NEW u \in Seq(S)
    PROVE  When(c, u) \in Seq(S)
BY DEF When

LEMMA TitleInTitles ==
    ASSUME NEW r, NEW i \in 1..Len(Titles(r))
    PROVE  Titles(r)[i] \in {r.title, r.original}
<1> DEFINE S == {r.title, r.original}
<1>1. Titles(r) \in Seq(S)
  BY TitlesThere
<1> HIDE DEF S
<1>2. Titles(r)[i] \in S
  BY <1>1
<1> QED
  BY <1>2 DEF S

LEMMA AssrtQueriesThere ==
    ASSUME NEW r
    PROVE  AssrtQueries(r) \in Seq(Texts(r)) /\ Len(AssrtQueries(r)) > 0
<1> DEFINE n == Len(Titles(r))
<1> DEFINE packs == [i \in 1..n |-> IF r.season # 0 THEN SeasonPack(r, Titles(r)[i])
                                    ELSE Bare(Titles(r)[i])]
<1> DEFINE last == IF r.episode # 0 THEN <<Exact(r, r.title)>> ELSE <<Bare(r.title)>>
<1> DEFINE years == [i \in 1..n |-> TitleYear(r, Titles(r)[i])]
<1> DEFINE titles == [i \in 1..n |-> Bare(Titles(r)[i])]
<1>1. AssrtQueries(r) = IF IsEpisode(r) THEN packs \o When(r.season # 0, last)
                        ELSE When(r.year # 0, years) \o titles
  BY DEF AssrtQueries, PerTitle
<1>2. packs \in Seq(Texts(r)) /\ Len(packs) \in {1, 2}
  <2>1. \A i \in 1..n : packs[i] \in Texts(r)
    BY TitleInTitles, MadeOfTexts
  <2>2. packs = [i \in 1..n |-> packs[i]]
    OBVIOUS
  <2> QED
    BY <2>1, <2>2, PerTitleQueries
<1>3. years \in Seq(Texts(r))
  <2>1. \A i \in 1..n : years[i] \in Texts(r)
    BY TitleInTitles, MadeOfTexts
  <2>2. years = [i \in 1..n |-> years[i]]
    OBVIOUS
  <2> QED
    BY <2>1, <2>2, PerTitleQueries
<1>4. titles \in Seq(Texts(r)) /\ Len(titles) \in {1, 2}
  <2>1. \A i \in 1..n : titles[i] \in Texts(r)
    BY TitleInTitles, MadeOfTexts
  <2>2. titles = [i \in 1..n |-> titles[i]]
    OBVIOUS
  <2> QED
    BY <2>1, <2>2, PerTitleQueries
<1>5. last \in Seq(Texts(r))
  BY MadeOfTexts
<1> HIDE DEF packs, last, years, titles
<1>6. When(r.season # 0, last) \in Seq(Texts(r)) /\ When(r.year # 0, years) \in Seq(Texts(r))
  BY <1>3, <1>5, WhenQueries
<1>7. CASE IsEpisode(r)
  <2>1. packs \o When(r.season # 0, last) \in Seq(Texts(r))
        /\ Len(packs \o When(r.season # 0, last)) > 0
    <3>1. Len(packs) > 0
      BY <1>2
    <3> QED
      BY <1>2, <1>6, <3>1, NotEmpty
  <2> QED
    BY <1>1, <1>7, <2>1
<1>8. CASE ~IsEpisode(r)
  <2>1. When(r.year # 0, years) \o titles \in Seq(Texts(r))
        /\ Len(When(r.year # 0, years) \o titles) > 0
    <3>1. Len(titles) > 0
      BY <1>4
    <3> QED
      BY <1>4, <1>6, <3>1, NotEmpty
  <2> QED
    BY <1>1, <1>8, <2>1
<1> QED
  BY <1>7, <1>8

LEMMA SubdlQueriesThere ==
    ASSUME NEW r
    PROVE  SubdlQueries(r) \in Seq(Texts(r)) /\ Len(SubdlQueries(r)) > 0
<1> DEFINE a == When(r.imdb # NoId, <<Query("imdb_id", r.imdb, 0, 0, 0)>>)
<1> DEFINE b == When(r.tmdb # NoId, <<Query("tmdb_id", r.tmdb, 0, 0, 0)>>)
<1> DEFINE c == When(r.original # NoTitle, <<Bare(r.original)>>)
<1> DEFINE d == When(r.title # r.original, <<Bare(r.title)>>)
<1> DEFINE e == <<Query("file_name", r.title, 0, r.season, r.episode)>>
<1>1. a \in Seq(Texts(r)) /\ b \in Seq(Texts(r))
  <2>1. /\ <<Query("imdb_id", r.imdb, 0, 0, 0)>> \in Seq(Texts(r))
        /\ <<Query("tmdb_id", r.tmdb, 0, 0, 0)>> \in Seq(Texts(r))
    BY SubdlTexts, SingleText
  <2> QED
    BY <2>1, WhenQueries
<1>0. c \in Seq(Texts(r)) /\ d \in Seq(Texts(r))
  <2>1. Bare(r.original) \in Texts(r) /\ Bare(r.title) \in Texts(r)
    BY MadeOfTexts
  <2>2. <<Bare(r.original)>> \in Seq(Texts(r)) /\ <<Bare(r.title)>> \in Seq(Texts(r))
    BY <2>1, SingleText
  <2> QED
    BY <2>2, WhenQueries
<1>2. e \in Seq(Texts(r)) /\ Len(e) > 0
  <2>1. "file_name" \in Strategies
    BY DEF Strategies
  <2>3. Query("file_name", r.title, 0, r.season, r.episode) \in Texts(r)
    BY <2>1, QueryText
  <2>2. e \in Seq(Texts(r)) /\ Len(e) = 1
    BY <2>3, SingleText
  <2> QED
    BY <2>2
<1>3. SubdlQueries(r) = a \o b \o c \o d \o e
  BY DEF SubdlQueries
<1> HIDE DEF a, b, c, d, e
<1>4. a \o b \in Seq(Texts(r))
  BY <1>1, ConcatProperties
<1>5. a \o b \o c \in Seq(Texts(r))
  BY <1>0, <1>4, ConcatProperties
<1>6. a \o b \o c \o d \in Seq(Texts(r))
  BY <1>0, <1>5, ConcatProperties
<1> QED
  BY <1>2, <1>3, <1>6, NotEmpty

LEMMA ZimukuQueriesThere ==
    ASSUME NEW r
    PROVE  ZimukuQueries(r) \in Seq(Texts(r)) /\ Len(ZimukuQueries(r)) > 0
<1> DEFINE n == Len(Titles(r))
<1> DEFINE lpacks == [i \in 1..n |-> Query("season_pack_localized", Titles(r)[i], 0, r.season, 0)]
<1> DEFINE packs == [i \in 1..n |-> SeasonPack(r, Titles(r)[i])]
<1> DEFINE lexact == [i \in 1..n |-> Query("episode_localized", Titles(r)[i], 0, r.season, r.episode)]
<1> DEFINE exact == [i \in 1..n |-> Exact(r, Titles(r)[i])]
<1> DEFINE years == [i \in 1..n |-> TitleYear(r, Titles(r)[i])]
<1> DEFINE titles == [i \in 1..n |-> Bare(Titles(r)[i])]
<1>1. ZimukuQueries(r) = IF IsEpisode(r) /\ r.season # 0
                         THEN lpacks \o packs \o When(r.episode # 0, lexact \o exact) \o titles
                         ELSE When(~IsEpisode(r) /\ r.year # 0, years) \o titles
  BY DEF ZimukuQueries, PerTitle
<1>2. lpacks \in Seq(Texts(r))
  <2>1. \A i \in 1..n : lpacks[i] \in Texts(r)
    BY TitleInTitles, MadeOfTexts
  <2>2. lpacks = [i \in 1..n |-> lpacks[i]]
    OBVIOUS
  <2> QED
    BY <2>1, <2>2, PerTitleQueries
<1>3. packs \in Seq(Texts(r))
  <2>1. \A i \in 1..n : packs[i] \in Texts(r)
    BY TitleInTitles, MadeOfTexts
  <2>2. packs = [i \in 1..n |-> packs[i]]
    OBVIOUS
  <2> QED
    BY <2>1, <2>2, PerTitleQueries
<1>4. lexact \in Seq(Texts(r))
  <2>1. \A i \in 1..n : lexact[i] \in Texts(r)
    BY TitleInTitles, MadeOfTexts
  <2>2. lexact = [i \in 1..n |-> lexact[i]]
    OBVIOUS
  <2> QED
    BY <2>1, <2>2, PerTitleQueries
<1>5. exact \in Seq(Texts(r))
  <2>1. \A i \in 1..n : exact[i] \in Texts(r)
    BY TitleInTitles, MadeOfTexts
  <2>2. exact = [i \in 1..n |-> exact[i]]
    OBVIOUS
  <2> QED
    BY <2>1, <2>2, PerTitleQueries
<1>6. years \in Seq(Texts(r))
  <2>1. \A i \in 1..n : years[i] \in Texts(r)
    BY TitleInTitles, MadeOfTexts
  <2>2. years = [i \in 1..n |-> years[i]]
    OBVIOUS
  <2> QED
    BY <2>1, <2>2, PerTitleQueries
<1>7. titles \in Seq(Texts(r)) /\ Len(titles) > 0
  <2>1. \A i \in 1..n : titles[i] \in Texts(r)
    BY TitleInTitles, MadeOfTexts
  <2>2. titles = [i \in 1..n |-> titles[i]]
    OBVIOUS
  <2>3. titles \in Seq(Texts(r)) /\ Len(titles) \in {1, 2}
    BY <2>1, <2>2, PerTitleQueries
  <2> QED
    BY <2>3
<1> HIDE DEF lpacks, packs, lexact, exact, years, titles
<1>8. When(~IsEpisode(r) /\ r.year # 0, years) \in Seq(Texts(r))
  BY <1>6, WhenQueries
<1>9. lexact \o exact \in Seq(Texts(r))
  BY <1>4, <1>5, ConcatProperties
<1>10. When(r.episode # 0, lexact \o exact) \in Seq(Texts(r))
  BY <1>9, WhenQueries
<1>11. lpacks \o packs \in Seq(Texts(r))
  BY <1>2, <1>3, ConcatProperties
<1>12. lpacks \o packs \o When(r.episode # 0, lexact \o exact) \in Seq(Texts(r))
  BY <1>10, <1>11, ConcatProperties
<1>13. CASE IsEpisode(r) /\ r.season # 0
  BY <1>1, <1>7, <1>12, <1>13, NotEmpty
<1>14. CASE ~ (IsEpisode(r) /\ r.season # 0)
  BY <1>1, <1>7, <1>8, <1>14, NotEmpty
<1> QED
  BY <1>13, <1>14

LEMMA QueriesThere ==
    ASSUME NEW r, r.source \in Sources
    PROVE  Len(QueriesOf(r)) \in Nat /\ Len(QueriesOf(r)) > 0
           /\ DOMAIN QueriesOf(r) = 1..Len(QueriesOf(r))
<1>1. CASE r.source = "zimuku"
  <2>1. QueriesOf(r) = ZimukuQueries(r.request)
    BY <1>1 DEF QueriesOf
  <2> QED
    BY <2>1, ZimukuQueriesThere
<1>2. CASE r.source = "assrt"
  <2>1. QueriesOf(r) = AssrtQueries(r.request)
    BY <1>2 DEF QueriesOf
  <2> QED
    BY <2>1, AssrtQueriesThere
<1>3. CASE r.source = "subdl"
  <2>1. QueriesOf(r) = SubdlQueries(r.request)
    BY <1>3 DEF QueriesOf
  <2> QED
    BY <2>1, SubdlQueriesThere
<1>4. CASE r.source = "subliminal"
  <2>1. QueriesOf(r) = Subproviders /\ Subproviders \in Seq(STRING) /\ Subproviders # <<>>
    BY <1>4, SearchAssumption DEF QueriesOf
  <2> QED
    BY <2>1
<1> QED
  BY <1>1, <1>2, <1>3, <1>4 DEF Sources

-----------------------------------------------------------------------------
(* The record of a run.                                                    *)

LEMMA Limits ==
    /\ NegativeTtl \in Nat /\ MaxFound \in Nat /\ MaxPages \in Nat /\ MaxAttempts \in Nat
    /\ Len(Solvers) \in 1..CaptchaRounds
BY SearchAssumption

LEMMA NewRunSound ==
    ASSUME NEW request \in Requests, NEW conf \in Configs
    PROVE  /\ RunInv(NewRun(request, conf))
           /\ NewRun(request, conf).pc = "selecting"
           /\ NewRun(request, conf).searched = {}
<1> DEFINE n == NewRun(request, conf)
<1>0. /\ conf.order \in Seq(Sources) /\ IsInjective(conf.order)
      /\ Len(Solvers) \in Nat /\ Len(Solvers) >= 1 /\ MaxFound \in Nat /\ MaxAttempts \in Nat
  BY SearchAssumption
<1>1. n = [pc |-> "selecting", request |-> request, conf |-> conf, left |-> conf.order,
     source |-> "none", wait |-> 0, query |-> 1, page |-> 1, timeouts |-> 0,
     answered |-> FALSE, found |-> 0, batch |-> 0, used |-> 0, failure |-> "none",
     challenge |-> "none", rounds |-> 0, turn |-> 1, skipped |-> 0, asked |-> {},
     reports |-> {}, searched |-> {}, truth |-> {}, outcome |-> "none"]
  BY DEF NewRun
<1>2. n \in RunType
  BY <1>0, <1>1 DEF RunType, Stages, MAX_SEARCH_TIMEOUTS, CaptchaRounds
<1>3. Partition(n)
  BY <1>0, <1>1 DEF Partition
<1>4. Rotation(n)
  BY <1>0, <1>1 DEF Rotation, Distance, AnsweredRounds, CaptchaRounds
<1>5. Sound(n)
  BY <1>0, <1>1, <1>2, <1>3, <1>4 DEF Sound
<1>6. Staged(n)
  BY <1>1 DEF Staged, Told, Failures
<1> QED
  BY <1>1, <1>5, <1>6 DEF RunInv

\* The fields a step changes, each within its type.
LEMMA Retyped ==
    ASSUME NEW r \in RunType
    PROVE  /\ \A x \in Stages : [r EXCEPT !.pc = x] \in RunType
           /\ \A x \in Nat \ {0} : [r EXCEPT !.query = x] \in RunType
           /\ \A x \in Nat : /\ [r EXCEPT !.page = x] \in RunType
                            /\ [r EXCEPT !.batch = x] \in RunType
                            /\ [r EXCEPT !.used = x] \in RunType
                            /\ [r EXCEPT !.wait = x] \in RunType
           /\ \A x \in 0..MaxFound : [r EXCEPT !.found = x] \in RunType
           /\ \A x \in 0..MAX_SEARCH_TIMEOUTS : [r EXCEPT !.timeouts = x] \in RunType
           /\ \A x \in 0..CaptchaRounds : [r EXCEPT !.rounds = x] \in RunType
           /\ \A x \in SUBSET Reports : [r EXCEPT !.reports = x] \in RunType
           /\ \A x \in BOOLEAN : [r EXCEPT !.answered = x] \in RunType
           /\ \A x \in {"none", "shown", "answered"} : [r EXCEPT !.challenge = x] \in RunType
           /\ \A x \in 1..Len(Solvers) : [r EXCEPT !.turn = x] \in RunType
           /\ \A x \in 0..(Len(Solvers) - 1) : [r EXCEPT !.skipped = x] \in RunType
           /\ \A x \in SUBSET ToSet(Solvers) : [r EXCEPT !.asked = x] \in RunType
           /\ \A x \in Failures \cup {"none", "completed"} : [r EXCEPT !.outcome = x] \in RunType
           /\ \A x \in SUBSET Sources : [r EXCEPT !.searched = x] \in RunType
           /\ \A x \in SUBSET {"answered", "failed"} : [r EXCEPT !.truth = x] \in RunType
           /\ \A x \in Seq(Sources) : [r EXCEPT !.left = x] \in RunType
<1> DEFINE A == Nat \ {0}
<1> DEFINE B == 0..MaxFound
<1> DEFINE C == 0..MAX_SEARCH_TIMEOUTS
<1> DEFINE D == 0..CaptchaRounds
<1> DEFINE E == SUBSET Reports
<1> DEFINE F == SUBSET ToSet(Solvers)
<1> DEFINE G == SUBSET Sources
<1> DEFINE H == 0..(Len(Solvers) - 1)
<1> DEFINE I == 1..Len(Solvers)
<1> DEFINE J == Seq(Sources)
<1> DEFINE K == Sources \cup {"none"}
<1> DEFINE L == Failures \cup {"none", "completed"}
<1> DEFINE M == SUBSET {"answered", "failed"}
<1> DEFINE N == Nat
<1>1. RunType =
    [pc : Stages, request : Requests, conf : Configs, left : J,
     source : K, wait : N, query : A, page : N,
     timeouts : C, answered : BOOLEAN, found : B,
     batch : N, used : N, failure : {"none", "candidate_rejected"},
     challenge : {"none", "shown", "answered"}, rounds : D,
     turn : I, skipped : H, asked : F, reports : E, searched : G, truth : M, outcome : L]
  BY DEF RunType
<1> HIDE DEF A, B, C, D, E, F, G, H, I, J, K, L, M, N
<1>2. \A x \in Stages : [r EXCEPT !.pc = x] \in RunType
  BY <1>1
<1>3. \A x \in A : [r EXCEPT !.query = x] \in RunType
  BY <1>1
<1>4. \A x \in N : /\ [r EXCEPT !.page = x] \in RunType
                   /\ [r EXCEPT !.batch = x] \in RunType
                   /\ [r EXCEPT !.used = x] \in RunType
                   /\ [r EXCEPT !.wait = x] \in RunType
  BY <1>1
<1>5. \A x \in B : [r EXCEPT !.found = x] \in RunType
  BY <1>1
<1>6. \A x \in C : [r EXCEPT !.timeouts = x] \in RunType
  BY <1>1
<1>7. \A x \in D : [r EXCEPT !.rounds = x] \in RunType
  BY <1>1
<1>8. \A x \in E : [r EXCEPT !.reports = x] \in RunType
  BY <1>1
<1>9. \A x \in BOOLEAN : [r EXCEPT !.answered = x] \in RunType
  BY <1>1
<1>10. \A x \in {"none", "shown", "answered"} : [r EXCEPT !.challenge = x] \in RunType
  BY <1>1
<1>11. \A x \in I : [r EXCEPT !.turn = x] \in RunType
  BY <1>1
<1>12. \A x \in H : [r EXCEPT !.skipped = x] \in RunType
  BY <1>1
<1>13. \A x \in F : [r EXCEPT !.asked = x] \in RunType
  BY <1>1
<1>14. \A x \in L : [r EXCEPT !.outcome = x] \in RunType
  BY <1>1
<1>15. \A x \in G : [r EXCEPT !.searched = x] \in RunType
  BY <1>1
<1>16. \A x \in M : [r EXCEPT !.truth = x] \in RunType
  BY <1>1
<1>17. \A x \in J : [r EXCEPT !.left = x] \in RunType
  BY <1>1
<1> QED
  BY <1>2, <1>3, <1>4, <1>5, <1>6, <1>7, <1>8, <1>9, <1>10, <1>11, <1>12, <1>13,
     <1>14, <1>15, <1>16, <1>17 DEF A, B, C, D, E, F, G, H, I, J, L, M, N

\* A record that differs in what its partition and its rotation do not depend on.
LEMMA SoundAgain ==
    ASSUME NEW r, NEW s, Sound(r), s \in RunType,
           s.left = r.left, s.searched = r.searched, s.conf = r.conf,
           s.challenge = r.challenge, s.rounds = r.rounds, s.turn = r.turn,
           s.skipped = r.skipped, s.asked = r.asked,
           s.used + s.batch <= MaxAttempts
    PROVE  Sound(s)
<1>1. Partition(s)
  BY DEF Sound, Partition
<1>2. Rotation(s)
  BY DEF Sound, Rotation, AnsweredRounds
<1> QED
  BY <1>1, <1>2 DEF Sound

LEMMA FinishedRun ==
    ASSUME NEW r, Sound(r), NEW outcome \in Failures \cup {"completed"}, Finish(r, outcome),
           outcome \in Failures => r.used = MaxAttempts \/ r.left = <<>>,
           outcome = "all_providers_failed" => "answered" \notin r.truth
    PROVE  RunInv(run') /\ run'.pc = "idle" /\ run'.searched = r.searched
<1>1. r.request \in Requests /\ r.conf \in Configs /\ r.used \in Nat /\ r.left \in Seq(Sources)
      /\ r.searched \in SUBSET Sources /\ r.truth \in SUBSET {"answered", "failed"}
      /\ r.batch \in Nat /\ r.used + r.batch <= MaxAttempts
  BY DEF Sound, RunType
<1> DEFINE n == NewRun(r.request, r.conf)
<1>2. RunInv(n)
  BY <1>1, NewRunSound
<1>3. n.batch = 0 /\ n.conf = r.conf
  BY DEF NewRun
<1>4. run' = [n EXCEPT !.pc = "idle", !.outcome = outcome, !.used = r.used,
                       !.searched = r.searched, !.truth = r.truth, !.left = r.left]
  BY DEF Finish
<1> HIDE DEF n
<1>5. n \in RunType
  BY <1>2 DEF RunInv, Sound
<1>6. run' \in RunType
  <2> DEFINE n1 == [n EXCEPT !.pc = "idle"]
             n2 == [n1 EXCEPT !.outcome = outcome]
             n3 == [n2 EXCEPT !.used = r.used]
             n4 == [n3 EXCEPT !.searched = r.searched]
             n5 == [n4 EXCEPT !.truth = r.truth]
  <2>1. run' = [n5 EXCEPT !.left = r.left]
    BY <1>4
  <2>2. n1 \in RunType
    BY <1>5, Retyped DEF Stages
  <2> HIDE DEF n1
  <2>3. n2 \in RunType
    BY <2>2, Retyped
  <2> HIDE DEF n2
  <2>4. n3 \in RunType
    BY <1>1, <2>3, Retyped
  <2> HIDE DEF n3
  <2>5. n4 \in RunType
    BY <1>1, <2>4, Retyped
  <2> HIDE DEF n4
  <2>6. n5 \in RunType
    BY <1>1, <2>5, Retyped
  <2> HIDE DEF n5
  <2> QED
    BY <1>1, <2>1, <2>6, Retyped
<1>7. /\ run'.pc = "idle" /\ run'.outcome = outcome /\ run'.used = r.used
      /\ run'.searched = r.searched /\ run'.truth = r.truth /\ run'.left = r.left
      /\ run'.batch = 0 /\ run'.conf = r.conf
      /\ run'.challenge = n.challenge /\ run'.rounds = n.rounds /\ run'.turn = n.turn
      /\ run'.skipped = n.skipped /\ run'.asked = n.asked
  BY <1>3, <1>4, <1>5 DEF RunType
<1>8. Partition(run')
  BY <1>7 DEF Sound, Partition
<1>9. Rotation(run')
  BY <1>2, <1>7 DEF RunInv, Sound, Rotation, AnsweredRounds
<1>10. Sound(run')
  <2>1. run'.used + run'.batch <= MaxAttempts
    BY <1>1, <1>7, SearchAssumption
  <2> QED
    BY <1>6, <1>8, <1>9, <2>1 DEF Sound
<1>11. Staged(run')
  BY <1>7 DEF Staged
<1> QED
  BY <1>7, <1>10, <1>11 DEF RunInv

LEMMA FailedRun ==
    ASSUME NEW r, Sound(r), Told(r), Failed(r), r.used = MaxAttempts \/ r.left = <<>>
    PROVE  RunInv(run') /\ run'.pc = "idle" /\ run'.searched = r.searched
<1> DEFINE outcome == IF r.failure # "none" THEN r.failure ELSE SearchFailureReason(r.reports)
<1>1. r.failure \in {"none", "candidate_rejected"}
  BY DEF Sound, RunType
<1>2. SearchFailureReason(r.reports) \in Failures \ {"candidate_rejected"}
  BY DEF SearchFailureReason, Failures
<1>3. SearchFailureReason(r.reports) = "all_providers_failed" => "answered" \notin r.truth
  <2>1. SUFFICES ASSUME SearchFailureReason(r.reports) = "all_providers_failed",
                        "answered" \in r.truth
                 PROVE  FALSE
    OBVIOUS
  <2>2. PICK report \in r.reports : report.status = "completed"
    BY <2>1 DEF Told
  <2>3. \A x \in {x \in r.reports : x.status \in {"completed", "failed"}} : x.status = "failed"
    BY <2>1 DEF SearchFailureReason
  <2> QED
    BY <2>2, <2>3
<1>4. /\ outcome \in Failures
      /\ outcome = "all_providers_failed" => "answered" \notin r.truth
  BY <1>1, <1>2, <1>3 DEF Failures
<1>5. Finish(r, outcome)
  BY DEF Failed
<1> HIDE DEF outcome
<1> QED
  BY <1>4, <1>5, FinishedRun

LEMMA NextBatchRun ==
    ASSUME NEW r, Sound(r), Told(r), NextBatch(r), r.batch = 0, r.outcome = "none"
    PROVE  RunInv(run') /\ run'.pc \in {"selecting", "idle"} /\ run'.searched = r.searched
<1>1. r \in RunType /\ r.used \in Nat /\ r.used + r.batch <= MaxAttempts /\ MaxAttempts \in Nat
  BY SearchAssumption DEF Sound, RunType
<1>2. CASE r.used < MaxAttempts /\ r.left # <<>>
  <2>1. run' = [r EXCEPT !.pc = "selecting", !.query = 1, !.page = 1, !.found = 0,
                         !.timeouts = 0, !.answered = FALSE]
    BY <1>2 DEF NextBatch
  <2>2. run' \in RunType
    <3> DEFINE o == [r EXCEPT !.pc = "selecting"]
    <3> DEFINE a == [o EXCEPT !.answered = FALSE]
    <3> DEFINE b == [a EXCEPT !.query = 1]
    <3> DEFINE c == [b EXCEPT !.page = 1]
    <3> DEFINE d == [c EXCEPT !.found = 0]
    <3> DEFINE e == [d EXCEPT !.timeouts = 0]
    <3>1. /\ 1 \in Nat \ {0} /\ 1 \in Nat /\ 0 \in 0..MaxFound
          /\ 0 \in 0..MAX_SEARCH_TIMEOUTS
      BY Limits DEF MAX_SEARCH_TIMEOUTS
    <3>0. o \in RunType
      BY <1>1, Retyped DEF Stages
    <3>2. a \in RunType
      <4> HIDE DEF o
      <4> QED
        BY <3>0, Retyped
    <3>3. e \in RunType
      <4> HIDE DEF a
      <4>1. b \in RunType
        BY <3>1, <3>2, Retyped
      <4> HIDE DEF b
      <4>2. c \in RunType
        BY <3>1, <4>1, Retyped
      <4> HIDE DEF c
      <4>3. d \in RunType
        BY <3>1, <4>2, Retyped
      <4> HIDE DEF d
      <4> QED
        BY <3>1, <4>3, Retyped
    <3>4. run' = e
      BY <1>1, <2>1 DEF RunType
    <3> QED
      BY <3>3, <3>4
  <2>3. /\ run'.left = r.left /\ run'.searched = r.searched /\ run'.conf = r.conf
        /\ run'.challenge = r.challenge /\ run'.rounds = r.rounds /\ run'.turn = r.turn
        /\ run'.skipped = r.skipped /\ run'.asked = r.asked
        /\ run'.used = r.used /\ run'.batch = r.batch
        /\ run'.pc = "selecting" /\ run'.query = 1 /\ run'.outcome = r.outcome
        /\ run'.truth = r.truth /\ run'.reports = r.reports
    BY <1>1, <2>1 DEF RunType
  <2>4. Sound(run')
    BY <1>1, <2>2, <2>3, SoundAgain
  <2>5. Staged(run')
    BY <2>3 DEF Staged, Told, Failures
  <2> QED
    BY <2>3, <2>4, <2>5 DEF RunInv
<1>3. CASE ~ (r.used < MaxAttempts /\ r.left # <<>>)
  <2>1. Failed(r)
    BY <1>3 DEF NextBatch
  <2>2. r.used = MaxAttempts \/ r.left = <<>>
    BY <1>1, <1>3
  <2> QED
    BY <2>1, <2>2, FailedRun
<1> QED
  BY <1>2, <1>3

LEMMA SearchEndsRun ==
    ASSUME NEW r, Sound(r), r.batch = 0, r.outcome = "none", r.source \in Sources,
           NEW status \in {"completed", "failed", "skipped"}, SearchEnds(r, status),
           "answered" \in r.truth => Told(r) \/ status = "completed"
    PROVE  RunInv(run') /\ run'.pc \in {"selecting", "downloading", "idle"}
           /\ run'.searched = r.searched /\ Ended(r)
<1> DEFINE done == [r EXCEPT !.reports = @ \cup {Report(r.source, status)}]
<1>1. r \in RunType
  BY DEF Sound
<1>2. Report(r.source, status) \in Reports
  BY DEF Report, Reports, Reporters
<1>3. /\ done.left = r.left /\ done.searched = r.searched /\ done.conf = r.conf
      /\ done.challenge = r.challenge /\ done.rounds = r.rounds /\ done.turn = r.turn
      /\ done.skipped = r.skipped /\ done.asked = r.asked /\ done.source = r.source
      /\ done.used = r.used /\ done.batch = 0 /\ done.outcome = "none"
      /\ done.truth = r.truth /\ done.reports = r.reports \cup {Report(r.source, status)}
  BY <1>1 DEF RunType
<1>4. done \in RunType
  <2>1. r.reports \in SUBSET Reports
    BY <1>1 DEF RunType
  <2>2. r.reports \cup {Report(r.source, status)} \in SUBSET Reports
    BY <1>2, <2>1
  <2> QED
    BY <1>1, <2>2, Retyped
<1>5. Told(done)
  <2>1. SUFFICES ASSUME "answered" \in r.truth
                 PROVE  \E report \in done.reports : report.status = "completed"
    BY <1>3 DEF Told
  <2>2. CASE Told(r)
    BY <1>3, <2>1, <2>2 DEF Told
  <2>3. CASE status = "completed"
    <3>1. Report(r.source, status) \in done.reports /\ Report(r.source, status).status = status
      BY <1>3 DEF Report
    <3> QED
      BY <2>3, <3>1
  <2> QED
    BY <2>1, <2>2, <2>3
<1>6. r.used \in Nat /\ r.used + 0 <= MaxAttempts
  BY <1>1 DEF Sound, RunType
<1>7. PICK ranked \in 0..(IF status = "completed" THEN r.found ELSE 0) :
        /\ ranked <= MaxAttempts - r.used
        /\ IF ranked = 0 THEN NextBatch(done)
           ELSE run' = [done EXCEPT !.pc = "downloading", !.batch = ranked, !.page = 1]
  BY DEF SearchEnds
<1>e. Ended(r)
  BY DEF SearchEnds, Ended
<1> HIDE DEF done
<1>8. Sound(done)
  BY <1>3, <1>4, <1>6, SoundAgain
<1>9. CASE ranked = 0
  <2>1. NextBatch(done)
    BY <1>7, <1>9
  <2>2. RunInv(run') /\ run'.pc \in {"selecting", "idle"} /\ run'.searched = done.searched
    BY <1>3, <1>5, <1>8, <2>1, NextBatchRun
  <2> QED
    BY <1>e, <1>3, <2>2
<1>10. CASE ranked # 0
  <2>1. run' = [done EXCEPT !.pc = "downloading", !.batch = ranked, !.page = 1]
    BY <1>7, <1>10
  <2>2. ranked \in Nat /\ ranked > 0
    <3>1. r.found \in Nat
      BY <1>1, Limits DEF RunType
    <3> QED
      BY <1>10, <3>1
  <2>3. run' \in RunType
    <3> DEFINE a == [done EXCEPT !.pc = "downloading"]
    <3> DEFINE b == [a EXCEPT !.batch = ranked]
    <3>1. a \in RunType
      BY <1>4, Retyped DEF Stages
    <3>2. b \in RunType
      <4> HIDE DEF a
      <4> QED
        BY <2>2, <3>1, Retyped
    <3>3. [b EXCEPT !.page = 1] \in RunType
      <4> HIDE DEF b
      <4> QED
        BY <3>2, Retyped
    <3>4. run' = [b EXCEPT !.page = 1]
      BY <1>4, <2>1 DEF RunType
    <3> QED
      BY <3>3, <3>4
  <2>4. /\ run'.left = done.left /\ run'.searched = done.searched /\ run'.conf = done.conf
        /\ run'.challenge = done.challenge /\ run'.rounds = done.rounds
        /\ run'.turn = done.turn /\ run'.skipped = done.skipped /\ run'.asked = done.asked
        /\ run'.used = done.used /\ run'.batch = ranked /\ run'.source = done.source
        /\ run'.pc = "downloading" /\ run'.outcome = done.outcome
        /\ run'.truth = done.truth /\ run'.reports = done.reports
    BY <1>4, <2>1 DEF RunType
  <2>5. Sound(run')
    <3>1. run'.used + run'.batch <= MaxAttempts
      BY <1>3, <1>6, <1>7, <2>2, <2>4, Limits
    <3> QED
      BY <1>8, <2>3, <2>4, <3>1, SoundAgain
  <2>6. Staged(run')
    BY <1>3, <1>5, <2>2, <2>4 DEF Staged, Told, Failures
  <2> QED
    BY <1>e, <1>3, <2>4, <2>5, <2>6 DEF RunInv
<1> QED
  BY <1>9, <1>10

LEMMA AttemptEndsRun ==
    ASSUME NEW r, Sound(r), Told(r), r.batch > 0, r.outcome = "none", r.source \in Sources,
           r.pc = "downloading", NEW placed \in BOOLEAN, AttemptEnds(r, placed)
    PROVE  Moved(r)
<1> DEFINE done == [r EXCEPT !.batch = @ - 1, !.used = @ + 1, !.page = 1]
<1> DEFINE missed == [done EXCEPT !.failure = "candidate_rejected"]
<1>1. r \in RunType /\ r.used \in Nat /\ r.batch \in Nat /\ r.used + r.batch <= MaxAttempts
  BY DEF Sound, RunType
<1>2. /\ done.left = r.left /\ done.searched = r.searched /\ done.conf = r.conf
      /\ done.challenge = r.challenge /\ done.rounds = r.rounds /\ done.turn = r.turn
      /\ done.skipped = r.skipped /\ done.asked = r.asked /\ done.source = r.source
      /\ done.used = r.used + 1 /\ done.batch = r.batch - 1 /\ done.outcome = "none"
      /\ done.truth = r.truth /\ done.reports = r.reports /\ done.pc = r.pc
  BY <1>1 DEF RunType
<1>3. done \in RunType
  <2> DEFINE a == [r EXCEPT !.batch = r.batch - 1]
  <2> DEFINE b == [a EXCEPT !.used = r.used + 1]
  <2>1. r.batch - 1 \in Nat /\ r.used + 1 \in Nat
    BY <1>1
  <2>2. a \in RunType
    BY <1>1, <2>1, Retyped
  <2>3. b \in RunType
    <3> HIDE DEF a
    <3> QED
      BY <2>1, <2>2, Retyped
  <2>4. [b EXCEPT !.page = 1] \in RunType
    <3> HIDE DEF b
    <3> QED
      BY <2>3, Retyped
  <2>5. done = [b EXCEPT !.page = 1]
    BY <1>1 DEF RunType
  <2> QED
    BY <2>4, <2>5
<1>4. IF placed THEN Finish(done, "completed")
      ELSE IF missed.batch = 0 THEN NextBatch(missed)
      ELSE run' = missed
  BY DEF AttemptEnds
<1>k. Kept(r)
  BY DEF AttemptEnds, Kept
<1>5. missed \in RunType
  BY <1>3 DEF RunType
<1>6. /\ missed.left = r.left /\ missed.searched = r.searched /\ missed.conf = r.conf
      /\ missed.challenge = r.challenge /\ missed.rounds = r.rounds /\ missed.turn = r.turn
      /\ missed.skipped = r.skipped /\ missed.asked = r.asked /\ missed.source = r.source
      /\ missed.used = r.used + 1 /\ missed.batch = r.batch - 1 /\ missed.outcome = "none"
      /\ missed.truth = r.truth /\ missed.reports = r.reports /\ missed.pc = r.pc
  BY <1>2, <1>3 DEF RunType
<1> HIDE DEF done, missed
<1>7. Sound(done)
  BY <1>1, <1>2, <1>3, Limits, SoundAgain
<1>8. Sound(missed) /\ Told(missed)
  BY <1>1, <1>5, <1>6, Limits, SoundAgain DEF Told
<1>9. CASE placed
  <2>1. Finish(done, "completed") /\ "completed" \notin Failures
    BY <1>4, <1>9 DEF Failures
  <2>2. RunInv(run') /\ run'.pc = "idle" /\ run'.searched = done.searched
    BY <1>7, <2>1, FinishedRun
  <2> QED
    BY <1>k, <1>2, <2>2 DEF Moved
<1>10. CASE ~placed /\ missed.batch = 0
  <2>1. NextBatch(missed)
    BY <1>4, <1>10
  <2>2. RunInv(run') /\ run'.pc \in {"selecting", "idle"} /\ run'.searched = missed.searched
    BY <1>6, <1>8, <1>10, <2>1, NextBatchRun
  <2> QED
    BY <1>k, <1>6, <2>2 DEF Moved
<1>11. CASE ~placed /\ missed.batch # 0
  <2>1. run' = missed
    BY <1>4, <1>11
  <2>2. Staged(missed)
    BY <1>1, <1>6, <1>8, <1>11 DEF Staged, Failures
  <2> QED
    BY <1>k, <1>6, <1>8, <2>1, <2>2 DEF RunInv, Moved
<1> QED
  BY <1>9, <1>10, <1>11

LEMMA MovedAs ==
    ASSUME NEW r, NEW s, s.source = r.source, s.pc = r.pc, s.searched = r.searched, Moved(r)
    PROVE  Moved(s)
BY DEF Moved, Ended, Kept

LEMMA EndedAs ==
    ASSUME NEW r, NEW s, s.source = r.source, s.searched = r.searched,
           RunInv(run'), run'.searched = r.searched, Ended(r)
    PROVE  Moved(s)
BY DEF Moved, Ended

LEMMA RunQueries == run.source \in Sources => Queries = QueriesOf(run)
BY DEF Queries, QueriesOf

LEMMA WorkedRun ==
    ASSUME NEW r, Sound(r)
    PROVE  /\ Sound(Worked(r)) /\ Sound(Broke(r))
           /\ \A s \in {Worked(r), Broke(r)} :
                 /\ s.batch = r.batch /\ s.outcome = r.outcome /\ s.source = r.source
                 /\ s.pc = r.pc /\ s.query = r.query /\ s.searched = r.searched
                 /\ s.request = r.request /\ s.reports = r.reports /\ s.found = r.found
           /\ "answered" \in Broke(r).truth => "answered" \in r.truth
<1>1. r \in RunType /\ r.used + r.batch <= MaxAttempts
  BY DEF Sound
<1>2. \A e \in {"answered", "failed"} :
         LET s == [r EXCEPT !.truth = @ \cup {e}]
         IN  /\ s \in RunType
             /\ s.batch = r.batch /\ s.outcome = r.outcome /\ s.source = r.source
             /\ s.pc = r.pc /\ s.query = r.query /\ s.searched = r.searched
             /\ s.request = r.request /\ s.reports = r.reports /\ s.found = r.found
             /\ s.left = r.left /\ s.conf = r.conf /\ s.used = r.used
             /\ s.challenge = r.challenge /\ s.rounds = r.rounds /\ s.turn = r.turn
             /\ s.skipped = r.skipped /\ s.asked = r.asked
             /\ s.truth = r.truth \cup {e}
  BY <1>1 DEF RunType
<1>3. Sound(Worked(r))
  BY <1>1, <1>2, SoundAgain DEF Worked
<1>4. Sound(Broke(r))
  BY <1>1, <1>2, SoundAgain DEF Broke
<1> QED
  BY <1>2, <1>3, <1>4 DEF Worked, Broke

\* What is known of a search under way.
Searching(r) ==
    /\ Sound(r) /\ Told(r) /\ r.batch = 0 /\ r.outcome = "none" /\ r.source \in Sources

LEMMA SearchWorked ==
    ASSUME NEW r, Searching(r), SearchEnds(Worked(r), "completed")
    PROVE  Moved(r)
<1>1. /\ Sound(Worked(r)) /\ Worked(r).batch = 0 /\ Worked(r).outcome = "none"
      /\ Worked(r).source = r.source /\ r.source \in Sources
      /\ Worked(r).searched = r.searched
  BY WorkedRun DEF Searching
<1>2. RunInv(run') /\ run'.searched = Worked(r).searched /\ Ended(Worked(r))
  BY <1>1, SearchEndsRun
<1> QED
  BY <1>1, <1>2, EndedAs

LEMMA SearchFailed ==
    ASSUME NEW r, Searching(r), SearchFails(r)
    PROVE  Moved(r)
<1>1. /\ Sound(Broke(r)) /\ Broke(r).batch = 0 /\ Broke(r).outcome = "none"
      /\ Broke(r).source = r.source /\ r.source \in Sources
      /\ Broke(r).searched = r.searched
      /\ "answered" \in Broke(r).truth => Told(Broke(r))
  BY WorkedRun DEF Searching, Told
<1>2. SearchEnds(Broke(r), "failed")
  BY DEF SearchFails
<1>3. RunInv(run') /\ run'.searched = Broke(r).searched /\ Ended(Broke(r))
  BY <1>1, <1>2, SearchEndsRun
<1> QED
  BY <1>1, <1>3, EndedAs

LEMMA QueryEndsRun ==
    ASSUME NEW r, Searching(r), r.pc = "searching", QueryEnds(r), r.query = run.query,
           r.source = run.source, r.request = run.request, r.query <= Len(QueriesOf(r))
    PROVE  Moved(r)
<1>1. Queries = QueriesOf(r)
  BY RunQueries DEF QueriesOf, Searching
<1>2. CASE LastQuery
  <2>1. SearchEnds(Worked(r), "completed")
    BY <1>2 DEF QueryEnds
  <2> QED
    BY <2>1, SearchWorked
<1>3. CASE ~LastQuery
  <2> DEFINE s == [r EXCEPT !.query = @ + 1, !.page = 1]
  <2>1. run' = s /\ UNCHANGED <<sched, owed>>
    BY <1>3 DEF QueryEnds, GoOn
  <2>2. r \in RunType /\ r.query \in Nat /\ r.query > 0 /\ r.used + r.batch <= MaxAttempts
    BY SMTT(30) DEF Sound, RunType, Searching
  <2>3. s \in RunType
    <3> DEFINE a == [r EXCEPT !.query = r.query + 1]
    <3>1. r.query + 1 \in Nat \ {0}
      BY <2>2
    <3>2. a \in RunType
      BY <2>2, <3>1, Retyped
    <3>3. [a EXCEPT !.page = 1] \in RunType
      <4> HIDE DEF a
      <4> QED
        BY <3>2, Retyped
    <3>4. s = [a EXCEPT !.page = 1]
      BY <2>2 DEF RunType
    <3> QED
      BY <3>3, <3>4
  <2>4. /\ s.left = r.left /\ s.searched = r.searched /\ s.conf = r.conf
        /\ s.challenge = r.challenge /\ s.rounds = r.rounds /\ s.turn = r.turn
        /\ s.skipped = r.skipped /\ s.asked = r.asked /\ s.source = r.source
        /\ s.used = r.used /\ s.batch = r.batch /\ s.outcome = "none" /\ s.pc = r.pc
        /\ s.truth = r.truth /\ s.reports = r.reports /\ s.query = r.query + 1
        /\ s.request = r.request
    BY <2>2 DEF RunType, Searching
  <2> HIDE DEF s
  <2>5. Sound(s)
    BY <2>2, <2>3, <2>4, SoundAgain DEF Searching
  <2>6. s.query <= Len(QueriesOf(s))
    <3>1. QueriesOf(s) = QueriesOf(r)
      BY <2>4 DEF QueriesOf
    <3>2. Len(QueriesOf(r)) \in Nat
      BY QueriesThere DEF Searching
    <3>3. r.query # Len(QueriesOf(r))
      BY <1>1, <1>3 DEF LastQuery
    <3> QED
      BY <2>2, <2>4, <3>1, <3>2, <3>3
  <2>7. Staged(s)
    BY <2>4, <2>6 DEF Staged, Told, Searching, Failures
  <2> QED
    BY <2>1, <2>4, <2>5, <2>7 DEF RunInv, Moved, Kept
<1> QED
  BY <1>2, <1>3

LEMMA StagedAgain ==
    ASSUME NEW r, NEW s, Staged(r),
           s.pc = r.pc, s.query = r.query, s.source = r.source, s.request = r.request,
           s.batch = r.batch, s.outcome = r.outcome, s.truth = r.truth,
           s.reports = r.reports, s.used = r.used, s.left = r.left
    PROVE  Staged(s)
<1>1. QueriesOf(s) = QueriesOf(r)
  BY DEF QueriesOf
<1> QED
  BY <1>1 DEF Staged, Told

\* The next page is asked for without a challenge, whatever became of the one before.
LEMMA ClearedRun ==
    ASSUME NEW r, Sound(r)
    PROVE  LET s == Cleared(r)
           IN  /\ Sound(s)
               /\ s.challenge = "none" /\ s.rounds = 0 /\ s.turn = r.turn
               /\ s.pc = r.pc /\ s.query = r.query /\ s.source = r.source
               /\ s.request = r.request /\ s.batch = r.batch /\ s.outcome = r.outcome
               /\ s.truth = r.truth /\ s.reports = r.reports /\ s.used = r.used
               /\ s.left = r.left /\ s.searched = r.searched /\ s.conf = r.conf
               /\ s.timeouts = r.timeouts /\ s.found = r.found /\ s.page = r.page
<1> DEFINE a == [r EXCEPT !.challenge = "none"]
<1> DEFINE b == [a EXCEPT !.rounds = 0]
<1> DEFINE c == [b EXCEPT !.skipped = 0]
<1> DEFINE s == Cleared(r)
<1>1. r \in RunType /\ r.used + r.batch <= MaxAttempts
  BY DEF Sound
<1>2. a \in RunType
  BY <1>1, Retyped
<1>3. b \in RunType
  <2> HIDE DEF a
  <2>1. 0 \in 0..CaptchaRounds
    BY DEF CaptchaRounds
  <2> QED
    BY <1>2, <2>1, Retyped
<1>4. c \in RunType
  <2> HIDE DEF b
  <2>1. 0 \in 0..(Len(Solvers) - 1)
    BY Limits DEF CaptchaRounds
  <2> QED
    BY <1>3, <2>1, Retyped
<1>5. [c EXCEPT !.asked = {}] \in RunType
  <2> HIDE DEF c
  <2> QED
    BY <1>4, Retyped
<1>6. s = [c EXCEPT !.asked = {}]
  BY <1>1 DEF RunType, Cleared
<1>7. /\ s.challenge = "none" /\ s.rounds = 0 /\ s.turn = r.turn /\ s.asked = {}
      /\ s.pc = r.pc /\ s.query = r.query /\ s.source = r.source
      /\ s.request = r.request /\ s.batch = r.batch /\ s.outcome = r.outcome
      /\ s.truth = r.truth /\ s.reports = r.reports /\ s.used = r.used
      /\ s.left = r.left /\ s.searched = r.searched /\ s.conf = r.conf
      /\ s.timeouts = r.timeouts /\ s.found = r.found /\ s.page = r.page
  BY <1>1 DEF RunType, Cleared
<1> HIDE DEF s
<1>8. Partition(s)
  BY <1>7 DEF Sound, Partition
<1>9. Rotation(s)
  <2>1. s.turn \in 1..Len(Solvers)
    BY <1>1, <1>7 DEF RunType
  <2>2. \A j \in 1..Len(Solvers) : Distance(s.turn, j) + 0 < Len(Solvers)
    BY <2>1, Limits DEF Distance, CaptchaRounds
  <2> QED
    BY <1>7, <2>2 DEF Rotation, AnsweredRounds, CaptchaRounds
<1> QED
  BY <1>1, <1>5, <1>6, <1>7, <1>8, <1>9 DEF Sound, s

-----------------------------------------------------------------------------
(* The steps of the orchestrator and the registry.                         *)

LEMMA SelectSourceRun ==
    ASSUME Typed, RunInv(run), SelectSource
    PROVE  RunInv(run')
<1>1. run \in RunType /\ Sound(run) /\ Staged(run) /\ Partition(run)
  BY DEF RunInv, Sound
<1>2. /\ run.pc = "selecting" /\ run.left # <<>> /\ run.batch = 0 /\ run.query = 1
      /\ run.outcome = "none" /\ Told(run) /\ run.left \in Seq(Sources)
      /\ run.searched \in SUBSET Sources /\ run.used + 0 <= MaxAttempts /\ run.used \in Nat
  BY <1>1 DEF SelectSource, Staged, RunType, Sound
<1>3. ASSUME NEW i \in DOMAIN run.left, run' = Search(run, i)
      PROVE  RunInv(run')
  <2> DEFINE p == run.left[i]
  <2> DEFINE rest == RemoveAt(run.left, i)
  <2>1. p \in Sources /\ p \in ToSet(run.left)
    BY <1>2 DEF ToSet
  <2>2. rest \in Seq(Sources) /\ IsInjective(rest) /\ ToSet(rest) = ToSet(run.left) \ {p}
    BY <1>1, <1>2, RemovedElements DEF Partition
  <2>3. run' = [run EXCEPT !.pc = "searching", !.source = p,
                           !.left = rest, !.searched = run.searched \cup {p}]
    BY <1>3 DEF Search
  <2> HIDE DEF p, rest
  <2>4. run.searched \cup {p} \in SUBSET Sources
    BY <1>2, <2>1
  <2>5. run' \in RunType
    <3> DEFINE S == Sources \cup {"none"}
    <3> DEFINE J == Seq(Sources)
    <3> DEFINE G == SUBSET Sources
    <3> DEFINE A == Nat \ {0}
    <3> DEFINE B == 0..MaxFound
    <3> DEFINE C == 0..MAX_SEARCH_TIMEOUTS
    <3> DEFINE D == 0..CaptchaRounds
    <3> DEFINE E == SUBSET Reports
    <3> DEFINE F == SUBSET ToSet(Solvers)
    <3> DEFINE H == 0..(Len(Solvers) - 1)
    <3> DEFINE I == 1..Len(Solvers)
    <3> DEFINE L == Failures \cup {"none", "completed"}
    <3>1. RunType =
        [pc : Stages, request : Requests, conf : Configs, left : J,
         source : S, wait : Nat, query : A, page : Nat,
         timeouts : C, answered : BOOLEAN, found : B,
         batch : Nat, used : Nat, failure : {"none", "candidate_rejected"},
         challenge : {"none", "shown", "answered"}, rounds : D,
         turn : I, skipped : H, asked : F, reports : E, searched : G,
         truth : SUBSET {"answered", "failed"}, outcome : L]
      BY DEF RunType
    <3>2. "searching" \in Stages /\ p \in S /\ rest \in J /\ run.searched \cup {p} \in G
      BY <2>1, <2>2, <2>4 DEF Stages
    <3> HIDE DEF S, J, G, A, B, C, D, E, F, H, I, L
    <3> QED
      BY <1>1, <2>3, <3>1, <3>2
  <2>6. /\ run'.pc = "searching" /\ run'.source = p /\ run'.left = rest
        /\ run'.searched = run.searched \cup {p} /\ run'.conf = run.conf
        /\ run'.challenge = run.challenge /\ run'.rounds = run.rounds
        /\ run'.turn = run.turn /\ run'.skipped = run.skipped /\ run'.asked = run.asked
        /\ run'.used = run.used /\ run'.batch = run.batch /\ run'.query = run.query
        /\ run'.outcome = run.outcome /\ run'.truth = run.truth /\ run'.reports = run.reports
    BY <1>1, <2>3 DEF RunType
  <2>7. Partition(run')
    BY <1>1, <2>1, <2>2, <2>6 DEF Partition
  <2>8. Rotation(run')
    BY <1>1, <2>6 DEF Sound, Rotation, AnsweredRounds
  <2>9. run'.query <= Len(QueriesOf(run'))
    <3>1. Len(QueriesOf(run')) \in Nat /\ Len(QueriesOf(run')) > 0
      BY <2>1, <2>6, QueriesThere
    <3> QED
      BY <1>2, <2>6, <3>1
  <2>10. Staged(run')
    BY <1>2, <2>1, <2>6, <2>9 DEF Staged, Told, Failures
  <2>11. Sound(run')
    BY <1>2, <2>5, <2>6, <2>7, <2>8 DEF Sound
  <2> QED
    BY <2>10, <2>11 DEF RunInv
<1>4. ASSUME run' = [run EXCEPT !.pc = "sleeping", !.wait = WaitTime(sched, run.left)]
      PROVE  RunInv(run')
  <2> DEFINE w == WaitTime(sched, run.left)
  <2>1. w \in Nat
    <3> DEFINE W == {sched.cooldown[p] : p \in ToSet(run.left)}
    <3>1. Len(run.left) \in Nat /\ Len(run.left) # 0 /\ 1 \in DOMAIN run.left
      BY <1>2
    <3>2. \A p \in ToSet(run.left) : p \in Sources
      BY <1>2 DEF ToSet
    <3>3. \A p \in Sources : sched.cooldown[p] \in Nat
      BY DEF Typed
    <3>4. W \subseteq Nat
      BY <3>2, <3>3
    <3>5. run.left[1] \in ToSet(run.left)
      BY <3>1 DEF ToSet
    <3>6. W # {}
      BY <3>5
    <3> HIDE DEF W
    <3>7. Min(W) \in W
      BY <3>4, <3>6, MinIsMember
    <3>8. w = Min(W)
      BY DEF WaitTime, W
    <3> QED
      BY <3>4, <3>7, <3>8
  <2> DEFINE a == [run EXCEPT !.pc = "sleeping"]
  <2>2. a \in RunType
    BY <1>1, Retyped DEF Stages
  <2>3. [a EXCEPT !.wait = w] \in RunType
    <3> HIDE DEF a, w
    <3> QED
      BY <2>1, <2>2, Retyped
  <2>4. run' = [a EXCEPT !.wait = w]
    BY <1>1, <1>4 DEF RunType
  <2>5. /\ run'.left = run.left /\ run'.searched = run.searched /\ run'.conf = run.conf
        /\ run'.challenge = run.challenge /\ run'.rounds = run.rounds
        /\ run'.turn = run.turn /\ run'.skipped = run.skipped /\ run'.asked = run.asked
        /\ run'.used = run.used /\ run'.batch = run.batch /\ run'.query = run.query
        /\ run'.outcome = run.outcome /\ run'.truth = run.truth /\ run'.reports = run.reports
        /\ run'.pc = "sleeping"
    BY <1>1, <1>4 DEF RunType
  <2>6. Sound(run')
    BY <1>1, <1>2, <2>3, <2>4, <2>5, SoundAgain
  <2>7. Staged(run')
    BY <1>2, <2>5 DEF Staged, Told, Failures
  <2> QED
    BY <2>6, <2>7 DEF RunInv
<1> QED
  BY <1>3, <1>4 DEF SelectSource

LEMMA NothingEnabledRun ==
    ASSUME RunInv(run), NothingEnabled
    PROVE  Moved(run)
<1>1. Sound(run) /\ Told(run) /\ Failed(run) /\ run.left = <<>>
  BY DEF RunInv, Staged, NothingEnabled
<1>2. Kept(run)
  BY DEF NothingEnabled, Kept
<1> QED
  BY <1>1, <1>2, FailedRun DEF Moved

LEMMA WakeUpRun ==
    ASSUME RunInv(run), WakeUp
    PROVE  Moved(run)
<1>1. /\ run \in RunType /\ run.pc = "sleeping" /\ run' = [run EXCEPT !.pc = "selecting"]
      /\ Sound(run) /\ Staged(run) /\ run.used + run.batch <= MaxAttempts
  BY DEF RunInv, Sound, WakeUp
<1>2. run' \in RunType
  BY <1>1, Retyped DEF Stages
<1>3. /\ run'.left = run.left /\ run'.searched = run.searched /\ run'.conf = run.conf
      /\ run'.challenge = run.challenge /\ run'.rounds = run.rounds
      /\ run'.turn = run.turn /\ run'.skipped = run.skipped /\ run'.asked = run.asked
      /\ run'.used = run.used /\ run'.batch = run.batch /\ run'.query = run.query
      /\ run'.outcome = run.outcome /\ run'.truth = run.truth /\ run'.reports = run.reports
      /\ run'.pc = "selecting"
  BY <1>1 DEF RunType
<1>4. Sound(run')
  BY <1>1, <1>2, <1>3, SoundAgain
<1>5. Staged(run')
  BY <1>1, <1>3 DEF Staged, Told, Failures
<1>6. Kept(run)
  BY DEF WakeUp, Kept
<1> QED
  BY <1>3, <1>4, <1>5, <1>6 DEF RunInv, Moved

-----------------------------------------------------------------------------
(* The steps of the adapters.                                              *)

LEMMA SearchUnderWay ==
    ASSUME RunInv(run), run.pc \in {"searching", "enriching"}
    PROVE  /\ Searching(run)
           /\ run.pc = "searching" => run.query <= Len(QueriesOf(run))
BY SMTT(30) DEF RunInv, Staged, Searching, Sound, RunType

LEMMA SearchWithoutKeyRun ==
    ASSUME RunInv(run), SearchWithoutKey
    PROVE  Moved(run)
<1> DEFINE told == [run EXCEPT !.reports = @ \cup {Report(run.source, "skipped")}]
<1>1. run.pc = "searching" /\ SearchEnds(told, "completed")
  BY DEF SearchWithoutKey, At
<1>2. Searching(run)
  BY <1>1, SearchUnderWay
<1>3. run \in RunType /\ Sound(run) /\ run.used + run.batch <= MaxAttempts
  BY <1>2 DEF Searching, Sound
<1>4. told \in RunType
  <2>1. Report(run.source, "skipped") \in Reports
    BY <1>2 DEF Searching, Report, Reports, Reporters
  <2>2. run.reports \in SUBSET Reports
    BY <1>3 DEF RunType
  <2>3. run.reports \cup {Report(run.source, "skipped")} \in SUBSET Reports
    BY <2>1, <2>2
  <2> QED
    BY <1>3, <2>3, Retyped
<1>5. /\ told.left = run.left /\ told.searched = run.searched /\ told.conf = run.conf
      /\ told.challenge = run.challenge /\ told.rounds = run.rounds /\ told.turn = run.turn
      /\ told.skipped = run.skipped /\ told.asked = run.asked /\ told.source = run.source
      /\ told.used = run.used /\ told.batch = run.batch /\ told.outcome = run.outcome
  BY <1>3 DEF RunType
<1> HIDE DEF told
<1>6. Sound(told)
  BY <1>3, <1>4, <1>5, SoundAgain
<1>7. told.batch = 0 /\ told.outcome = "none" /\ told.source \in Sources
  BY <1>2, <1>5 DEF Searching
<1>8. RunInv(run') /\ run'.searched = told.searched /\ Ended(told)
  BY <1>1, <1>6, <1>7, SearchEndsRun
<1> QED
  BY <1>5, <1>8, EndedAs

LEMMA QueryEndsMoved ==
    ASSUME RunInv(run), run.pc = "searching", QueryEnds(run)
    PROVE  Moved(run)
BY SearchUnderWay, QueryEndsRun

\* The same search goes on to its next page, request or stage.
LEMMA SearchGoesOn ==
    ASSUME RunInv(run), run.pc \in {"searching", "enriching", "downloading"},
           NEW s \in RunType, run' = s, UNCHANGED <<sched, owed>>,
           s.pc = run.pc \/ (run.pc = "searching" /\ s.pc = "enriching"),
           s.query = run.query, s.source = run.source, s.request = run.request,
           s.batch = run.batch, s.outcome = run.outcome, s.truth = run.truth,
           s.reports = run.reports, s.used = run.used, s.left = run.left,
           s.searched = run.searched, s.conf = run.conf, Rotation(s)
    PROVE  Moved(run)
<1>1. Partition(s) /\ s.used + s.batch <= MaxAttempts
  BY DEF RunInv, Sound, Partition
<1>2. QueriesOf(s) = QueriesOf(run)
  BY DEF QueriesOf
<1>3. Staged(s)
  BY <1>2 DEF RunInv, Staged, Told, Failures
<1> QED
  BY <1>1, <1>3 DEF Moved, RunInv, Sound, Kept

LEMMA SameRotation ==
    ASSUME NEW r, NEW s, Rotation(r), s.challenge = r.challenge, s.rounds = r.rounds,
           s.turn = r.turn, s.skipped = r.skipped, s.asked = r.asked
    PROVE  Rotation(s)
BY DEF Rotation, AnsweredRounds

LEMMA AssrtFindsRun ==
    ASSUME RunInv(run), NEW n \in 1..MaxFound, AssrtFinds(n)
    PROVE  Moved(run)
<1> DEFINE a == [run EXCEPT !.pc = "enriching"]
<1> DEFINE s == [run EXCEPT !.pc = "enriching", !.found = n]
<1>1. run.pc = "searching" /\ run' = s /\ UNCHANGED <<sched, owed>>
  BY DEF AssrtFinds, AssrtAsks, At, GoOn
<1>2. run \in RunType /\ Rotation(run)
  BY DEF RunInv, Sound
<1>3. a \in RunType
  BY <1>2, Retyped DEF Stages
<1>4. [a EXCEPT !.found = n] \in RunType
  <2> HIDE DEF a
  <2>1. n \in 0..MaxFound
    BY Limits
  <2> QED
    BY <1>3, <2>1, Retyped
<1>5. s = [a EXCEPT !.found = n]
  BY <1>2 DEF RunType
<1>6. /\ s.pc = "enriching" /\ s.query = run.query /\ s.source = run.source
      /\ s.request = run.request /\ s.batch = run.batch /\ s.outcome = run.outcome
      /\ s.truth = run.truth /\ s.reports = run.reports /\ s.used = run.used
      /\ s.left = run.left /\ s.searched = run.searched /\ s.conf = run.conf
      /\ s.challenge = run.challenge /\ s.rounds = run.rounds /\ s.turn = run.turn
      /\ s.skipped = run.skipped /\ s.asked = run.asked
  BY <1>2 DEF RunType
<1> HIDE DEF s, a
<1>7. Rotation(s)
  BY <1>2, <1>6, SameRotation
<1> QED
  BY <1>1, <1>4, <1>5, <1>6, <1>7, SearchGoesOn

LEMMA PageRun ==
    ASSUME RunInv(run), run.pc \in {"searching", "enriching", "downloading"},
           NEW n \in Nat, run' = [run EXCEPT !.page = n], UNCHANGED <<sched, owed>>
    PROVE  Moved(run)
<1> DEFINE s == [run EXCEPT !.page = n]
<1>1. run \in RunType /\ Rotation(run)
  BY DEF RunInv, Sound
<1>2. s \in RunType
  BY <1>1, Retyped
<1>3. /\ s.pc = run.pc /\ s.query = run.query /\ s.source = run.source
      /\ s.request = run.request /\ s.batch = run.batch /\ s.outcome = run.outcome
      /\ s.truth = run.truth /\ s.reports = run.reports /\ s.used = run.used
      /\ s.left = run.left /\ s.searched = run.searched /\ s.conf = run.conf
      /\ s.challenge = run.challenge /\ s.rounds = run.rounds /\ s.turn = run.turn
      /\ s.skipped = run.skipped /\ s.asked = run.asked
  BY <1>1 DEF RunType
<1> HIDE DEF s
<1>4. Rotation(s)
  BY <1>1, <1>3, SameRotation
<1>5. run' = s
  BY DEF s
<1>6. s.pc = run.pc \/ (run.pc = "searching" /\ s.pc = "enriching")
  BY <1>3
<1> QED
  BY <1>2, <1>3, <1>4, <1>5, <1>6, SearchGoesOn, Zenon

LEMMA AssrtDetailRun ==
    ASSUME RunInv(run), AssrtDetail \/ AssrtAsksDetail
    PROVE  Moved(run)
<1>1. run \in RunType /\ run.page \in Nat
  BY DEF RunInv, Sound, RunType
<1>2. CASE AssrtAsksDetail
  <2>1. run.pc = "downloading" /\ run' = [run EXCEPT !.page = 2] /\ 2 \in Nat
        /\ UNCHANGED <<sched, owed>>
    BY <1>2 DEF AssrtAsksDetail, At, GoOn
  <2> QED
    BY <2>1, PageRun
<1>3. CASE AssrtDetail /\ run.page = run.found
  <2>1. run.pc = "enriching" /\ SearchEnds(Worked(run), "completed")
    BY <1>3 DEF AssrtDetail, At
  <2> QED
    BY <2>1, SearchUnderWay, SearchWorked
<1>4. CASE AssrtDetail /\ run.page # run.found
  <2>1. run.pc = "enriching" /\ run' = [run EXCEPT !.page = run.page + 1]
        /\ UNCHANGED <<sched, owed>>
    BY <1>4 DEF AssrtDetail, At, GoOn
  <2>2. run.page + 1 \in Nat
    BY <1>1
  <2> QED
    BY <2>1, <2>2, PageRun
<1> QED
  BY <1>2, <1>3, <1>4

LEMMA FoundWorked ==
    ASSUME NEW r, Searching(r), NEW n \in 0..MaxFound,
           SearchEnds([Worked(r) EXCEPT !.found = n], "completed")
    PROVE  Moved(r)
<1> DEFINE w == Worked(r)
<1> DEFINE s == [w EXCEPT !.found = n]
<1>1. /\ Sound(w) /\ w.batch = 0 /\ w.outcome = "none" /\ w.source = r.source
      /\ r.source \in Sources /\ w.searched = r.searched
  BY WorkedRun DEF Searching
<1> HIDE DEF w
<1>2. w \in RunType /\ w.used + w.batch <= MaxAttempts
  BY <1>1 DEF Sound
<1>3. s \in RunType
  BY <1>2, Retyped
<1>4. /\ s.left = w.left /\ s.searched = w.searched /\ s.conf = w.conf
      /\ s.challenge = w.challenge /\ s.rounds = w.rounds /\ s.turn = w.turn
      /\ s.skipped = w.skipped /\ s.asked = w.asked /\ s.source = w.source
      /\ s.used = w.used /\ s.batch = w.batch /\ s.outcome = w.outcome
  BY <1>2 DEF RunType
<1>5. SearchEnds(s, "completed")
  BY DEF w
<1> HIDE DEF s
<1>6. Sound(s)
  BY <1>1, <1>2, <1>3, <1>4, SoundAgain
<1>7. /\ s.batch = 0 /\ s.outcome = "none" /\ s.source = r.source
      /\ s.source \in Sources /\ s.searched = r.searched
  BY <1>1, <1>4
<1>8. RunInv(run') /\ run'.searched = s.searched /\ Ended(s)
  BY <1>5, <1>6, <1>7, SearchEndsRun
<1> QED
  BY <1>7, <1>8, EndedAs

LEMMA SubdlAnswersRun ==
    ASSUME RunInv(run), NEW n \in 0..MaxFound, SubdlAnswers(n)
    PROVE  Moved(run)
<1>1. run.pc = "searching"
  BY DEF SubdlAnswers, At
<1>2. CASE n = 0
  <2>1. QueryEnds(run)
    BY <1>2 DEF SubdlAnswers
  <2> QED
    BY <1>1, <2>1, QueryEndsMoved
<1>3. CASE n # 0
  <2>1. SearchEnds([Worked(run) EXCEPT !.found = n], "completed")
    BY <1>3 DEF SubdlAnswers
  <2> QED
    BY <1>1, <2>1, SearchUnderWay, FoundWorked
<1> QED
  BY <1>2, <1>3

LEMMA SourceFailsRun ==
    ASSUME RunInv(run), ApiSearchFails \/ SubliminalCannotScan
    PROVE  Moved(run)
<1>1. CASE ApiSearchFails
  <2>1. run.pc = "searching" /\ SearchFails(run)
    BY <1>1 DEF ApiSearchFails, AssrtAsks, At
  <2> QED
    BY <2>1, SearchUnderWay, SearchFailed
<1>2. CASE SubliminalCannotScan
  <2>1. run.pc = "searching" /\ SearchEnds(run, "failed")
    BY <1>2 DEF SubliminalCannotScan, At
  <2>2. Searching(run)
    BY <2>1, SearchUnderWay
  <2> QED
    BY <2>1, <2>2, SearchEndsRun DEF Searching, Moved
<1> QED
  BY <1>1, <1>2

LEMMA DownloadEndsRun ==
    ASSUME RunInv(run), NEW placed \in BOOLEAN, DownloadEnds(placed)
    PROVE  Moved(run)
<1>1. run.pc = "downloading" /\ AttemptEnds(run, placed)
  BY DEF DownloadEnds, At
<1>2. Sound(run) /\ Told(run) /\ run.batch > 0 /\ run.outcome = "none" /\ run.source \in Sources
  BY <1>1 DEF RunInv, Staged
<1> QED
  BY <1>1, <1>2, AttemptEndsRun DEF Moved, Ended, Kept

LEMMA MinFound ==
    ASSUME NEW a \in Nat
    PROVE  Min({a, MaxFound}) \in 0..MaxFound
<1>1. MaxFound \in Nat
  BY Limits
<1>2. Min({a, MaxFound}) \in {a, MaxFound} /\ Min({a, MaxFound}) <= MaxFound
  BY <1>1, MinIsMember
<1> QED
  BY <1>1, <1>2

LEMMA SubliminalAsksRun ==
    ASSUME RunInv(run), NEW status \in {"completed", "failed", "skipped"},
           NEW n \in 0..MaxFound, SubliminalAsks(status, n)
    PROVE  Moved(run)
<1> DEFINE name == "subliminal:" \o Queries[run.query]
<1> DEFINE told == CASE status = "completed" -> Worked(run)
                     [] status = "failed" -> Broke(run)
                     [] status = "skipped" -> run
<1> DEFINE m == Min({told.found + n, MaxFound})
<1> DEFINE r == [told EXCEPT !.reports = @ \cup {Report(name, status)}, !.found = m]
<1>1. /\ run.pc = "searching" /\ run.source = "subliminal"
      /\ IF LastQuery THEN SearchEnds(r, "completed")
         ELSE GoOn([r EXCEPT !.query = @ + 1])
  BY DEF SubliminalAsks, At
<1>2. Searching(run) /\ run.query <= Len(QueriesOf(run))
  BY <1>1, SearchUnderWay
<1>3. Queries = QueriesOf(run) /\ Queries = Subproviders
  BY <1>1, <1>2, RunQueries DEF Queries, Searching
<1>4. run \in RunType /\ run.query \in Nat /\ run.query > 0 /\ run.found \in 0..MaxFound
  BY <1>2 DEF Searching, Sound, RunType
<1>5. Report(name, status) \in Reports
  <2>1. Subproviders \in Seq(STRING)
    BY SearchAssumption
  <2>2. run.query \in DOMAIN Subproviders
    BY <1>2, <1>3, <1>4, <2>1
  <2>3. Queries[run.query] \in ToSet(Subproviders)
    BY <1>3, <2>2 DEF ToSet
  <2>4. name \in Reporters
    BY <2>3 DEF Reporters
  <2> HIDE DEF name
  <2> QED
    BY <2>4 DEF Report, Reports
<1>6. /\ Sound(told) /\ told.batch = 0 /\ told.outcome = "none" /\ told.source = run.source
      /\ told.pc = "searching" /\ told.query = run.query /\ told.searched = run.searched
      /\ told.request = run.request /\ told.reports = run.reports /\ told.found = run.found
      /\ "answered" \in told.truth => status = "completed" \/ "answered" \in run.truth
  <2>1. CASE status = "completed"
    BY <1>1, <1>2, <2>1, WorkedRun DEF Searching
  <2>2. CASE status = "failed"
    BY <1>1, <1>2, <2>2, WorkedRun DEF Searching
  <2>3. CASE status = "skipped"
    BY <1>1, <1>2, <2>3 DEF Searching
  <2> QED
    BY <2>1, <2>2, <2>3
<1>7. m \in 0..MaxFound
  <2>1. told.found + n \in Nat
    BY <1>4, <1>6, Limits
  <2> QED
    BY <2>1, MinFound
<1> HIDE DEF told, m, name
<1>8. told \in RunType /\ told.used + told.batch <= MaxAttempts
  BY <1>6 DEF Sound
<1> DEFINE a == [told EXCEPT !.reports = told.reports \cup {Report(name, status)}]
<1>9. a \in RunType
  <2>1. told.reports \in SUBSET Reports
    BY <1>8 DEF RunType
  <2>2. told.reports \cup {Report(name, status)} \in SUBSET Reports
    BY <1>5, <2>1
  <2> QED
    BY <1>8, <2>2, Retyped
<1>10. r \in RunType
  <2>1. [a EXCEPT !.found = m] \in RunType
    <3> HIDE DEF a
    <3> QED
      BY <1>7, <1>9, Retyped
  <2>2. r = [a EXCEPT !.found = m]
    BY <1>8 DEF RunType
  <2> QED
    BY <2>1, <2>2
<1>11. /\ r.left = told.left /\ r.searched = told.searched /\ r.conf = told.conf
       /\ r.challenge = told.challenge /\ r.rounds = told.rounds /\ r.turn = told.turn
       /\ r.skipped = told.skipped /\ r.asked = told.asked /\ r.source = told.source
       /\ r.used = told.used /\ r.batch = told.batch /\ r.outcome = told.outcome
       /\ r.pc = told.pc /\ r.query = told.query /\ r.request = told.request
       /\ r.truth = told.truth /\ r.reports = told.reports \cup {Report(name, status)}
  BY <1>8 DEF RunType
<1> HIDE DEF r
<1>12. Sound(r)
  BY <1>6, <1>8, <1>10, <1>11, SoundAgain
<1>13. Told(r)
  <2>1. SUFFICES ASSUME "answered" \in r.truth
                 PROVE  \E report \in r.reports : report.status = "completed"
    BY DEF Told
  <2>2. CASE status = "completed"
    <3>1. Report(name, status) \in r.reports /\ Report(name, status).status = status
      BY <1>11 DEF Report
    <3> QED
      BY <2>2, <3>1
  <2>3. CASE "answered" \in run.truth
    BY <1>2, <1>6, <1>11, <2>3 DEF Searching, Told
  <2> QED
    BY <1>6, <1>11, <2>1, <2>2, <2>3
<1>14. Searching(r) /\ r.searched = run.searched
  BY <1>2, <1>6, <1>11, <1>12, <1>13 DEF Searching
<1>15. CASE LastQuery
  <2>1. SearchEnds(r, "completed")
    BY <1>1, <1>15
  <2> QED
    <3>1. RunInv(run') /\ run'.searched = r.searched /\ Ended(r)
      BY <1>14, <2>1, SearchEndsRun DEF Searching
    <3> QED
      BY <1>6, <1>11, <1>14, <3>1, EndedAs
<1>16. CASE ~LastQuery
  <2> DEFINE s == [r EXCEPT !.query = r.query + 1]
  <2>1. run' = s /\ UNCHANGED <<sched, owed>>
    BY <1>1, <1>16 DEF GoOn
  <2>2. r.query + 1 \in Nat \ {0}
    BY <1>4, <1>6, <1>11
  <2>3. s \in RunType
    BY <1>10, <2>2, Retyped
  <2>4. /\ s.left = r.left /\ s.searched = r.searched /\ s.conf = r.conf
        /\ s.challenge = r.challenge /\ s.rounds = r.rounds /\ s.turn = r.turn
        /\ s.skipped = r.skipped /\ s.asked = r.asked /\ s.source = r.source
        /\ s.used = r.used /\ s.batch = r.batch /\ s.outcome = r.outcome
        /\ s.pc = r.pc /\ s.query = r.query + 1 /\ s.request = r.request
        /\ s.truth = r.truth /\ s.reports = r.reports
    BY <1>10 DEF RunType
  <2> HIDE DEF s
  <2>5. Sound(s)
    BY <1>6, <1>8, <1>11, <1>12, <2>3, <2>4, SoundAgain
  <2>6. s.query <= Len(QueriesOf(s))
    <3>1. QueriesOf(s) = QueriesOf(run)
      BY <1>6, <1>11, <2>4 DEF QueriesOf
    <3>2. Len(QueriesOf(run)) \in Nat
      BY <1>2, QueriesThere DEF Searching
    <3>3. run.query # Len(QueriesOf(run))
      BY <1>3, <1>16 DEF LastQuery
    <3> QED
      BY <1>2, <1>4, <1>6, <1>11, <2>4, <3>1, <3>2, <3>3
  <2>7. Staged(s)
    BY <1>6, <1>11, <1>14, <2>4, <2>6 DEF Staged, Told, Searching, Failures
  <2> QED
    BY <1>1, <1>6, <1>11, <1>14, <2>1, <2>4, <2>5, <2>7 DEF RunInv, Moved, Kept
<1> QED
  BY <1>15, <1>16

-----------------------------------------------------------------------------
(* The pages of Zimuku and the solvers.                                    *)

LEMMA PageOpen ==
    ASSUME RunInv(run), OpensPage
    PROVE  /\ run.pc \in {"searching", "downloading"} /\ run.source = "zimuku"
           /\ run.source \in Sources /\ Sound(run) /\ Told(run) /\ run.outcome = "none"
           /\ run.pc = "searching" => Searching(run) /\ run.query <= Len(QueriesOf(run))
           /\ run.pc = "downloading" => run.batch > 0
BY SearchUnderWay DEF RunInv, Staged, OpensPage, Sources

LEMMA ClearedSearching ==
    ASSUME RunInv(run), OpensPage
    PROVE  /\ Sound(Cleared(run)) /\ Told(Cleared(run))
           /\ Cleared(run).searched = run.searched /\ Cleared(run).batch = run.batch
           /\ Cleared(run).outcome = "none" /\ Cleared(run).source = run.source
           /\ Cleared(run).pc = run.pc /\ Cleared(run).request = run.request
           /\ Cleared(run).query = run.query /\ Cleared(run).timeouts = run.timeouts
           /\ run.pc = "searching" => Searching(Cleared(run))
<1>1. /\ Sound(run) /\ Told(run) /\ run.outcome = "none" /\ run.source \in Sources
      /\ run.pc = "searching" => Searching(run)
  BY PageOpen
<1> DEFINE s == Cleared(run)
<1>2. /\ Sound(s) /\ s.searched = run.searched /\ s.batch = run.batch
      /\ s.outcome = run.outcome /\ s.source = run.source /\ s.pc = run.pc
      /\ s.request = run.request /\ s.query = run.query /\ s.timeouts = run.timeouts
      /\ s.truth = run.truth /\ s.reports = run.reports
  BY <1>1, ClearedRun
<1> HIDE DEF s
<1>3. Told(s)
  BY <1>1, <1>2 DEF Told
<1>4. run.pc = "searching" => Searching(s)
  BY <1>1, <1>2, <1>3 DEF Searching
<1> QED
  BY <1>1, <1>2, <1>3, <1>4 DEF s

LEMMA PageLostRun ==
    ASSUME RunInv(run), OpensPage, NEW kind, PageLost(kind)
    PROVE  Moved(run)
<1> DEFINE c == Cleared(run)
<1> DEFINE r == [c EXCEPT !.timeouts = @ + 1]
<1>1. /\ run.pc \in {"searching", "downloading"} /\ run.source \in Sources
      /\ run.pc = "searching" => run.query <= Len(QueriesOf(run))
      /\ run.pc = "downloading" => run.batch > 0
  BY PageOpen
<1>2. /\ Sound(c) /\ Told(c) /\ c.searched = run.searched /\ c.batch = run.batch
      /\ c.outcome = "none" /\ c.source = run.source /\ c.pc = run.pc
      /\ c.request = run.request /\ c.query = run.query /\ c.timeouts = run.timeouts
      /\ run.pc = "searching" => Searching(c)
  BY ClearedSearching
<1>3. IF run.pc = "downloading" THEN AttemptEnds(c, FALSE)
      ELSE IF kind = "timeout" /\ r.timeouts < MAX_SEARCH_TIMEOUTS
      THEN IF ~LastQuery THEN GoOn([r EXCEPT !.query = @ + 1, !.page = 1])
           ELSE IF run.answered THEN SearchEnds(Worked(r), "completed")
           ELSE SearchFails(r)
      ELSE SearchFails(c)
  BY DEF PageLost
<1> HIDE DEF c
<1>4. CASE run.pc = "downloading"
  <2>1. AttemptEnds(c, FALSE)
    BY <1>3, <1>4
  <2> QED
    <3>1. Moved(c)
      BY <1>1, <1>2, <1>4, <2>1, AttemptEndsRun
    <3> QED
      BY <1>2, <3>1, MovedAs
<1>5. CASE run.pc = "searching" /\ SearchFails(c)
  <2>1. Moved(c)
    BY <1>2, <1>5, SearchFailed
  <2> QED
    BY <1>2, <2>1, MovedAs
<1>6. CASE run.pc = "searching" /\ r.timeouts < MAX_SEARCH_TIMEOUTS
           /\ (~LastQuery => GoOn([r EXCEPT !.query = @ + 1, !.page = 1]))
           /\ (LastQuery => SearchEnds(Worked(r), "completed") \/ SearchFails(r))
  <2>1. c \in RunType /\ c.used + c.batch <= MaxAttempts /\ c.timeouts \in Nat
        /\ c.query \in Nat /\ c.query > 0
    BY <1>2, SMTT(30) DEF Sound, RunType, MAX_SEARCH_TIMEOUTS
  <2>2. r.timeouts = c.timeouts + 1
    BY <2>1 DEF RunType
  <2>3. c.timeouts + 1 \in 0..MAX_SEARCH_TIMEOUTS
    BY <1>6, <2>1, <2>2 DEF MAX_SEARCH_TIMEOUTS
  <2>4. r \in RunType
    BY <2>1, <2>3, Retyped
  <2>5. /\ r.left = c.left /\ r.searched = c.searched /\ r.conf = c.conf
        /\ r.challenge = c.challenge /\ r.rounds = c.rounds /\ r.turn = c.turn
        /\ r.skipped = c.skipped /\ r.asked = c.asked /\ r.source = c.source
        /\ r.used = c.used /\ r.batch = c.batch /\ r.outcome = c.outcome
        /\ r.pc = c.pc /\ r.query = c.query /\ r.request = c.request
        /\ r.truth = c.truth /\ r.reports = c.reports
    BY <2>1 DEF RunType
  <2> HIDE DEF r
  <2>6. Sound(r) /\ Told(r)
    BY <1>2, <2>1, <2>4, <2>5, SoundAgain DEF Told
  <2>7. /\ Searching(r) /\ r.searched = run.searched
        /\ r.source = run.source /\ r.pc = run.pc
    BY <1>2, <1>6, <2>5, <2>6 DEF Searching
  <2>8. CASE LastQuery
    <3>1. Moved(r)
      BY <1>6, <2>7, <2>8, SearchWorked, SearchFailed
    <3> QED
      BY <2>7, <3>1, MovedAs
  <2>9. CASE ~LastQuery
    <3>1. QueryEnds(r)
      BY <1>6, <2>9 DEF QueryEnds
    <3>2. QueriesOf(r) = QueriesOf(run) /\ r.pc = "searching" /\ r.query = run.query
          /\ r.source = run.source /\ r.request = run.request
      BY <1>2, <1>6, <2>5 DEF QueriesOf
    <3> QED
      <4>1. Moved(r)
        BY <1>1, <1>6, <2>7, <3>1, <3>2, QueryEndsRun
      <4> QED
        BY <2>7, <4>1, MovedAs
  <2> QED
    BY <2>8, <2>9
<1> QED
  BY <1>1, <1>3, <1>4, <1>5, <1>6

LEMMA PageLostActions ==
    ASSUME RunInv(run), NEW kind,
           PageFails(kind) \/ SolverUnreachable(kind) \/ SubmitFails(kind)
    PROVE  Moved(run)
<1>1. OpensPage /\ PageLost(kind)
  BY DEF PageFails, SolverUnreachable, SubmitFails
<1> QED
  BY <1>1, PageLostRun

LEMMA PageLeadsOnRun ==
    ASSUME RunInv(run), PageLeadsOn
    PROVE  Moved(run)
<1> DEFINE c == Cleared(run)
<1>1. OpensPage /\ run' = [c EXCEPT !.page = @ + 1] /\ UNCHANGED <<sched, owed>>
  BY DEF PageLeadsOn, GoOn
<1>2. /\ Sound(c)
      /\ c.pc = run.pc /\ c.query = run.query /\ c.source = run.source
      /\ c.request = run.request /\ c.batch = run.batch /\ c.outcome = run.outcome
      /\ c.truth = run.truth /\ c.reports = run.reports /\ c.used = run.used
      /\ c.left = run.left /\ c.searched = run.searched /\ c.conf = run.conf
  BY ClearedRun DEF RunInv
<1>3. run.pc \in {"searching", "downloading"}
  BY <1>1 DEF OpensPage
<1> HIDE DEF c
<1> DEFINE s == [c EXCEPT !.page = c.page + 1]
<1>4. c \in RunType /\ c.page + 1 \in Nat /\ Rotation(c)
  BY <1>2, SMTT(30) DEF Sound, RunType
<1>5. s \in RunType
  BY <1>4, Retyped
<1>6. /\ s.pc = c.pc /\ s.query = c.query /\ s.source = c.source
      /\ s.request = c.request /\ s.batch = c.batch /\ s.outcome = c.outcome
      /\ s.truth = c.truth /\ s.reports = c.reports /\ s.used = c.used
      /\ s.left = c.left /\ s.searched = c.searched /\ s.conf = c.conf
      /\ s.challenge = c.challenge /\ s.rounds = c.rounds /\ s.turn = c.turn
      /\ s.skipped = c.skipped /\ s.asked = c.asked
  BY <1>4 DEF RunType
<1>7. run' = s
  BY <1>1
<1> HIDE DEF s
<1>8. Rotation(s)
  BY <1>4, <1>6, SameRotation
<1> QED
  BY <1>1, <1>2, <1>3, <1>5, <1>6, <1>7, <1>8, SearchGoesOn

LEMMA ZimukuQueryAnsweredRun ==
    ASSUME RunInv(run), NEW n \in 0..MaxFound, ZimukuQueryAnswered(n)
    PROVE  Moved(run)
<1> DEFINE c == Cleared(run)
<1> DEFINE r == [c EXCEPT !.answered = TRUE]
<1>1. OpensPage /\ run.pc = "searching"
  BY DEF ZimukuQueryAnswered, At, OpensPage
<1>2. IF n = 0 THEN QueryEnds(r) ELSE SearchEnds([Worked(r) EXCEPT !.found = n], "completed")
  BY DEF ZimukuQueryAnswered
<1>3. /\ Searching(c) /\ c.searched = run.searched /\ c.source = run.source
      /\ c.pc = run.pc /\ c.request = run.request /\ c.query = run.query
  BY <1>1, ClearedSearching
<1> HIDE DEF c
<1>4. c \in RunType /\ c.used + c.batch <= MaxAttempts /\ Sound(c) /\ Told(c)
      /\ c.batch = 0 /\ c.outcome = "none" /\ c.source \in Sources
  BY <1>3 DEF Searching, Sound
<1>5. r \in RunType
  BY <1>4, Retyped
<1>6. /\ r.left = c.left /\ r.searched = c.searched /\ r.conf = c.conf
      /\ r.challenge = c.challenge /\ r.rounds = c.rounds /\ r.turn = c.turn
      /\ r.skipped = c.skipped /\ r.asked = c.asked /\ r.source = c.source
      /\ r.used = c.used /\ r.batch = c.batch /\ r.outcome = c.outcome
      /\ r.pc = c.pc /\ r.query = c.query /\ r.request = c.request
      /\ r.truth = c.truth /\ r.reports = c.reports
  BY <1>4 DEF RunType
<1> HIDE DEF r
<1>7. Sound(r) /\ Told(r)
  BY <1>4, <1>5, <1>6, SoundAgain DEF Told
<1>8. /\ Searching(r) /\ r.searched = run.searched
      /\ r.source = run.source /\ r.pc = run.pc
  BY <1>3, <1>4, <1>6, <1>7 DEF Searching
<1>9. CASE n = 0
  <2>1. QueryEnds(r)
    BY <1>2, <1>9
  <2>2. run.query <= Len(QueriesOf(run)) /\ QueriesOf(r) = QueriesOf(run)
    BY <1>1, <1>3, <1>6, PageOpen DEF QueriesOf
  <2> QED
    <3>1. Moved(r)
      BY <1>1, <1>3, <1>6, <1>8, <2>1, <2>2, QueryEndsRun
    <3> QED
      BY <1>8, <3>1, MovedAs
<1>10. CASE n # 0
  <2>1. SearchEnds([Worked(r) EXCEPT !.found = n], "completed")
    BY <1>2, <1>10
  <2> QED
    <3>1. Moved(r)
      BY <1>8, <2>1, FoundWorked
    <3> QED
      BY <1>8, <3>1, MovedAs
<1> QED
  BY <1>9, <1>10

LEMMA ZimukuFileArrivesRun ==
    ASSUME RunInv(run), NEW placed \in BOOLEAN, ZimukuFileArrives(placed)
    PROVE  Moved(run)
<1> DEFINE c == Cleared(run)
<1>1. OpensPage /\ run.pc = "downloading" /\ AttemptEnds(c, placed)
  BY DEF ZimukuFileArrives, At, OpensPage
<1>2. /\ Sound(c) /\ Told(c) /\ c.searched = run.searched /\ c.batch = run.batch
      /\ c.outcome = "none" /\ c.source = run.source /\ c.pc = run.pc
  BY <1>1, ClearedSearching
<1>3. run.batch > 0 /\ run.source \in Sources
  BY <1>1, PageOpen
<1> HIDE DEF c
<1> QED
  <2>1. Moved(c)
    BY <1>1, <1>2, <1>3, AttemptEndsRun
  <2> QED
    BY <1>2, <2>1, MovedAs

\* A challenge changes these fields and no others.
LEMMA ChallengeGoesOn ==
    ASSUME RunInv(run), OpensPage,
           NEW challenge \in {"none", "shown", "answered"}, NEW rounds \in 0..CaptchaRounds,
           NEW turn \in 1..Len(Solvers), NEW skipped \in 0..(Len(Solvers) - 1),
           NEW asked \in SUBSET ToSet(Solvers), UNCHANGED <<sched, owed>>,
           run' = [run EXCEPT !.challenge = challenge, !.rounds = rounds, !.turn = turn,
                              !.skipped = skipped, !.asked = asked],
           Rotation([challenge |-> challenge, rounds |-> rounds, turn |-> turn,
                     skipped |-> skipped, asked |-> asked])
    PROVE  Moved(run)
<1> DEFINE a == [run EXCEPT !.challenge = challenge]
<1> DEFINE b == [a EXCEPT !.rounds = rounds]
<1> DEFINE c == [b EXCEPT !.turn = turn]
<1> DEFINE d == [c EXCEPT !.skipped = skipped]
<1> DEFINE s == [d EXCEPT !.asked = asked]
<1>1. run \in RunType /\ run.pc \in {"searching", "downloading"}
  BY DEF RunInv, Sound, OpensPage
<1>2. a \in RunType
  BY <1>1, Retyped
<1>3. b \in RunType
  <2> HIDE DEF a
  <2> QED
    BY <1>2, Retyped
<1>4. c \in RunType
  <2> HIDE DEF b
  <2> QED
    BY <1>3, Retyped
<1>5. d \in RunType
  <2> HIDE DEF c
  <2> QED
    BY <1>4, Retyped
<1>6. s \in RunType
  <2> HIDE DEF d
  <2> QED
    BY <1>5, Retyped
<1>7. run' = s
  BY <1>1 DEF RunType
<1>8. /\ s.pc = run.pc /\ s.query = run.query /\ s.source = run.source
      /\ s.request = run.request /\ s.batch = run.batch /\ s.outcome = run.outcome
      /\ s.truth = run.truth /\ s.reports = run.reports /\ s.used = run.used
      /\ s.left = run.left /\ s.searched = run.searched /\ s.conf = run.conf
      /\ s.challenge = challenge /\ s.rounds = rounds /\ s.turn = turn
      /\ s.skipped = skipped /\ s.asked = asked
  BY <1>1 DEF RunType
<1> HIDE DEF s
<1>9. Rotation(s)
  <2> DEFINE e == [challenge |-> challenge, rounds |-> rounds, turn |-> turn,
                   skipped |-> skipped, asked |-> asked]
  <2>1. /\ e.challenge = challenge /\ e.rounds = rounds /\ e.turn = turn
        /\ e.skipped = skipped /\ e.asked = asked /\ Rotation(e)
    OBVIOUS
  <2> HIDE DEF e
  <2> QED
    BY <1>8, <2>1, SameRotation
<1> QED
  BY <1>1, <1>6, <1>7, <1>8, <1>9, SearchGoesOn

LEMMA Modulo ==
    ASSUME NEW n \in 1..3, NEW k \in 0..(2 * n - 2)
    PROVE  k % n = IF k < n THEN k ELSE k - n
<1>1. CASE n = 1
  BY <1>1
<1>2. CASE n = 2
  BY <1>2
<1>3. CASE n = 3
  BY <1>3
<1> QED
  BY <1>1, <1>2, <1>3

\* The i-th of n solvers in a circle, b after the a-th, and the one t after it.
LEMMA Around ==
    ASSUME NEW n \in 1..3, NEW a \in 1..n, NEW b \in 0..(n - 1), NEW j \in 1..n,
           NEW i \in 1..n, i = IF a + b <= n THEN a + b ELSE a + b - n,
           NEW t \in 1..n, t = IF i < n THEN i + 1 ELSE 1,
           NEW d \in Nat, d = IF j >= a THEN j - a ELSE j + n - a,
           b <= d, j # i
    PROVE  (IF j >= t THEN j - t ELSE j + n - t) = d - b - 1
<1>1. CASE i < n
  <2>1. t = i + 1
    BY <1>1
  <2>2. CASE j >= a
    BY <1>1, <2>1, <2>2
  <2>3. CASE ~ (j >= a)
    BY <1>1, <2>1, <2>3
  <2> QED
    BY <2>2, <2>3
<1>2. CASE ~ (i < n)
  <2>1. t = 1 /\ i = n
    BY <1>2
  <2>2. CASE j >= a
    BY <1>2, <2>1, <2>2
  <2>3. CASE ~ (j >= a)
    BY <1>2, <2>1, <2>3
  <2> QED
    BY <2>2, <2>3
<1> QED
  BY <1>1, <1>2

LEMMA Circle ==
    ASSUME NEW n \in 1..3, NEW a \in 1..n, NEW b \in 0..(n - 1),
           NEW i, i = 1 + ((a - 1 + b) % n)
    PROVE  i \in 1..n /\ i = IF a + b <= n THEN a + b ELSE a + b - n
<1>1. a - 1 + b \in 0..(2 * n - 2)
  OBVIOUS
<1>2. (a - 1 + b) % n = IF a - 1 + b < n THEN a - 1 + b ELSE a - 1 + b - n
  BY <1>1, Modulo
<1>3. i = IF a - 1 + b < n THEN a + b ELSE a + b - n
  BY <1>2
<1> QED
  BY <1>3

LEMMA IndexOfSolver ==
    ASSUME RunInv(run)
    PROVE  /\ SolverIndex \in 1..Len(Solvers)
           /\ SolverIndex = IF run.turn + run.skipped <= Len(Solvers)
                            THEN run.turn + run.skipped
                            ELSE run.turn + run.skipped - Len(Solvers)
<1>1. /\ run.turn \in 1..Len(Solvers) /\ run.skipped \in 0..(Len(Solvers) - 1)
      /\ Len(Solvers) \in 1..3
  BY Limits DEF RunInv, Sound, RunType, CaptchaRounds
<1>2. SolverIndex = 1 + ((run.turn - 1 + run.skipped) % Len(Solvers))
  BY DEF SolverIndex
<1> QED
  BY <1>1, <1>2, Circle

LEMMA TurnAfter ==
    ASSUME NEW i \in 1..Len(Solvers)
    PROVE  NextTurn(i) = IF i < Len(Solvers) THEN i + 1 ELSE 1
<1>1. Len(Solvers) \in 1..3
  BY Limits DEF CaptchaRounds
<1>2. CASE Len(Solvers) = 1
  BY <1>2 DEF NextTurn
<1>3. CASE Len(Solvers) = 2
  BY <1>3 DEF NextTurn
<1>4. CASE Len(Solvers) = 3
  BY <1>4 DEF NextTurn
<1> QED
  BY <1>1, <1>2, <1>3, <1>4

LEMMA ChallengeFields ==
    ASSUME RunInv(run)
    PROVE  /\ run \in RunType /\ Rotation(run)
           /\ run.challenge \in {"none", "shown", "answered"} /\ run.rounds \in 0..3
           /\ run.turn \in 1..Len(Solvers) /\ run.skipped \in 0..(Len(Solvers) - 1)
           /\ run.asked \in SUBSET ToSet(Solvers) /\ Len(Solvers) \in 1..3
BY Limits DEF RunInv, Sound, RunType, CaptchaRounds

LEMMA PageChallengesRun ==
    ASSUME RunInv(run), PageChallenges
    PROVE  Moved(run)
<1>1. OpensPage /\ run.challenge = "none"
      /\ run' = [run EXCEPT !.challenge = "shown", !.rounds = @ + 1, !.skipped = 0]
      /\ UNCHANGED <<sched, owed>>
  BY DEF PageChallenges, GoOn
<1>2. /\ run \in RunType /\ Rotation(run) /\ run.rounds \in 0..3 /\ Len(Solvers) \in 1..3
      /\ run.turn \in 1..Len(Solvers) /\ run.asked \in SUBSET ToSet(Solvers)
  BY ChallengeFields
<1>3. run.rounds < 3
  BY <1>1, <1>2 DEF Rotation, CaptchaRounds
<1>4. run' = [run EXCEPT !.challenge = "shown", !.rounds = run.rounds + 1, !.turn = run.turn,
                         !.skipped = 0, !.asked = run.asked]
  BY <1>1, <1>2 DEF RunType
<1>5. run.rounds + 1 \in 0..CaptchaRounds /\ 0 \in 0..(Len(Solvers) - 1)
  BY <1>2, <1>3 DEF CaptchaRounds
<1> DEFINE s == [challenge |-> "shown", rounds |-> run.rounds + 1, turn |-> run.turn,
                 skipped |-> 0, asked |-> run.asked]
<1>6f. /\ s.challenge = "shown" /\ s.rounds = run.rounds + 1 /\ s.turn = run.turn
      /\ s.skipped = 0 /\ s.asked = run.asked
  OBVIOUS
<1> HIDE DEF s
<1>6. Rotation(s)
  <2>1. ASSUME NEW j \in 1..Len(Solvers), Solvers[j] \notin s.asked
        PROVE  Distance(s.turn, j) + AnsweredRounds(s) < Len(Solvers)
               /\ s.skipped <= Distance(s.turn, j)
    <3>1. Distance(run.turn, j) + AnsweredRounds(run) < Len(Solvers)
      BY <1>2, <1>6f, <2>1 DEF Rotation
    <3>2. AnsweredRounds(run) = run.rounds /\ AnsweredRounds(s) = run.rounds
      BY <1>1, <1>2, <1>6f DEF AnsweredRounds
    <3>3. Distance(run.turn, j) \in Nat
      BY <1>2 DEF Distance
    <3> QED
      BY <1>6f, <3>1, <3>2, <3>3
  <2> QED
    BY <1>2, <1>6f, <2>1 DEF Rotation
<1> QED
  BY <1>1, <1>2, <1>4, <1>5, <1>6, ChallengeGoesOn DEF s

LEMMA SolverAnswersRun ==
    ASSUME RunInv(run), SolverAnswers
    PROVE  Moved(run)
<1> DEFINE i == SolverIndex
<1> DEFINE t == NextTurn(i)
<1>1. OpensPage /\ run.challenge = "shown"
      /\ run' = [Asked(run) EXCEPT !.challenge = "answered", !.turn = t]
      /\ UNCHANGED <<sched, owed>>
  BY DEF SolverAnswers, GoOn
<1>2. /\ run \in RunType /\ Rotation(run) /\ run.rounds \in 0..3 /\ Len(Solvers) \in 1..3
      /\ run.turn \in 1..Len(Solvers) /\ run.asked \in SUBSET ToSet(Solvers)
      /\ run.skipped \in 0..(Len(Solvers) - 1)
  BY ChallengeFields
<1>3. /\ i \in 1..Len(Solvers)
      /\ i = IF run.turn + run.skipped <= Len(Solvers) THEN run.turn + run.skipped
             ELSE run.turn + run.skipped - Len(Solvers)
  BY IndexOfSolver
<1>4. t = IF i < Len(Solvers) THEN i + 1 ELSE 1
  BY <1>3, TurnAfter
<1>5. Asked(run) = [run EXCEPT !.asked = run.asked \cup {Solvers[i]}]
  BY DEF Asked
<1> HIDE DEF i, t
<1> DEFINE now == run.asked \cup {Solvers[i]}
<1>6. now \in SUBSET ToSet(Solvers)
  <2>1. i \in DOMAIN Solvers
    BY <1>3, SearchAssumption
  <2>2. Solvers[i] \in ToSet(Solvers)
    BY <2>1 DEF ToSet
  <2> QED
    BY <1>2, <2>2
<1>7. \A x \in run.asked : x \in now
  OBVIOUS
<1>8. Solvers[i] \in now
  OBVIOUS
<1> HIDE DEF now
<1>9. run' = [run EXCEPT !.challenge = "answered", !.rounds = run.rounds, !.turn = t,
                         !.skipped = run.skipped, !.asked = now]
  BY <1>1, <1>2, <1>5 DEF RunType, now
<1>10. run.rounds \in 0..CaptchaRounds /\ t \in 1..Len(Solvers)
  BY <1>2, <1>3, <1>4 DEF CaptchaRounds
<1> DEFINE s == [challenge |-> "answered", rounds |-> run.rounds, turn |-> t,
                 skipped |-> run.skipped, asked |-> now]
<1>11f. /\ s.challenge = "answered" /\ s.rounds = run.rounds /\ s.turn = t
      /\ s.skipped = run.skipped /\ s.asked = now
  OBVIOUS
<1> HIDE DEF s
<1>11. Rotation(s)
  <2>1. ASSUME NEW j \in 1..Len(Solvers), Solvers[j] \notin now
        PROVE  Distance(t, j) + AnsweredRounds(s) < Len(Solvers)
    <3>1. Solvers[j] \notin run.asked /\ j # i
      BY <1>7, <1>8, <2>1
    <3>2. /\ Distance(run.turn, j) + AnsweredRounds(run) < Len(Solvers)
          /\ run.skipped <= Distance(run.turn, j)
      BY <1>1, <1>2, <3>1 DEF Rotation
    <3>3. AnsweredRounds(run) = run.rounds - 1 /\ AnsweredRounds(s) = run.rounds
      BY <1>1, <1>11f DEF AnsweredRounds
    <3>5. Distance(run.turn, j) \in Nat
      BY <1>2 DEF Distance
    <3>4. Distance(t, j) = Distance(run.turn, j) - run.skipped - 1
      <4>1. /\ Distance(run.turn, j) = IF j >= run.turn THEN j - run.turn
                                       ELSE j + Len(Solvers) - run.turn
            /\ Distance(t, j) = IF j >= t THEN j - t ELSE j + Len(Solvers) - t
        BY DEF Distance
      <4>2. t \in 1..Len(Solvers)
        BY <1>2, <1>3, <1>4
      <4> DEFINE n == Len(Solvers)
      <4> DEFINE a == run.turn
      <4> DEFINE b == run.skipped
      <4> DEFINE d == Distance(run.turn, j)
      <4>3. /\ n \in 1..3 /\ a \in 1..n /\ b \in 0..(n - 1) /\ j \in 1..n /\ i \in 1..n
            /\ i = IF a + b <= n THEN a + b ELSE a + b - n
            /\ t \in 1..n /\ t = IF i < n THEN i + 1 ELSE 1
            /\ d \in Nat /\ d = IF j >= a THEN j - a ELSE j + n - a
            /\ b <= d /\ j # i
        BY <1>2, <1>3, <1>4, <3>1, <3>2, <3>5, <4>1, <4>2
      <4>4. (IF j >= t THEN j - t ELSE j + n - t) = d - b - 1
        <5> HIDE DEF n, a, b, d
        <5> QED
          BY <4>3, Around
      <4> QED
        BY <4>1, <4>4
    <3> QED
      BY <1>2, <3>2, <3>3, <3>4, <3>5, SMTT(30)
  <2>2. run.rounds > 0
    BY <1>1, <1>2 DEF Rotation
  <2> QED
    BY <1>11f, <2>1, <2>2 DEF Rotation
<1> QED
  BY <1>1, <1>2, <1>6, <1>9, <1>10, <1>11, ChallengeGoesOn DEF s

LEMMA SolverGivesUpRun ==
    ASSUME RunInv(run), SolverGivesUp
    PROVE  Moved(run)
<1> DEFINE i == SolverIndex
<1>1. OpensPage /\ run.challenge = "shown"
  BY DEF SolverGivesUp
<1>2. CASE run.skipped + 1 < Len(Solvers)
  <2>1. run' = [Asked(run) EXCEPT !.skipped = @ + 1] /\ UNCHANGED <<sched, owed>>
    BY <1>2 DEF SolverGivesUp, GoOn
  <2>2. /\ run \in RunType /\ Rotation(run) /\ run.rounds \in 0..3 /\ Len(Solvers) \in 1..3
        /\ run.turn \in 1..Len(Solvers) /\ run.asked \in SUBSET ToSet(Solvers)
        /\ run.skipped \in 0..(Len(Solvers) - 1)
    BY ChallengeFields
  <2>3. /\ i \in 1..Len(Solvers)
        /\ i = IF run.turn + run.skipped <= Len(Solvers) THEN run.turn + run.skipped
               ELSE run.turn + run.skipped - Len(Solvers)
    BY IndexOfSolver
  <2>4. Asked(run) = [run EXCEPT !.asked = run.asked \cup {Solvers[i]}]
    BY DEF Asked
  <2> HIDE DEF i
  <2> DEFINE now == run.asked \cup {Solvers[i]}
  <2>5. now \in SUBSET ToSet(Solvers)
    <3>1. i \in DOMAIN Solvers
      BY <2>3, SearchAssumption
    <3>2. Solvers[i] \in ToSet(Solvers)
      BY <3>1 DEF ToSet
    <3> QED
      BY <2>2, <3>2
  <2>6. (\A x \in run.asked : x \in now) /\ Solvers[i] \in now
    OBVIOUS
  <2> HIDE DEF now
  <2>7. run' = [run EXCEPT !.challenge = "shown", !.rounds = run.rounds, !.turn = run.turn,
                           !.skipped = run.skipped + 1, !.asked = now]
    <3>1. Asked(run) = [run EXCEPT !.asked = now]
      BY <2>4 DEF now
    <3>2. Asked(run).skipped = run.skipped
      BY <2>2, <3>1 DEF RunType
    <3>3. run' = [[run EXCEPT !.asked = now] EXCEPT !.skipped = run.skipped + 1]
      BY <2>1, <3>1, <3>2
    <3> QED
      BY <1>1, <2>2, <3>3 DEF RunType
  <2>8. run.rounds \in 0..CaptchaRounds /\ run.skipped + 1 \in 0..(Len(Solvers) - 1)
    BY <1>2, <2>2 DEF CaptchaRounds
  <2> DEFINE s == [challenge |-> "shown", rounds |-> run.rounds, turn |-> run.turn,
                   skipped |-> run.skipped + 1, asked |-> now]
  <2>9f. /\ s.challenge = "shown" /\ s.rounds = run.rounds /\ s.turn = run.turn
        /\ s.skipped = run.skipped + 1 /\ s.asked = now
    OBVIOUS
  <2> HIDE DEF s
  <2>9. Rotation(s)
    <3>1. ASSUME NEW j \in 1..Len(Solvers), Solvers[j] \notin now
          PROVE  Distance(run.turn, j) + AnsweredRounds(s) < Len(Solvers)
                 /\ run.skipped + 1 <= Distance(run.turn, j)
      <4>1. Solvers[j] \notin run.asked /\ j # i
        BY <2>6, <3>1
      <4>2. /\ Distance(run.turn, j) + AnsweredRounds(run) < Len(Solvers)
            /\ run.skipped <= Distance(run.turn, j)
        BY <1>1, <2>2, <4>1 DEF Rotation
      <4>3. AnsweredRounds(run) = run.rounds - 1 /\ AnsweredRounds(s) = run.rounds - 1
        BY <1>1, <2>9f DEF AnsweredRounds
      <4>4. run.skipped # Distance(run.turn, j)
        BY <2>2, <2>3, <4>1, SMTT(30) DEF Distance
      <4>5. Distance(run.turn, j) \in Nat
        BY <2>2 DEF Distance
      <4> QED
        BY <2>2, <4>2, <4>3, <4>4, <4>5
    <3>2. run.rounds > 0
      BY <1>1, <2>2 DEF Rotation
    <3> QED
      BY <2>9f, <3>1, <3>2 DEF Rotation
  <2> QED
    BY <1>1, <2>1, <2>2, <2>5, <2>7, <2>8, <2>9, ChallengeGoesOn DEF s
<1>3. CASE ~ (run.skipped + 1 < Len(Solvers))
  <2>1. PageLost("error")
    BY <1>3 DEF SolverGivesUp
  <2> QED
    BY <1>1, <2>1, PageLostRun
<1> QED
  BY <1>2, <1>3

LEMMA SubmitAnswerRun ==
    ASSUME RunInv(run), SubmitAnswer
    PROVE  Moved(run)
<1>1. OpensPage /\ run.challenge = "answered"
  BY DEF SubmitAnswer
<1>2. CASE run.rounds < CaptchaRounds
  <2>1. run' = [run EXCEPT !.challenge = "none"] /\ UNCHANGED <<sched, owed>>
    BY <1>2 DEF SubmitAnswer, GoOn
  <2>2. /\ run \in RunType /\ Rotation(run) /\ run.rounds \in 0..CaptchaRounds
        /\ run.turn \in 1..Len(Solvers) /\ run.asked \in SUBSET ToSet(Solvers)
        /\ run.skipped \in 0..(Len(Solvers) - 1)
    BY ChallengeFields DEF CaptchaRounds
  <2>3. run' = [run EXCEPT !.challenge = "none", !.rounds = run.rounds, !.turn = run.turn,
                           !.skipped = run.skipped, !.asked = run.asked]
    BY <2>1, <2>2 DEF RunType
  <2> DEFINE s == [challenge |-> "none", rounds |-> run.rounds, turn |-> run.turn,
                   skipped |-> run.skipped, asked |-> run.asked]
  <2>4f. /\ s.challenge = "none" /\ s.rounds = run.rounds /\ s.turn = run.turn
        /\ s.skipped = run.skipped /\ s.asked = run.asked
    OBVIOUS
  <2> HIDE DEF s
  <2>4. Rotation(s)
    <3>1. AnsweredRounds(s) = AnsweredRounds(run)
      BY <1>1, <2>4f DEF AnsweredRounds
    <3> QED
      BY <1>1, <1>2, <2>2, <2>4f, <3>1 DEF Rotation
  <2> QED
    BY <1>1, <2>1, <2>2, <2>3, <2>4, ChallengeGoesOn DEF s
<1>3. CASE ~ (run.rounds < CaptchaRounds)
  <2>1. PageLost("rejected")
    BY <1>3 DEF SubmitAnswer
  <2> QED
    BY <1>1, <2>1, PageLostRun
<1> QED
  BY <1>2, <1>3

-----------------------------------------------------------------------------
(* The run of every step.                                                  *)

\* What became of an attempt, a page or a query moves the run as it is told here.
LEMMA StepMoves ==
    ASSUME RunInv(run), Steps, ~SelectSource
    PROVE  Moved(run)
<1>1. CASE NothingEnabled \/ WakeUp \/ SearchWithoutKey
  BY <1>1, NothingEnabledRun, WakeUpRun, SearchWithoutKeyRun
<1>2. CASE AssrtSkipsQuery \/ AssrtFindsNothing
  <2>1. run.pc = "searching" /\ QueryEnds(run)
    BY <1>2 DEF AssrtSkipsQuery, AssrtFindsNothing, AssrtAsks, At
  <2> QED
    BY <2>1, QueryEndsMoved
<1>3. CASE AssrtDetail \/ AssrtAsksDetail \/ \E n \in 1..MaxFound : AssrtFinds(n)
  BY <1>3, AssrtDetailRun, AssrtFindsRun
<1>4. CASE ApiSearchFails \/ SubliminalCannotScan
  BY <1>4, SourceFailsRun
<1>5. CASE \E n \in 0..MaxFound : SubdlAnswers(n) \/ ZimukuQueryAnswered(n)
  BY <1>5, SubdlAnswersRun, ZimukuQueryAnsweredRun
<1>6. CASE \E n \in 0..MaxFound : SubliminalAsks("completed", n)
  BY <1>6, SubliminalAsksRun
<1>7. CASE \E status \in {"failed", "skipped"} : SubliminalAsks(status, 0)
  <2>1. 0 \in 0..MaxFound
    BY Limits
  <2> QED
    BY <1>7, <2>1, SubliminalAsksRun
<1>8. CASE \E placed \in BOOLEAN : DownloadEnds(placed) \/ ZimukuFileArrives(placed)
  BY <1>8, DownloadEndsRun, ZimukuFileArrivesRun
<1>9. CASE PageLeadsOn \/ PageChallenges \/ SolverAnswers \/ SolverGivesUp \/ SubmitAnswer
  BY <1>9, PageLeadsOnRun, PageChallengesRun, SolverAnswersRun, SolverGivesUpRun,
     SubmitAnswerRun
<1>10. CASE \E kind \in {"timeout", "error"} :
              PageFails(kind) \/ SolverUnreachable(kind) \/ SubmitFails(kind)
  BY <1>10, PageLostActions
<1> QED
  BY <1>1, <1>2, <1>3, <1>4, <1>5, <1>6, <1>7, <1>8, <1>9, <1>10 DEF Steps

LEMMA LessTyped ==
    ASSUME NEW n \in Nat
    PROVE  Less(n) \in Nat /\ Less(n) <= n /\ (n > 0 => Less(n) = n - 1)
BY DEF Less

LEMMA TickRun ==
    ASSUME RunInv(run), Tick
    PROVE  /\ RunInv(run') /\ run'.searched = run.searched
           /\ run'.pc = run.pc /\ run'.source = run.source
<1>1. run \in RunType /\ run.wait \in Nat /\ Sound(run) /\ Staged(run)
      /\ run.used + run.batch <= MaxAttempts
  BY DEF RunInv, Sound, RunType
<1> DEFINE w == Less(run.wait)
<1> DEFINE s == [run EXCEPT !.wait = w]
<1>2. w \in Nat
  BY <1>1, LessTyped
<1>3. run' = s
  BY DEF Tick
<1> HIDE DEF w
<1>4. s \in RunType
  BY <1>1, <1>2, Retyped
<1>5. /\ s.pc = run.pc /\ s.query = run.query /\ s.source = run.source
      /\ s.request = run.request /\ s.batch = run.batch /\ s.outcome = run.outcome
      /\ s.truth = run.truth /\ s.reports = run.reports /\ s.used = run.used
      /\ s.left = run.left /\ s.searched = run.searched /\ s.conf = run.conf
      /\ s.challenge = run.challenge /\ s.rounds = run.rounds /\ s.turn = run.turn
      /\ s.skipped = run.skipped /\ s.asked = run.asked
  BY <1>1 DEF RunType
<1> HIDE DEF s
<1>6. Sound(s)
  BY <1>1, <1>4, <1>5, SoundAgain
<1>7. Staged(s)
  BY <1>1, <1>5, StagedAgain
<1> QED
  BY <1>3, <1>5, <1>6, <1>7 DEF RunInv

LEMMA RunInvKept ==
    ASSUME Typed, RunInv(run), Next
    PROVE  RunInv(run')
<1>1. CASE \E r \in Requests : StartTask(r)
  <2>1. PICK r \in Requests : run' = NewRun(r, stored)
    BY <1>1 DEF StartTask
  <2> QED
    BY <2>1, NewRunSound DEF Typed
<1>2. CASE \E c \in Configs : SaveSettings(c)
  BY <1>2 DEF SaveSettings
<1>3. CASE Steps /\ SelectSource
  BY <1>3, SelectSourceRun
<1>4. CASE Steps /\ ~SelectSource
  BY <1>4, StepMoves DEF Moved
<1>5. CASE Tick
  BY <1>5, TickRun
<1> QED
  BY <1>1, <1>2, <1>3, <1>4, <1>5 DEF Next

-----------------------------------------------------------------------------
(* The scheduler.                                                          *)

SchedType == [interval : [Sources -> Nat], cooldown : [Sources -> Nat]]

LEMMA Marked ==
    ASSUME NEW s \in SchedType, NEW p \in Sources
    PROVE  LET t == MarkCompleted(s, p)
           IN  /\ t \in SchedType
               /\ \A q \in Sources \ {p} : t.cooldown[q] = s.cooldown[q]
               /\ s.interval[p] <= t.cooldown[p]
<1>1. /\ s.interval \in [Sources -> Nat] /\ s.cooldown \in [Sources -> Nat]
      /\ s = [interval |-> s.interval, cooldown |-> s.cooldown]
      /\ s.interval[p] \in Nat /\ s.cooldown[p] \in Nat
  BY DEF SchedType
<1> DEFINE new == IF s.interval[p] = 0 THEN s.cooldown[p]
                  ELSE Max({s.cooldown[p], s.interval[p]})
<1>2. new \in Nat /\ s.interval[p] <= new
  BY <1>1, MaxOfTwo
<1>3. MarkCompleted(s, p) = [interval |-> s.interval, cooldown |-> [s.cooldown EXCEPT ![p] = new]]
  BY <1>1 DEF MarkCompleted
<1> HIDE DEF new
<1> QED
  BY <1>1, <1>2, <1>3 DEF SchedType

LEMMA Reserved ==
    ASSUME NEW s \in SchedType, NEW p \in Sources
    PROVE  LET t == Reserve(s, p)
           IN  /\ t \in SchedType
               /\ \A q \in Sources \ {p} : t.cooldown[q] = s.cooldown[q]
<1>1. /\ s.interval \in [Sources -> Nat] /\ s.cooldown \in [Sources -> Nat]
      /\ s = [interval |-> s.interval, cooldown |-> s.cooldown] /\ s.interval[p] \in Nat
  BY DEF SchedType
<1>2. Reserve(s, p)
        = [interval |-> s.interval, cooldown |-> [s.cooldown EXCEPT ![p] = s.interval[p]]]
  BY <1>1 DEF Reserve
<1> QED
  BY <1>1, <1>2 DEF SchedType

LEMMA Elapsed ==
    ASSUME NEW s \in SchedType
    PROVE  LET t == Elapse(s)
           IN  /\ t \in SchedType
               /\ \A q \in Sources : t.cooldown[q] = Less(s.cooldown[q])
<1>1. /\ s.interval \in [Sources -> Nat] /\ s.cooldown \in [Sources -> Nat]
      /\ s = [interval |-> s.interval, cooldown |-> s.cooldown]
      /\ DOMAIN s.cooldown = Sources
  BY DEF SchedType
<1>2. Elapse(s) = [interval |-> s.interval, cooldown |-> [p \in Sources |-> Less(s.cooldown[p])]]
  BY <1>1 DEF Elapse
<1>3. [p \in Sources |-> Less(s.cooldown[p])] \in [Sources -> Nat]
  BY <1>1, LessTyped
<1> QED
  BY <1>1, <1>2, <1>3 DEF SchedType

LEMMA Updated ==
    ASSUME NEW s \in SchedType, NEW interval \in [Sources -> Nat]
    PROVE  /\ UpdateIntervals(s, interval) \in SchedType
           /\ UpdateIntervals(s, interval).cooldown = s.cooldown
BY DEF UpdateIntervals, SchedType

LEMMA SelectsSource ==
    ASSUME Typed, RunInv(run), SelectSource
    PROVE  \/ /\ UNCHANGED <<sched, owed>>
              /\ run'.pc = "sleeping" /\ run'.searched = run.searched
           \/ \E p \in Sources :
                /\ sched' = Reserve(sched, p) /\ owed' = owed /\ Ready(sched, p)
                /\ run'.pc = "searching" /\ run'.source = p
                /\ run'.searched = run.searched \cup {p}
<1>1. run \in RunType /\ run.left \in Seq(Sources)
  BY DEF RunInv, Sound, RunType
<1>2. ASSUME NEW i \in DOMAIN run.left, FirstReady(sched, run.left, i),
             run' = Search(run, i), sched' = Reserve(sched, run.left[i]), owed' = owed
      PROVE  \E p \in Sources :
                /\ sched' = Reserve(sched, p) /\ owed' = owed /\ Ready(sched, p)
                /\ run'.pc = "searching" /\ run'.source = p
                /\ run'.searched = run.searched \cup {p}
  <2>1. run.left[i] \in Sources
    BY <1>1
  <2>2. Ready(sched, run.left[i])
    BY <1>2 DEF FirstReady
  <2>3. /\ run'.pc = "searching" /\ run'.source = run.left[i]
        /\ run'.searched = run.searched \cup {run.left[i]}
    BY <1>1, <1>2 DEF Search, RunType
  <2> QED
    BY <1>2, <2>1, <2>2, <2>3
<1>3. ASSUME run' = [run EXCEPT !.pc = "sleeping", !.wait = WaitTime(sched, run.left)]
      PROVE  run'.pc = "sleeping" /\ run'.searched = run.searched
  BY <1>1, <1>3 DEF RunType
<1> QED
  BY <1>2, <1>3 DEF SelectSource

LEMMA TypedSched ==
    ASSUME Typed
    PROVE  sched \in SchedType /\ owed \in [Sources -> Nat]
BY DEF Typed, SchedType

\* The scheduler and the rests it owes, at every step.
LEMMA RestingKept ==
    ASSUME Typed, RunInv(run), Resting, Next
    PROVE  sched' \in SchedType /\ owed' \in [Sources -> Nat] /\ Resting'
<1>0. /\ sched \in SchedType /\ owed \in [Sources -> Nat]
      /\ \A p \in Sources : sched.cooldown[p] \in Nat /\ sched.interval[p] \in Nat
  BY TypedSched DEF SchedType
<1>1. CASE \E r \in Requests : StartTask(r)
  <2>1. /\ run.pc = "idle" /\ sched' = UpdateIntervals(sched, stored.interval) /\ owed' = owed
    BY <1>1 DEF StartTask
  <2>2. stored.interval \in [Sources -> Nat]
    BY SearchAssumption DEF Typed
  <2>3. sched' \in SchedType /\ sched'.cooldown = sched.cooldown
    BY <1>0, <2>1, <2>2, Updated
  <2> QED
    BY <1>0, <2>1, <2>3 DEF Resting
<1>2. CASE \E c \in Configs : SaveSettings(c)
  <2>1. UNCHANGED <<sched, run, owed>>
    BY <1>2 DEF SaveSettings
  <2> QED
    BY <1>0, <2>1 DEF Resting
<1>3. CASE Steps /\ SelectSource
  <2>0. run.pc = "selecting"
    BY <1>3 DEF SelectSource
  <2>1. CASE UNCHANGED <<sched, owed>>
    BY <1>0, <2>0, <2>1 DEF Resting
  <2>2. ASSUME NEW p \in Sources, sched' = Reserve(sched, p), owed' = owed,
               run'.pc = "searching", run'.source = p
        PROVE  sched' \in SchedType /\ owed' \in [Sources -> Nat] /\ Resting'
    <3>1. sched' \in SchedType /\ \A q \in Sources \ {p} : sched'.cooldown[q] = sched.cooldown[q]
      BY <1>0, <2>2, Reserved
    <3> QED
      BY <1>0, <2>0, <2>2, <3>1 DEF Resting
  <2> QED
    BY <1>3, <2>1, <2>2, SelectsSource
<1>4. CASE Steps /\ ~SelectSource
  <2>1. Ended(run) \/ Kept(run)
    BY <1>4, StepMoves DEF Moved
  <2>2. CASE Kept(run)
    BY <1>0, <2>2 DEF Kept, Resting
  <2>3. CASE Ended(run)
    <3>1. /\ sched' = MarkCompleted(sched, run.source) /\ run.source \in Sources
          /\ owed' = [owed EXCEPT ![run.source] = sched.interval[run.source]]
      BY <2>3 DEF Ended
    <3>2. /\ sched' \in SchedType
          /\ \A q \in Sources \ {run.source} : sched'.cooldown[q] = sched.cooldown[q]
          /\ sched.interval[run.source] <= sched'.cooldown[run.source]
      BY <1>0, <3>1, Marked
    <3>3. owed' \in [Sources -> Nat]
      BY <1>0, <3>1
    <3>4. \A p \in Sources : owed'[p] <= sched'.cooldown[p]
      BY <1>0, <3>1, <3>2 DEF Resting
    <3> QED
      BY <3>2, <3>3, <3>4 DEF Resting
  <2> QED
    BY <2>1, <2>2, <2>3
<1>5. CASE Tick
  <2>1. run'.pc = run.pc /\ run'.source = run.source
    BY <1>5, TickRun
  <2>2. sched' = Elapse(sched) /\ owed' = [p \in Sources |-> Less(owed[p])]
    BY <1>5 DEF Tick
  <2>3. sched' \in SchedType /\ \A p \in Sources : sched'.cooldown[p] = Less(sched.cooldown[p])
    BY <1>0, <2>2, Elapsed
  <2>4. owed' \in [Sources -> Nat]
    BY <1>0, <2>2, LessTyped
  <2>5. ASSUME NEW p \in Sources, owed[p] <= sched.cooldown[p]
        PROVE  owed'[p] <= sched'.cooldown[p]
    BY <1>0, <2>2, <2>3, <2>5 DEF Less
  <2> QED
    BY <2>1, <2>3, <2>4, <2>5 DEF Resting
<1> QED
  BY <1>1, <1>2, <1>3, <1>4, <1>5 DEF Next

-----------------------------------------------------------------------------
(* The memory of empty answers.                                            *)

\* Only a query that finds nothing writes to it.
LEMMA OthersForgetNothing ==
    ASSUME Steps, ~AssrtFindsNothing
    PROVE  UNCHANGED <<stored, negative, misses>>
<1>1. CASE SelectSource \/ NothingEnabled \/ WakeUp \/ SearchWithoutKey
  BY <1>1 DEF SelectSource, NothingEnabled, WakeUp, SearchWithoutKey
<1>2. CASE AssrtSkipsQuery \/ AssrtDetail \/ AssrtAsksDetail
  BY <1>2 DEF AssrtSkipsQuery, AssrtDetail, AssrtAsksDetail
<1>3. CASE \E n \in 1..MaxFound : AssrtFinds(n)
  BY <1>3 DEF AssrtFinds
<1>4. CASE ApiSearchFails \/ SubliminalCannotScan
  BY <1>4 DEF ApiSearchFails, SubliminalCannotScan
<1>5. CASE \E n \in 0..MaxFound : SubdlAnswers(n) \/ ZimukuQueryAnswered(n)
  BY <1>5 DEF SubdlAnswers, ZimukuQueryAnswered
<1>6. CASE \E n \in 0..MaxFound : SubliminalAsks("completed", n)
  BY <1>6 DEF SubliminalAsks
<1>7. CASE \E status \in {"failed", "skipped"} : SubliminalAsks(status, 0)
  BY <1>7 DEF SubliminalAsks
<1>8. CASE \E placed \in BOOLEAN : DownloadEnds(placed) \/ ZimukuFileArrives(placed)
  BY <1>8 DEF DownloadEnds, ZimukuFileArrives
<1>9. CASE PageLeadsOn \/ PageChallenges \/ SolverAnswers \/ SolverGivesUp \/ SubmitAnswer
  BY <1>9 DEF PageLeadsOn, PageChallenges, SolverAnswers, SolverGivesUp, SubmitAnswer
<1>10. CASE \E kind \in {"timeout", "error"} :
              PageFails(kind) \/ SolverUnreachable(kind) \/ SubmitFails(kind)
  BY <1>10 DEF PageFails, SolverUnreachable, SubmitFails
<1> QED
  BY <1>1, <1>2, <1>3, <1>4, <1>5, <1>6, <1>7, <1>8, <1>9, <1>10 DEF Steps

\* The query ASSRT is about to be asked is one of those of the request.
LEMMA AskedQuery ==
    ASSUME RunInv(run), At("assrt", "searching")
    PROVE  /\ run.request \in Requests
           /\ Queries[run.query] \in ToSet(AssrtQueries(run.request))
<1>1. /\ run.source = "assrt" /\ run.pc = "searching" /\ run.request \in Requests
      /\ run.query \in Nat \ {0}
  BY DEF At, RunInv, Sound, RunType
<1>2. run.query <= Len(QueriesOf(run))
  BY <1>1 DEF RunInv, Staged
<1>3. run.source \in Sources
  BY <1>1 DEF Sources
<1>4. Queries = QueriesOf(run) /\ QueriesOf(run) = AssrtQueries(run.request)
  BY <1>1, <1>3, RunQueries DEF QueriesOf
<1>5. run.query \in DOMAIN AssrtQueries(run.request)
  BY <1>1, <1>2, <1>3, <1>4, QueriesThere
<1> QED
  BY <1>1, <1>4, <1>5 DEF ToSet

LEMMA KeyKnown ==
    ASSUME NEW r \in Requests, NEW q \in ToSet(AssrtQueries(r))
    PROVE  NegativeKey(r, q) \in AssrtKeys /\ q \in AssrtTexts
BY DEF AssrtKeys, AssrtTexts

\* Two requests share a memory only for the very same query.
LEMMA KeyNamesQuery ==
    ASSUME NEW r, NEW q, NEW s, NEW t, NegativeKey(r, q) = NegativeKey(s, t)
    PROVE  q = t
<1>1. NegativeKey(r, q).query = q /\ NegativeKey(s, t).query = t
  BY DEF NegativeKey
<1> QED
  BY <1>1

LEMMA Ageing ==
    ASSUME NEW n \in 0..NegativeTtl, NEW age \in 0..NegativeTtl, NegativeTtl \in Nat
    PROVE  /\ Less(n) \in 0..NegativeTtl /\ Older(age) \in 0..NegativeTtl
           /\ n > 0 /\ age + n <= NegativeTtl /\ Less(n) > 0
                 => Older(age) + Less(n) <= NegativeTtl
           /\ Less(n) > 0 => n > 0
<1>1. Older(age) \in {age + 1, NegativeTtl} /\ Older(age) <= age + 1
      /\ Older(age) <= NegativeTtl
  BY MinIsMember DEF Older
<1>2. Less(n) \in Nat /\ Less(n) <= n /\ (n > 0 => Less(n) = n - 1) /\ (n = 0 => Less(n) = 0)
  BY DEF Less
<1>3. Older(age) \in 0..NegativeTtl
  BY <1>1
<1> HIDE DEF Older, Less
<1> QED
  BY <1>1, <1>2, <1>3

\* What is stored and remembered keeps its type, and its relation to what was found.
LEMMA MemoryKept ==
    ASSUME Typed, RunInv(run), Memory, Next
    PROVE  /\ stored' \in Configs
           /\ negative' \in [AssrtKeys -> 0..NegativeTtl]
           /\ misses' \in [AssrtTexts -> 0..NegativeTtl]
           /\ Memory'
<1>0. /\ stored \in Configs /\ NegativeTtl \in Nat
      /\ negative \in [AssrtKeys -> 0..NegativeTtl] /\ misses \in [AssrtTexts -> 0..NegativeTtl]
  BY Limits DEF Typed
<1>1. CASE \E r \in Requests : StartTask(r)
  <2>1. UNCHANGED <<stored, negative, misses>>
    BY <1>1 DEF StartTask
  <2> QED
    BY <1>0, <2>1 DEF Memory
<1>2. CASE \E c \in Configs : SaveSettings(c)
  <2>1. stored' \in Configs /\ UNCHANGED <<negative, misses>>
    BY <1>2 DEF SaveSettings
  <2> QED
    BY <1>0, <2>1 DEF Memory
<1>3. CASE Steps /\ ~AssrtFindsNothing
  <2>1. UNCHANGED <<stored, negative, misses>>
    BY <1>3, OthersForgetNothing
  <2> QED
    BY <1>0, <2>1 DEF Memory
<1>4. CASE AssrtFindsNothing
  <2> DEFINE query == Queries[run.query]
  <2>1. run.request \in Requests /\ query \in ToSet(AssrtQueries(run.request))
    BY <1>4, AskedQuery DEF AssrtFindsNothing, AssrtAsks
  <2>2. /\ negative' = [negative EXCEPT ![NegativeKey(run.request, query)] = NegativeTtl]
        /\ misses' = [misses EXCEPT ![query] = 0] /\ stored' = stored
    BY <1>4 DEF AssrtFindsNothing, AssrtKey
  <2> HIDE DEF query
  <2>3. NegativeKey(run.request, query) \in AssrtKeys /\ query \in AssrtTexts
    BY <2>1, KeyKnown
  <2>4. NegativeTtl \in 0..NegativeTtl /\ 0 \in 0..NegativeTtl
    BY <1>0
  <2>5. /\ negative' \in [AssrtKeys -> 0..NegativeTtl]
        /\ misses' \in [AssrtTexts -> 0..NegativeTtl]
    BY <1>0, <2>2, <2>4
  <2>6. ASSUME NEW r \in Requests, NEW q \in ToSet(AssrtQueries(r)),
               negative'[NegativeKey(r, q)] > 0
        PROVE  misses'[q] + negative'[NegativeKey(r, q)] <= NegativeTtl
    <3>1. NegativeKey(r, q) \in AssrtKeys /\ q \in AssrtTexts
      BY KeyKnown
    <3>2. CASE q = query
      <4>1. misses'[q] = 0 /\ negative'[NegativeKey(r, q)] \in 0..NegativeTtl
        BY <1>0, <2>2, <2>5, <3>1, <3>2
      <4> QED
        BY <1>0, <4>1
    <3>3. CASE q # query
      <4>1. NegativeKey(r, q) # NegativeKey(run.request, query)
        BY <3>3, KeyNamesQuery
      <4>2. /\ misses'[q] = misses[q]
            /\ negative'[NegativeKey(r, q)] = negative[NegativeKey(r, q)]
        BY <1>0, <2>2, <3>1, <3>3, <4>1
      <4> QED
        BY <2>6, <4>2 DEF Memory
    <3> QED
      BY <3>2, <3>3
  <2> QED
    BY <1>0, <2>2, <2>5, <2>6 DEF Memory
<1>5. CASE Tick
  <2>1. /\ stored' = stored /\ negative' = [k \in AssrtKeys |-> Less(negative[k])]
        /\ misses' = [q \in AssrtTexts |-> Older(misses[q])]
    BY <1>5 DEF Tick
  <2>2. \A k \in AssrtKeys : negative[k] \in 0..NegativeTtl
    BY <1>0
  <2>3. \A q \in AssrtTexts : misses[q] \in 0..NegativeTtl
    BY <1>0
  <2>4. \A k \in AssrtKeys : Less(negative[k]) \in 0..NegativeTtl
    BY <1>0, <2>2, Ageing
  <2>5. 0 \in 0..NegativeTtl
    BY <1>0
  <2>6. \A q \in AssrtTexts : Older(misses[q]) \in 0..NegativeTtl
    BY <1>0, <2>3, <2>5, Ageing
  <2>7. /\ negative' \in [AssrtKeys -> 0..NegativeTtl]
        /\ misses' \in [AssrtTexts -> 0..NegativeTtl]
    BY <2>1, <2>4, <2>6
  <2>8. ASSUME NEW r \in Requests, NEW q \in ToSet(AssrtQueries(r)),
               negative'[NegativeKey(r, q)] > 0
        PROVE  misses'[q] + negative'[NegativeKey(r, q)] <= NegativeTtl
    <3> DEFINE n == negative[NegativeKey(r, q)]
               age == misses[q]
    <3>1. NegativeKey(r, q) \in AssrtKeys /\ q \in AssrtTexts
      BY KeyKnown
    <3>2. n \in 0..NegativeTtl /\ age \in 0..NegativeTtl
      BY <2>2, <2>3, <3>1
    <3>3. negative'[NegativeKey(r, q)] = Less(n) /\ misses'[q] = Older(age)
      BY <2>1, <3>1
    <3>4. n > 0 => age + n <= NegativeTtl
      BY DEF Memory
    <3> HIDE DEF n, age
    <3> QED
      BY <1>0, <2>8, <3>2, <3>3, <3>4, Ageing
  <2> QED
    BY <1>0, <2>1, <2>7, <2>8 DEF Memory
<1> QED
  BY <1>1, <1>2, <1>3, <1>4, <1>5 DEF Next

-----------------------------------------------------------------------------
(* The inductive invariant.                                                *)

LEMMA Starts == Init => IInv
<1> SUFFICES ASSUME Init PROVE IInv
  OBVIOUS
<1>0. /\ stored \in Configs /\ NegativeTtl \in Nat /\ stored.interval \in [Sources -> Nat]
      /\ owed = [p \in Sources |-> 0]
  BY Limits, SearchAssumption DEF Init
<1>1. sched = [interval |-> stored.interval, cooldown |-> [p \in Sources |-> 0]]
  BY DEF Init, Scheduler
<1>2. Typed
  <2>1. negative = [k \in AssrtKeys |-> 0] /\ misses = [q \in AssrtTexts |-> NegativeTtl]
    BY DEF Init
  <2>2. 0 \in 0..NegativeTtl /\ NegativeTtl \in 0..NegativeTtl
    BY <1>0
  <2> QED
    BY <1>0, <1>1, <2>1, <2>2 DEF Typed
<1>3. Memory
  <2>1. negative = [k \in AssrtKeys |-> 0]
    BY DEF Init
  <2>2. \A r \in Requests : \A q \in ToSet(AssrtQueries(r)) : negative[NegativeKey(r, q)] = 0
    BY <2>1, KeyKnown
  <2> QED
    BY <2>2 DEF Memory
<1>4. Resting
  BY <1>0, <1>1 DEF Resting
<1>5. RunInv(run)
  <2> DEFINE request == CHOOSE r \in Requests : TRUE
             n == NewRun(request, stored)
  <2>1. request \in Requests
    BY SearchAssumption
  <2>2. run = [n EXCEPT !.pc = "idle"]
    BY DEF Init
  <2> HIDE DEF request
  <2>3. RunInv(n)
    BY <1>0, <2>1, NewRunSound
  <2>4. n \in RunType /\ Sound(n) /\ Staged(n)
    BY <2>3 DEF RunInv, Sound
  <2>5. n.batch = 0 /\ n.outcome = "none"
    BY DEF NewRun
  <2> HIDE DEF n
  <2>6. run \in RunType /\ run.pc = "idle" /\ run.batch = 0 /\ run.outcome = "none"
    <3>1. "idle" \in Stages
      BY DEF Stages
    <3>2. run \in RunType
      BY <2>2, <2>4, <3>1, Retyped
    <3>3. run.pc = "idle" /\ run.batch = n.batch /\ run.outcome = n.outcome
      BY <2>2, <2>4 DEF RunType
    <3> QED
      BY <2>5, <3>2, <3>3
  <2>7. Sound(run)
    <3>1. /\ run.used = n.used /\ run.left = n.left /\ run.searched = n.searched
          /\ run.conf = n.conf /\ run.challenge = n.challenge /\ run.rounds = n.rounds
          /\ run.turn = n.turn /\ run.skipped = n.skipped /\ run.asked = n.asked
          /\ run.batch = n.batch
      BY <2>2, <2>4 DEF RunType
    <3>2. n.used + n.batch <= MaxAttempts
      BY <2>4 DEF Sound
    <3> QED
      BY <2>4, <2>6, <3>1, <3>2, SoundAgain
  <2>8. Staged(run)
    BY <2>6 DEF Staged, Failures
  <2> QED
    BY <2>7, <2>8 DEF RunInv
<1> QED
  BY <1>2, <1>3, <1>4, <1>5 DEF IInv

LEMMA IInvKept ==
    ASSUME IInv, [Next]_vars
    PROVE  IInv'
<1>1. CASE Next
  <2>1. Typed /\ RunInv(run) /\ Resting /\ Memory
    BY DEF IInv
  <2>2. /\ RunInv(run')
        /\ sched' \in SchedType /\ owed' \in [Sources -> Nat] /\ Resting'
        /\ stored' \in Configs /\ negative' \in [AssrtKeys -> 0..NegativeTtl]
        /\ misses' \in [AssrtTexts -> 0..NegativeTtl] /\ Memory'
    BY <1>1, <2>1, RunInvKept, RestingKept, MemoryKept
  <2>3. Typed'
    BY <2>2 DEF Typed, SchedType
  <2> QED
    BY <2>2, <2>3 DEF IInv
<1>2. CASE UNCHANGED vars
  BY <1>2 DEF vars, IInv, Typed, Resting, Memory, RunInv
<1> QED
  BY <1>1, <1>2

LEMMA InvHolds == Spec => []IInv
BY Starts, IInvKept, PTL DEF Spec

-----------------------------------------------------------------------------
(* The theorems.                                                           *)

\* The state of the search keeps to its kind, counters within their limits:
\* what process_video_task, the registry and the adapters keep of a run, what
\* the scheduler and the memory of empty answers keep between runs.
THEOREM TypeCorrect == Spec => []TypeOK
<1>1. IInv => TypeOK
  <2> SUFFICES ASSUME IInv PROVE TypeOK
    OBVIOUS
  <2>1. Typed /\ run \in RunType /\ Partition(run) /\ run.used + run.batch <= MaxAttempts
    BY DEF IInv, RunInv, Sound
  <2>2. /\ run.conf \in Configs /\ run.request \in Requests /\ run.pc \in Stages
        /\ run.source \in Sources \cup {"none"} /\ run.found \in 0..MaxFound
        /\ run.timeouts \in 0..MAX_SEARCH_TIMEOUTS /\ run.rounds \in 0..CaptchaRounds
        /\ run.turn \in 1..Len(Solvers) /\ run.skipped \in 0..(Len(Solvers) - 1)
        /\ run.challenge \in {"none", "shown", "answered"}
        /\ run.truth \subseteq {"answered", "failed"}
        /\ run.used \in Nat /\ run.batch \in Nat
    BY <2>1 DEF RunType
  <2>3. ToSet(run.left) \cap run.searched = {}
    BY <2>1 DEF Partition
  <2>4. run.used + run.batch \in 0..MaxAttempts
    BY <2>1, <2>2, Limits
  <2>5. DOMAIN Solvers = 1..Len(Solvers)
    BY SearchAssumption
  <2>6. sched.interval \in [Sources -> Nat] /\ sched.cooldown \in [Sources -> Nat]
    BY <2>1 DEF Typed
  <2>7. /\ stored \in Configs /\ negative \in [AssrtKeys -> 0..NegativeTtl]
        /\ misses \in [AssrtTexts -> 0..NegativeTtl]
    BY <2>1 DEF Typed
  <2> QED
    BY <2>2, <2>3, <2>4, <2>5, <2>6, <2>7 DEF TypeOK, Stages
<1> QED
  BY <1>1, InvHolds, PTL

\* A task that gives up with attempts left has searched every source that was
\* enabled when it started (the loop of process_video_task and the registry,
\* which takes each source out of those that remain exactly once), and the
\* failure that is retried as an outage is named only when no search came to
\* its end (_search_failure_reason).
THEOREM GivesUpCorrectly == Spec => []GivesUpWithCause
<1>1. IInv => GivesUpWithCause
  <2> SUFFICES ASSUME IInv PROVE GivesUpWithCause
    OBVIOUS
  <2>1. run \in RunType /\ Partition(run) /\ Staged(run)
    BY DEF IInv, RunInv, Sound
  <2>2. run.outcome \in Failures \cup {"none", "completed"} /\ run.used \in Nat
    BY <2>1 DEF RunType
  <2>3. ASSUME run.outcome \notin {"none", "completed"}, run.used < MaxAttempts
        PROVE  run.searched = ToSet(run.conf.order)
    <3>1. run.left = <<>>
      BY <2>1, <2>2, <2>3, Limits DEF Staged
    <3>2. ToSet(run.left) = {}
      BY <3>1 DEF ToSet
    <3> QED
      BY <2>1, <3>2 DEF Partition
  <2>4. run.outcome = "all_providers_failed" => "answered" \notin run.truth
    BY <2>1 DEF Staged
  <2> QED
    BY <2>3, <2>4 DEF GivesUpWithCause
<1> QED
  BY <1>1, InvHolds, PTL

\* A page of Zimuku is given up as one that rejects every answer only after
\* every configured solver has been asked: CaptchaSolverChain begins with the
\* solver after the one that answered last, and _request asks for a page often
\* enough for each of them to have its turn.
THEOREM EverySolverAsked == Spec => []RejectedAfterEverySolver
<1>1. IInv => RejectedAfterEverySolver
  <2> SUFFICES ASSUME IInv, run.challenge = "answered", run.rounds = CaptchaRounds
               PROVE  run.asked = ToSet(Solvers)
    BY DEF RejectedAfterEverySolver
  <2>1. run \in RunType /\ Rotation(run)
    BY DEF IInv, RunInv, Sound
  <2>2. run.turn \in 1..Len(Solvers) /\ run.asked \subseteq ToSet(Solvers)
    BY <2>1 DEF RunType
  <2>3. Len(Solvers) \in Nat /\ Len(Solvers) <= 3 /\ DOMAIN Solvers = 1..Len(Solvers)
    <3>1. Solvers \in Seq(STRING) /\ Len(Solvers) \in 1..3
      BY SearchAssumption DEF CaptchaRounds
    <3>2. DOMAIN Solvers = 1..Len(Solvers)
      BY <3>1
    <3>3. \A n \in 1..3 : n \in Nat /\ n <= 3
      OBVIOUS
    <3> QED
      BY <3>1, <3>2, <3>3, Zenon
  <2>4. AnsweredRounds(run) = 3
    BY DEF AnsweredRounds, CaptchaRounds
  <2>5. ASSUME NEW j \in 1..Len(Solvers)
        PROVE  Solvers[j] \in run.asked
    <3>1. Distance(run.turn, j) >= 0 /\ Distance(run.turn, j) \in Int
      BY <2>2, <2>3 DEF Distance
    <3>2. ~ (Distance(run.turn, j) + 3 < Len(Solvers))
      BY <2>3, <3>1
    <3> QED
      BY <2>1, <2>4, <3>2 DEF Rotation
  <2>6. ToSet(Solvers) \subseteq run.asked
    BY <2>3, <2>5 DEF ToSet
  <2> QED
    BY <2>2, <2>6
<1> QED
  BY <1>1, InvHolds, PTL

\* A source is searched again only after the rest it was due when its last
\* search ended, in whatever task that was: ProviderSearchScheduler.acquire
\* takes no other, and mark_completed keeps it for the whole interval.
THEOREM IntervalKept == Spec => SourceIntervalKept
<1>1. ASSUME IInv, [Next]_vars
      PROVE  [\A p \in Sources : p \in run'.searched \ run.searched
                 => owed[p] = 0 \/ sched.interval[p] = 0]_vars
  <2> SUFFICES ASSUME NEW p \in Sources, p \in run'.searched \ run.searched
               PROVE  owed[p] = 0 \/ sched.interval[p] = 0
    OBVIOUS
  <2>1. Typed /\ RunInv(run) /\ Resting
    BY <1>1 DEF IInv
  <2>2. CASE UNCHANGED vars
    BY <2>2 DEF vars
  <2>3. CASE \E r \in Requests : StartTask(r)
    <3>1. run'.searched = {}
      BY <2>1, <2>3, NewRunSound DEF StartTask, Typed
    <3> QED
      BY <3>1
  <2>4. CASE \E c \in Configs : SaveSettings(c)
    BY <2>4 DEF SaveSettings
  <2>5. CASE Steps /\ ~SelectSource
    BY <2>1, <2>5, StepMoves DEF Moved
  <2>6. CASE Tick
    BY <2>1, <2>6, TickRun
  <2>7. CASE SelectSource
    <3>1. Ready(sched, p) /\ run.pc = "selecting"
      BY <2>1, <2>7, SelectsSource DEF SelectSource
    <3>2. owed[p] \in Nat /\ sched.cooldown[p] \in Nat
      BY <2>1 DEF Typed
    <3>3. owed[p] <= sched.cooldown[p]
      BY <2>1, <3>1 DEF Resting
    <3> QED
      BY <3>1, <3>2, <3>3 DEF Ready
  <2> QED
    BY <1>1, <2>2, <2>3, <2>4, <2>5, <2>6, <2>7 DEF Next
<1> QED
  BY <1>1, InvHolds, PTL DEF Spec, SourceIntervalKept

\* A query is left out only when the very same text found nothing at ASSRT less
\* than NegativeTtl ago: the key of ProviderNegativeCache names the query, so no
\* empty answer is shared with an episode, a season or a work that asks otherwise.
THEOREM NothingUsefulSkipped == Spec => NoUsefulQuerySkipped
<1>1. ASSUME IInv, AssrtSkipsQuery
      PROVE  misses[Queries[run.query]] < NegativeTtl
  <2> DEFINE query == Queries[run.query]
  <2>1. /\ run.request \in Requests /\ query \in ToSet(AssrtQueries(run.request))
        /\ negative[NegativeKey(run.request, query)] > 0
    BY <1>1, AskedQuery DEF IInv, AssrtSkipsQuery, AssrtKey
  <2> HIDE DEF query
  <2>2. /\ negative[NegativeKey(run.request, query)] \in 0..NegativeTtl
        /\ misses[query] \in 0..NegativeTtl /\ NegativeTtl \in Nat
    BY <1>1, <2>1, KeyKnown, Limits DEF IInv, Typed
  <2>3. misses[query] + negative[NegativeKey(run.request, query)] <= NegativeTtl
    BY <1>1, <2>1 DEF IInv, Memory
  <2>4. misses[query] < NegativeTtl
    BY <2>1, <2>2, <2>3
  <2> QED
    BY <2>4 DEF query
<1> QED
  BY <1>1, InvHolds, PTL DEF Spec, NoUsefulQuerySkipped

=============================================================================
