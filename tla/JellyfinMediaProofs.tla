------------------------ MODULE JellyfinMediaProofs ------------------------
(***************************************************************************)
(* Proofs about the table of media items, for any library, any number of   *)
(* scans at the same time and any page size: a row is removed only if its  *)
(* item was missing, no write is taken back, and what is shown as complete *)
(* is.                                                                     *)
(***************************************************************************)
EXTENDS JellyfinMediaProperties, FiniteSetTheorems, WellFoundedInduction, TLAPS

-----------------------------------------------------------------------------
(* The order of the items, and the pages a set of them is listed in.       *)

LEMMA LeastNatural ==
    ASSUME NEW S, S \subseteq Nat, S # {}
    PROVE  \E m \in S : \A n \in S : m =< n
<1> DEFINE R == {ss \in Nat \X Nat : ss[1] < ss[2]}
<1>1. IsWellFoundedOn(R, Nat)
  BY NatLessThanWellFounded DEF OpToRel
<1>2. \E m \in S : \A n \in S : ~ (<<n, m>> \in R)
  <2> HIDE DEF R
  <2> QED
    BY <1>1, WFMin
<1>3. PICK m \in S : \A n \in S : ~ (<<n, m>> \in R)
  BY <1>2
<1>4. ASSUME NEW n \in S
      PROVE  m =< n
  <2>1. m \in Nat /\ n \in Nat /\ ~ (<<n, m>> \in R)
    BY <1>3
  <2>2. ~ (n < m)
    BY <2>1
  <2> QED
    BY <2>1, <2>2
<1> QED
  BY <1>3, <1>4

Position(i) == CHOOSE n \in DOMAIN Order : Order[n] = i

LEMMA Positions ==
    /\ DOMAIN Order = 1..Len(Order) /\ Len(Order) \in Nat
    /\ \A i \in Items : Position(i) \in DOMAIN Order /\ Order[Position(i)] = i
    /\ \A n \in DOMAIN Order : Order[n] \in Items /\ Position(Order[n]) = n
<1>1. Order \in Seq(Items) /\ DOMAIN Order = 1..Len(Order) /\ Len(Order) \in Nat
  BY MediaAssumption
<1>2. \A i \in Items : \E n \in DOMAIN Order : Order[n] = i
  BY DEF Items, ToSet
<1>3. \A i \in Items : Position(i) \in DOMAIN Order /\ Order[Position(i)] = i
  BY <1>2 DEF Position
<1>4. \A n \in DOMAIN Order : Order[n] \in Items
  BY DEF Items, ToSet
<1>5. \A m, n \in DOMAIN Order : Order[m] = Order[n] => m = n
  BY MediaAssumption DEF IsInjective
<1> QED
  BY <1>1, <1>3, <1>4, <1>5

LEMMA BeforeAs ==
    ASSUME NEW i \in Items
    PROVE  Before[i] = {j \in Items : Position(j) < Position(i)}
<1>1. Before[i] = {j \in Items : \E m, n \in DOMAIN Order :
                                    m < n /\ Order[m] = j /\ Order[n] = i}
  BY DEF Before
<1>2. ASSUME NEW j \in Items, NEW m \in DOMAIN Order, NEW n \in DOMAIN Order,
             m < n, Order[m] = j, Order[n] = i
      PROVE  Position(j) < Position(i)
  BY <1>2, Positions
<1>3. ASSUME NEW j \in Items, Position(j) < Position(i)
      PROVE  \E m, n \in DOMAIN Order : m < n /\ Order[m] = j /\ Order[n] = i
  BY <1>3, Positions
<1> QED
  BY <1>1, <1>2, <1>3

LEMMA FiniteItems ==
    /\ IsFiniteSet(Items) /\ Cardinality(Items) \in Nat
    /\ Cardinality(Items) <= Len(Order)
    /\ \A S : S \subseteq Items => IsFiniteSet(S) /\ Cardinality(S) \in Nat
                                   /\ Cardinality(S) <= Cardinality(Items)
<1>1. Order \in [1..Len(Order) -> Items] /\ Len(Order) \in Nat
  BY MediaAssumption
<1>2. \A i \in Items : \E n \in 1..Len(Order) : Order[n] = i
  BY Positions
<1>3. ExistsSurjection(1..Len(Order), Items)
  BY <1>1, <1>2 DEF ExistsSurjection, Surjection
<1>4. IsFiniteSet(Items) /\ Cardinality(Items) <= Len(Order)
  BY <1>1, <1>3, FS_NatSurjection, FS_SurjCardinalityBound
<1>5. ASSUME NEW S, S \subseteq Items
      PROVE  IsFiniteSet(S) /\ Cardinality(S) \in Nat /\ Cardinality(S) <= Cardinality(Items)
  BY <1>4, <1>5, FS_Subset, FS_CardinalityType
<1> QED
  BY <1>4, <1>5

\* Some item of a set is before all others.
LEMMA SomeFirst ==
    ASSUME NEW S, S \subseteq Items, S # {}
    PROVE  \E i \in S : S \cap Before[i] = {}
<1> DEFINE places == {Position(i) : i \in S}
<1>1. places \subseteq Nat /\ places # {}
  BY Positions
<1>2. \E m \in places : \A n \in places : m <= n
  BY <1>1, LeastNatural
<1>3. PICK i \in S : \A j \in S : Position(i) <= Position(j)
  BY <1>2
<1>4. \A j \in S : ~ (Position(j) < Position(i))
  BY <1>3, Positions
<1> QED
  BY <1>4, BeforeAs

LEMMA Ranks ==
    ASSUME NEW S, S \subseteq Items, NEW i \in Items
    PROVE  /\ Rank(S, i) \in Nat /\ Rank(S, i) <= Cardinality(S)
           /\ i \in S => Rank(S, i) < Cardinality(S)
           /\ \A x \in Items : Rank(S, i) <= Rank(S \cup {x}, i)
           /\ \A j \in S : j \in Before[i] => Rank(S, j) < Rank(S, i)
<1> DEFINE B == S \cap Before[i]
<1>0. IsFiniteSet(S) /\ IsFiniteSet(B) /\ Cardinality(S) \in Nat /\ Cardinality(B) \in Nat
  BY FiniteItems
<1>1. Rank(S, i) = Cardinality(B)
  BY DEF Rank
<1>2. Cardinality(B) <= Cardinality(S) /\ (Cardinality(B) = Cardinality(S) => B = S)
  BY <1>0, FS_Subset
<1>3. i \notin Before[i]
  BY BeforeAs, Positions
<1>4. ASSUME NEW x \in Items
      PROVE  Rank(S, i) <= Rank(S \cup {x}, i)
  <2>1. IsFiniteSet((S \cup {x}) \cap Before[i]) /\ B \subseteq (S \cup {x}) \cap Before[i]
    BY FiniteItems
  <2> QED
    BY <2>1, <1>1, FS_Subset DEF Rank
<1>5. ASSUME NEW j \in S, j \in Before[i]
      PROVE  Rank(S, j) < Rank(S, i)
  <2> DEFINE A == S \cap Before[j]
  <2>1. j \in B /\ j \notin A /\ A \subseteq B
    BY <1>5, BeforeAs, Positions
  <2>2. IsFiniteSet(A) /\ Cardinality(A) \in Nat
    BY FiniteItems
  <2>3. Cardinality(A) <= Cardinality(B) /\ Cardinality(A) # Cardinality(B)
    BY <1>0, <2>1, FS_Subset
  <2> QED
    BY <1>0, <1>1, <2>2, <2>3 DEF Rank
<1> QED
  BY <1>0, <1>1, <1>2, <1>3, <1>4, <1>5

LEMMA RankIsInjective ==
    ASSUME NEW S, S \subseteq Items, NEW i \in S, NEW j \in S, Rank(S, i) = Rank(S, j)
    PROVE  i = j
<1>1. i \in Items /\ j \in Items
  OBVIOUS
<1>2. i \notin Before[j] /\ j \notin Before[i]
  <2>1. Rank(S, i) \in Nat /\ Rank(S, j) \in Nat
    BY <1>1, Ranks
  <2>2. j \in Before[i] => Rank(S, j) < Rank(S, i)
    BY <1>1, Ranks
  <2>3. i \in Before[j] => Rank(S, i) < Rank(S, j)
    BY <1>1, Ranks
  <2> QED
    BY <2>1, <2>2, <2>3
<1>3. Position(i) = Position(j)
  BY <1>1, <1>2, BeforeAs, Positions
<1> QED
  BY <1>1, <1>3, Positions

\* No more items than there are ranks for them.
LEMMA Counting ==
    ASSUME NEW S, S \subseteq Items, NEW T, T \subseteq S,
           NEW a \in Nat, NEW n \in Nat,
           \A i \in T : Rank(S, i) \in a..(a + n - 1)
    PROVE  Cardinality(T) \in Nat /\ Cardinality(T) <= n
<1> DEFINE I == a..(a + n - 1)
           f == [i \in T |-> Rank(S, i)]
<1>1. IsFiniteSet(I) /\ Cardinality(I) = n
  <2>1. a \in Int /\ a + n - 1 \in Int
    OBVIOUS
  <2> QED
    BY <2>1, FS_Interval
<1>2. f \in Injection(T, I)
  <2>1. f \in [T -> I]
    OBVIOUS
  <2>2. \A i, j \in T : f[i] = f[j] => i = j
    BY RankIsInjective
  <2> QED
    BY <2>1, <2>2 DEF Injection, IsInjective
<1>3. Cardinality(T) <= Cardinality(I)
  <2> HIDE DEF f, I
  <2> QED
    BY <1>1, <1>2, FS_Injection
<1> QED
  BY <1>1, <1>3, FiniteItems

\* The first item of a set, which is what First chooses.
LEMMA FirstIn ==
    ASSUME NEW S, S \subseteq Items, S # {}
    PROVE  First(S) \in S
<1>1. PICK i \in S : S \cap Before[i] = {}
  BY SomeFirst
<1>2. Rank(S, i) = 0
  BY <1>1, FS_EmptySet DEF Rank
<1> QED
  BY <1>2 DEF First

LEMMA SliceSize ==
    ASSUME NEW S, S \subseteq Items, NEW a \in Nat, NEW n \in Nat
    PROVE  LET c == Cardinality(Slice(S, a, n))
           IN  /\ c \in Nat /\ c <= n
               /\ a + c <= a \/ a + c <= Cardinality(S)
<1> DEFINE T == Slice(S, a, n)
           c == Cardinality(T)
<1>1. T \subseteq S /\ \A i \in T : Rank(S, i) \in a..(a + n - 1)
  BY DEF Slice
<1>2. c \in Nat /\ c <= n
  <2> HIDE DEF T
  <2> QED
    BY <1>1, Counting
<1>3. CASE T = {}
  BY <1>3, FS_EmptySet
<1>4. CASE T # {}
  <2>1. Cardinality(S) \in Nat /\ \A i \in T : Rank(S, i) \in Nat /\ Rank(S, i) < Cardinality(S)
    BY <1>1, FiniteItems, Ranks
  <2> DEFINE m == Cardinality(S) - a
  <2>2. m \in Nat
    <3>1. PICK i \in T : TRUE
      BY <1>4
    <3>2. Rank(S, i) \in Nat /\ a <= Rank(S, i) /\ Rank(S, i) < Cardinality(S)
      BY <1>1, <2>1
    <3> QED
      BY <2>1, <3>2
  <2>3. \A i \in T : Rank(S, i) \in a..(a + m - 1)
    BY <1>1, <2>1
  <2>4. c <= m
    <3> HIDE DEF T, m
    <3> QED
      BY <1>1, <2>2, <2>3, Counting
  <2> QED
    BY <1>2, <2>1, <2>4
<1> QED
  BY <1>2, <1>3, <1>4

\* What a page adds to the items listed: all up to its end, ...
LEMMA PageCovers ==
    ASSUME NEW S, S \subseteq Items, NEW a \in Nat, NEW n \in Nat, NEW i \in S,
           Rank(S, i) < a + Cardinality(Slice(S, a, n))
    PROVE  Rank(S, i) < a \/ i \in Slice(S, a, n)
<1>1. Cardinality(Slice(S, a, n)) \in Nat /\ Cardinality(Slice(S, a, n)) <= n
  BY SliceSize
<1>2. Rank(S, i) \in Nat
  BY Ranks
<1>3. Rank(S, i) \in a..(a + n - 1) => i \in Slice(S, a, n)
  BY DEF Slice
<1> QED
  BY <1>1, <1>2, <1>3

\* ... and an empty one is asked for behind the last item only.
LEMMA EmptyPage ==
    ASSUME NEW S, S \subseteq Items, NEW a \in Nat, NEW n \in Nat \ {0}, Slice(S, a, n) = {},
           NEW i \in S
    PROVE  Rank(S, i) < a
<1> SUFFICES ASSUME ~ (Rank(S, i) < a) PROVE FALSE
  OBVIOUS
<1> DEFINE U == {j \in S : ~ (Rank(S, j) < a)}
<1>1. PICK k \in U : U \cap Before[k] = {}
  <2>1. U \subseteq Items /\ U # {}
    OBVIOUS
  <2> HIDE DEF U
  <2> QED
    BY <2>1, SomeFirst
<1> DEFINE P == S \cap Before[k]
<1>2. \A j \in P : Rank(S, j) \in Nat /\ Rank(S, j) < a
  BY <1>1, Ranks
<1>3. \A j \in P : Rank(S, j) \in 0..(0 + a - 1)
  BY <1>2
<1>4. Cardinality(P) <= a
  <2>1. P \subseteq S
    OBVIOUS
  <2> HIDE DEF P
  <2> QED
    BY <1>3, <2>1, Counting
<1>5. Rank(S, k) = Cardinality(P) /\ Rank(S, k) \in Nat /\ ~ (Rank(S, k) < a)
  BY <1>1, Ranks DEF Rank
<1>6. Rank(S, k) \in a..(a + n - 1)
  <2> HIDE DEF P
  <2>1. \A r \in Nat : r <= a /\ ~ (r < a) => r \in a..(a + n - 1)
    OBVIOUS
  <2> QED
    BY <1>4, <1>5, <2>1
<1>7. k \in Slice(S, a, n)
  BY <1>1, <1>6 DEF Slice
<1> QED
  BY <1>7

-----------------------------------------------------------------------------
(* The inductive invariant.                                                *)

ScanStages == {"idle", "listing", "looking", "inserting", "updating", "writing"}
WorkerStages == {"idle", "placing", "marking", "refreshing", "getting"}
SeenType == [status : Statuses, external : BOOLEAN]
Table == [Items -> RowType]
ScanType ==
    [pc : ScanStages, start : 0..Len(Order), listed : SUBSET Items, streams : SUBSET Items,
     left : SUBSET Items, first : Items \cup {NoItem}, read : RowType,
     seen : SeenType \cup {NoRow}, absent : SUBSET Items, shifted : BOOLEAN]

BudgetType == [scans : Nat, tasks : Nat, changes : Nat, requests : Nat, crashes : Nat]

Typed ==
    /\ library \subseteq Items /\ noticed \subseteq Playable
    /\ disk \subseteq Playable /\ dropped \subseteq Playable
    /\ rows \in Table
    /\ txn \in [owner : Scanners \cup {"worker", Nobody}, rows : Table \cup {<<>>}]
    /\ scan \in [Scanners -> ScanType]
    /\ worker \in [pc : WorkerStages, item : Playable \cup {NoItem}, linked : BOOLEAN]
    /\ budget \in BudgetType

\* The transaction is that of the scan or the worker that is writing.
Owned ==
    /\ txn.owner # Nobody => txn.rows \in Table
    /\ \A s \in Scanners : scan[s].pc = "writing" <=> txn.owner = s
    /\ worker.pc # "idle" <=> txn.owner = "worker"

\* Where a scan is, and what it has listed: as long as no page was shifted, whatever was
\* in the library all the time and comes before the next page, and in the end all of it.
ScanSound(r) ==
    /\ r.streams \subseteq r.listed /\ r.left \subseteq r.listed
    /\ r.pc \in {"inserting", "updating"} =>
          /\ r.first \in r.left /\ r.seen \in SeenType
          /\ r.pc = "updating" <=> r.read # NoRow
    /\ r.pc = "listing" =>
          /\ Items \ library \subseteq r.absent
          /\ r.shifted \/ \A i \in library \ r.absent : Rank(library, i) < r.start => i \in r.listed
    /\ r.pc \notin {"idle", "listing"} => r.shifted \/ Items \ r.absent \subseteq r.listed

Has == disk \cup Embedded \cup dropped

\* A table says of no item that it has a subtitle which it never had, and that a path which
\* can be read is lost only of items that have, or had, a subtitle beside them.
Truthful(table) ==
    \A i \in Playable :
        /\ table[i].status # "unknown"
        /\ table[i].status = "has_chinese" => i \in Has
        /\ table[i].status = "path_missing" /\ Path[i] # "missing" => i \in disk \cup dropped

\* What a scan has seen of an item takes nothing back: unless a subtitle was deleted since,
\* it is that the item has a subtitle, or what the row said at that time.
SeenSound(r) ==
    /\ r.streams \subseteq disk \cup dropped
    /\ r.pc \in {"inserting", "updating"} /\ r.first \in Playable =>
          /\ r.seen.status # "unknown"
          /\ r.seen.status = "has_chinese" => r.first \in Has
          /\ r.seen.status = "path_missing" => Path[r.first] = "missing"
          /\ r.pc = "updating" /\ r.first \notin dropped /\ Path[r.first] # "missing"
                => r.seen.status \in {r.read.status, "has_chinese"}

\* A placed file is there until the worker has committed.
Placed ==
    /\ noticed \subseteq disk \cup dropped
    /\ \A i \in disk : Path[i] # "missing"
    /\ worker.pc # "idle" => worker.item \in Playable /\ Path[worker.item] # "missing"
    /\ worker.pc \in {"marking", "refreshing", "getting"} => worker.item \in disk
    /\ worker.pc = "placing" => txn.rows = rows

\* What the commit of a transaction would do to a row.
KeepsRow(table, i) ==
    /\ Exists(table, i) /\ table[i].ignored = rows[i].ignored
    /\ i \in disk \ dropped /\ rows[i].status = "has_chinese"
          => table[i].status = "has_chinese" \/ (worker.item = i /\ Path[i] # "shared")

Keeping == txn.owner # Nobody => \A i \in Items : Exists(rows, i) => KeepsRow(txn.rows, i)

IInv ==
    /\ Typed /\ Owned /\ Placed /\ Keeping
    /\ \A s \in Scanners : ScanSound(scan[s]) /\ SeenSound(scan[s])
    /\ Truthful(rows) /\ (txn.owner # Nobody => Truthful(txn.rows))

-----------------------------------------------------------------------------
(* Rows and tables.                                                        *)

RowRecord == [status : Statuses, external : BOOLEAN, ignored : BOOLEAN]

LEMMA RowTypes ==
    /\ NoRow \in RowType /\ NoRow.status = "none" /\ NoRow.ignored = FALSE
    /\ \A row \in RowType :
          /\ row.status \in Statuses \cup {"none"}
          /\ row.external \in BOOLEAN /\ row.ignored \in BOOLEAN
          /\ row = [status |-> row.status, external |-> row.external, ignored |-> row.ignored]
          /\ row # NoRow <=> row.status # "none"
    /\ \A row \in RowRecord : row \in RowType /\ row # NoRow
<1>1. /\ NoRow = [status |-> "none", external |-> FALSE, ignored |-> FALSE]
      /\ NoRow.status = "none" /\ NoRow.external = FALSE /\ NoRow.ignored = FALSE
  BY DEF NoRow, Row
<1>2. "none" \notin Statuses
  BY DEF Statuses
<1>3. RowType = RowRecord \cup {NoRow}
  BY DEF RowType, RowRecord
<1>4. ASSUME NEW row \in RowRecord
      PROVE  /\ row.status \in Statuses /\ row.external \in BOOLEAN /\ row.ignored \in BOOLEAN
             /\ row = [status |-> row.status, external |-> row.external, ignored |-> row.ignored]
  BY DEF RowRecord
<1> QED
  BY <1>1, <1>2, <1>3, <1>4

LEMMA RowChanged ==
    ASSUME NEW a, NEW b, NEW c, NEW row,
           row = [status |-> a, external |-> b, ignored |-> c]
    PROVE  /\ \A x : [row EXCEPT !.status = x] = [status |-> x, external |-> b, ignored |-> c]
           /\ \A x : [row EXCEPT !.external = x] = [status |-> a, external |-> x, ignored |-> c]
           /\ \A x : [row EXCEPT !.ignored = x] = [status |-> a, external |-> b, ignored |-> x]
OBVIOUS

\* What Upsert makes of the row it writes, and that it writes no other.
LEMMA Upserted ==
    ASSUME NEW table \in Table, NEW i \in Items, NEW read \in RowType, NEW seen \in SeenType,
           Exists(table, i) \/ read = NoRow
    PROVE  LET t == Upsert(table, i, read, seen)
           IN  /\ t \in Table
               /\ \A j \in Items \ {i} : t[j] = table[j]
               /\ Exists(t, i) /\ t[i].ignored = table[i].ignored
               /\ t[i].status = IF seen.status = read.status THEN table[i].status
                                ELSE seen.status
<1> DEFINE status == IF seen.status = read.status THEN table[i].status ELSE seen.status
           ext == IF seen.external = read.external THEN table[i].external ELSE seen.external
           row == [status |-> status, external |-> ext, ignored |-> table[i].ignored]
<1>1. table[i] \in RowType /\ seen.status \in Statuses /\ seen.external \in BOOLEAN
  BY DEF Table, SeenType
<1>2. /\ table[i] = [status |-> table[i].status, external |-> table[i].external,
                    ignored |-> table[i].ignored]
      /\ table[i].external \in BOOLEAN /\ table[i].ignored \in BOOLEAN
  BY <1>1, RowTypes
<1>3. Upsert(table, i, read, seen) = [table EXCEPT ![i] = row]
  <2> DEFINE old == table[i]
  <2>1. Upsert(table, i, read, seen)
          = [table EXCEPT ![i] = [[old EXCEPT !.status = status] EXCEPT !.external = ext]]
    BY DEF Upsert, Table
  <2>2. [[old EXCEPT !.status = status] EXCEPT !.external = ext] = row
    <3> HIDE DEF status, ext, old
    <3>1. [old EXCEPT !.status = status]
            = [status |-> status, external |-> old.external, ignored |-> old.ignored]
      BY <1>2, RowChanged DEF old
    <3> DEFINE mid == [old EXCEPT !.status = status]
    <3>2. mid = [status |-> status, external |-> old.external, ignored |-> old.ignored]
      BY <3>1
    <3> HIDE DEF mid
    <3>3. [mid EXCEPT !.external = ext]
            = [status |-> status, external |-> ext, ignored |-> old.ignored]
      BY <3>2, RowChanged
    <3> QED
      BY <3>3 DEF row, old, mid
  <2> QED
    BY <2>1, <2>2
<1>4. status \in Statuses
  <2>1. CASE Exists(table, i)
    BY <1>1, <2>1, RowTypes DEF Exists
  <2>2. CASE read = NoRow
    BY <1>1, <2>2, RowTypes DEF Statuses
  <2> QED
    BY <2>1, <2>2
<1>5. row \in RowType /\ row # NoRow
  <2>1. ext \in BOOLEAN
    BY <1>1, <1>2
  <2>2. row \in RowRecord
    BY <1>2, <1>4, <2>1 DEF RowRecord
  <2> QED
    BY <2>2, RowTypes
<1>6. row.ignored = table[i].ignored /\ row.status = status
  OBVIOUS
<1> HIDE DEF row
<1>7. [table EXCEPT ![i] = row] \in Table /\ [table EXCEPT ![i] = row][i] = row
      /\ \A j \in Items \ {i} : [table EXCEPT ![i] = row][j] = table[j]
  BY <1>5 DEF Table
<1> QED
  BY <1>3, <1>5, <1>6, <1>7 DEF Exists

LEMMA Rewritten ==
    ASSUME NEW table \in Table, NEW i \in Items, NEW seen \in SeenType
    PROVE  LET t == Rewrite(table, i, seen)
           IN  /\ t \in Table
               /\ \A j \in Items \ {i} : t[j] = table[j]
               /\ Exists(t, i) /\ t[i].ignored = table[i].ignored
               /\ t[i].status = seen.status
<1>1. table[i] \in RowType
  BY DEF Table
<1>2. Exists(table, i) \/ table[i] = NoRow
  BY DEF Exists
<1> QED
  BY <1>1, <1>2, Upserted DEF Rewrite

LEMMA StateUpdated ==
    ASSUME NEW table \in Table, NEW i \in Items, NEW seen \in SeenType
    PROVE  LET t == UpdateState(table, i, seen)
           IN  /\ t \in Table
               /\ \A j \in Items \ {i} : t[j] = table[j]
               /\ \/ t = table
                  \/ Exists(t, i) /\ t[i].ignored = table[i].ignored /\ t[i].status = seen.status
BY Rewritten DEF UpdateState

LEMMA Detected ==
    ASSUME NEW i \in Playable, NEW streams, NEW resolved \in BOOLEAN
    PROVE  LET seen == Detect(i, streams, resolved)
           IN  /\ seen \in SeenType /\ seen.status \in {"has_chinese", "missing", "path_missing"}
               /\ seen.status = "has_chinese" <=>
                     i \in streams \/ (Readable(i, resolved) /\ i \in disk) \/ i \in Embedded
               /\ seen.status = "path_missing" => ~Readable(i, resolved)
BY DEF Detect, SeenType, Statuses

LEMMA Resolved ==
    ASSUME NEW i \in Playable
    PROVE  /\ Path[i] \in {"shared", "mapped", "missing"}
           /\ Readable(i, TRUE) <=> Path[i] # "missing"
           /\ Path[i] = "shared" => Readable(i, FALSE)
BY MediaAssumption DEF Readable

-----------------------------------------------------------------------------
(* Scans that only read.                                                   *)

LEMMA Spent ==
    ASSUME budget \in BudgetType,
           NEW what \in {"scans", "tasks", "changes", "requests", "crashes"}, NEW limit,
           Spend(what, limit)
    PROVE  /\ budget' \in BudgetType
           /\ what = "requests" => budget'.requests = budget.requests + 1
BY DEF Spend, BudgetType

LEMMA ScanChanged ==
    ASSUME NEW r \in ScanType
    PROVE  /\ \A x \in ScanStages : [r EXCEPT !.pc = x] \in ScanType
           /\ \A x \in 0..Len(Order) : [r EXCEPT !.start = x] \in ScanType
           /\ \A x \in SUBSET Items : /\ [r EXCEPT !.listed = x] \in ScanType
                                     /\ [r EXCEPT !.streams = x] \in ScanType
                                     /\ [r EXCEPT !.left = x] \in ScanType
                                     /\ [r EXCEPT !.absent = x] \in ScanType
           /\ \A x \in Items \cup {NoItem} : [r EXCEPT !.first = x] \in ScanType
           /\ \A x \in RowType : [r EXCEPT !.read = x] \in ScanType
           /\ \A x \in SeenType \cup {NoRow} : [r EXCEPT !.seen = x] \in ScanType
           /\ \A x \in BOOLEAN : [r EXCEPT !.shifted = x] \in ScanType
<1> DEFINE Ls == 0..Len(Order)
<1> DEFINE Ss == SeenType \cup {NoRow}
<1>1. ScanType = [pc : ScanStages, start : Ls, listed : SUBSET Items, streams : SUBSET Items,
     left : SUBSET Items, first : Items \cup {NoItem}, read : RowType,
     seen : Ss, absent : SUBSET Items, shifted : BOOLEAN]
  BY DEF ScanType
<1> HIDE DEF Ls, Ss
<1>2. /\ \A x \in ScanStages : [r EXCEPT !.pc = x] \in ScanType
      /\ \A x \in Ls : [r EXCEPT !.start = x] \in ScanType
  BY <1>1
<1>3. \A x \in SUBSET Items : /\ [r EXCEPT !.listed = x] \in ScanType
                             /\ [r EXCEPT !.streams = x] \in ScanType
  BY <1>1
<1>4. \A x \in SUBSET Items : /\ [r EXCEPT !.left = x] \in ScanType
                             /\ [r EXCEPT !.absent = x] \in ScanType
  BY <1>1
<1>5. \A x \in Items \cup {NoItem} : [r EXCEPT !.first = x] \in ScanType
  BY <1>1
<1>6. \A x \in RowType : [r EXCEPT !.read = x] \in ScanType
  BY <1>1
<1>7. \A x \in Ss : [r EXCEPT !.seen = x] \in ScanType
  BY <1>1
<1>8. \A x \in BOOLEAN : [r EXCEPT !.shifted = x] \in ScanType
  BY <1>1
<1> QED
  BY <1>2, <1>3, <1>4, <1>5, <1>6, <1>7, <1>8 DEF Ls, Ss

LEMMA NoScanSound ==
    /\ NoScan \in ScanType /\ NoScan.pc = "idle" /\ ScanSound(NoScan) /\ SeenSound(NoScan)
<1>1. NoScan.pc = "idle" /\ NoScan.listed = {} /\ NoScan.streams = {} /\ NoScan.left = {}
  BY DEF NoScan
<1>2. NoScan \in ScanType
  <2>1. 0 \in 0..Len(Order) /\ NoRow \in RowType
    BY Positions, RowTypes
  <2> QED
    BY <2>1 DEF NoScan, ScanType, ScanStages
<1> QED
  BY <1>1, <1>2 DEF ScanSound, SeenSound

\* A scan that changes nothing but where it is itself.
LEMMA ReadingKeeps ==
    ASSUME IInv, NEW s \in Scanners, NEW r \in ScanType, scan' = [scan EXCEPT ![s] = r],
           ScanSound(r), SeenSound(r), r.pc # "writing", scan[s].pc # "writing",
           UNCHANGED <<external, rows, txn, worker>>, budget' \in BudgetType
    PROVE  IInv'
<1>1. Typed' /\ Owned' /\ Placed' /\ Keeping'
  <2>1. Typed'
    BY DEF IInv, Typed, external
  <2>2. Owned'
    BY DEF IInv, Typed, Owned
  <2>3. Placed' /\ Keeping'
    BY DEF IInv, Placed, Keeping, KeepsRow, external
  <2> QED
    BY <2>1, <2>2, <2>3
<1>2. Truthful(rows)' /\ (txn.owner # Nobody => Truthful(txn.rows))'
  BY DEF IInv, Truthful, Has, external
<1>3. ASSUME NEW u \in Scanners
      PROVE  ScanSound(scan'[u]) /\ SeenSound(scan'[u])
  BY <1>3 DEF IInv, Typed
<1>4. \A u \in Scanners : ScanSound(scan[u])' /\ SeenSound(scan[u])'
  BY <1>3 DEF ScanSound, SeenSound, Has, external
<1> QED
  BY <1>1, <1>2, <1>4 DEF IInv

LEMMA BeginScanKeeps ==
    ASSUME IInv, NEW s \in Scanners, BeginScan(s)
    PROVE  IInv'
<1> DEFINE r == [NoScan EXCEPT !.pc = "listing", !.absent = Items \ library]
<1>1. /\ r.pc = "listing" /\ r.start = 0 /\ r.listed = {} /\ r.streams = {} /\ r.left = {}
      /\ r.absent = Items \ library
  BY DEF NoScan
<1>2. r \in ScanType
  <2> DEFINE m == [NoScan EXCEPT !.pc = "listing"]
  <2>1. m \in ScanType
    BY NoScanSound, ScanChanged DEF ScanStages
  <2>2. r = [m EXCEPT !.absent = Items \ library]
    OBVIOUS
  <2> HIDE DEF m
  <2> QED
    BY <2>1, <2>2, ScanChanged
<1>3. scan' = [scan EXCEPT ![s] = r] /\ UNCHANGED <<external, rows, txn, worker>>
      /\ budget' \in BudgetType /\ scan[s].pc # "writing"
  BY Spent DEF BeginScan, IInv, Typed
<1> HIDE DEF r
<1>4. ScanSound(r)
  <2>1. \A i \in library : ~ (Rank(library, i) < 0)
    <3>1. library \subseteq Items
      BY DEF IInv, Typed
    <3>2. ASSUME NEW i \in library PROVE Rank(library, i) \in Nat
      BY <3>1, Ranks
    <3> QED
      BY <3>2
  <2> QED
    BY <1>1, <2>1 DEF ScanSound
<1>5. SeenSound(r)
  BY <1>1 DEF SeenSound
<1> QED
  BY <1>1, <1>2, <1>3, <1>4, <1>5, ReadingKeeps

LEMMA EndScanKeeps ==
    ASSUME IInv, NEW s \in Scanners, EndScan(s), scan[s].pc # "writing",
           UNCHANGED <<external, rows, txn, worker, budget>>
    PROVE  IInv'
BY NoScanSound, ReadingKeeps DEF EndScan, IInv, Typed

\* The pages of a library, whichever it is at the time.
LEMMA PageRead ==
    ASSUME library \subseteq Items, NEW a \in 0..Len(Order)
    PROVE  /\ Page(a) \subseteq library /\ NextPage(a) \in 0..Len(Order)
           /\ \A i \in library : Rank(library, i) < NextPage(a) => Rank(library, i) < a \/ i \in Page(a)
           /\ LastPage(a) => \A i \in library : Rank(library, i) < NextPage(a)
<1>0. PageSize \in Nat \ {0} /\ PageSize \in Nat /\ a \in Nat /\ Len(Order) \in Nat /\ a <= Len(Order)
  BY MediaAssumption, Positions
<1> DEFINE c == Cardinality(Page(a))
<1>1. Page(a) = Slice(library, a, PageSize)
  BY DEF Page
<1>2. Page(a) \subseteq library
  BY <1>1 DEF Slice
<1>3. c \in Nat /\ (a + c <= a \/ a + c <= Cardinality(library))
  BY <1>0, <1>1, SliceSize
<1>4. Cardinality(library) \in Nat /\ Cardinality(library) <= Len(Order)
  BY <1>0, FiniteItems
<1>5. NextPage(a) = a + c
  BY DEF NextPage
<1>6. ASSUME NEW i \in library, Rank(library, i) < a + c
      PROVE  Rank(library, i) < a \/ i \in Page(a)
  BY <1>0, <1>1, <1>6, PageCovers
<1>7. ASSUME LastPage(a), NEW i \in library
      PROVE  Rank(library, i) < a + c
  <2>1. Rank(library, i) \in Nat /\ Rank(library, i) < Cardinality(library)
    BY Ranks
  <2>2. CASE NextPage(a) >= Cardinality(library)
    <3> HIDE DEF c
    <3> QED
      BY <1>0, <1>3, <1>4, <1>5, <2>1, <2>2
  <2>3. CASE Page(a) = {}
    <3>1. Rank(library, i) < a
      BY <1>0, <1>1, <2>3, EmptyPage
    <3> HIDE DEF c
    <3> QED
      BY <1>0, <1>3, <2>1, <3>1
  <2> QED
    BY <1>7, <2>2, <2>3 DEF LastPage
<1>8. a + c \in 0..Len(Order)
  <2> HIDE DEF c
  <2> QED
    BY <1>0, <1>3, <1>4
<1> QED
  BY <1>2, <1>5, <1>6, <1>7, <1>8

LEMMA ListPageKeeps ==
    ASSUME IInv, NEW s \in Scanners, ListPage(s)
    PROVE  IInv'
<1> DEFINE old == scan[s]
           page == Page(old.start)
           all == old.listed \cup page
           last == LastPage(old.start)
           pc == IF last THEN "looking" ELSE "listing"
           start == NextPage(old.start)
           streams == (old.streams \ page) \cup (page \cap noticed)
           left == IF last THEN all ELSE {}
           r == [old EXCEPT !.pc = pc, !.start = start, !.listed = all,
                            !.streams = streams, !.left = left]
<1>1. /\ old \in ScanType /\ old.pc = "listing" /\ scan' = [scan EXCEPT ![s] = r]
      /\ UNCHANGED <<external, rows, txn, worker>> /\ budget' \in BudgetType
      /\ library \subseteq Items /\ noticed \subseteq disk \cup dropped
      /\ ScanSound(old) /\ SeenSound(old)
  <2>1. old.pc = "listing" /\ UNCHANGED <<external, rows, txn, worker, budget>>
    BY DEF ListPage
  <2>2. scan' = [scan EXCEPT ![s] = r]
    BY DEF ListPage
  <2>3. /\ old \in ScanType /\ budget \in BudgetType /\ library \subseteq Items
        /\ noticed \subseteq disk \cup dropped /\ ScanSound(old) /\ SeenSound(old)
    <3> HIDE DEF r
    <3> QED
      BY DEF IInv, Typed, Placed
  <2> HIDE DEF r, old
  <2> QED
    BY <2>1, <2>2, <2>3
<1>2. /\ old.start \in 0..Len(Order) /\ old.listed \subseteq Items /\ old.streams \subseteq Items
      /\ old.absent \subseteq Items /\ old.shifted \in BOOLEAN
  BY <1>1 DEF ScanType
<1> HIDE DEF old
<1>3. /\ page \subseteq library /\ start \in 0..Len(Order)
      /\ \A i \in library : Rank(library, i) < start => Rank(library, i) < old.start \/ i \in page
      /\ last => \A i \in library : Rank(library, i) < start
  BY <1>1, <1>2, PageRead
<1>4. /\ pc \in ScanStages /\ all \subseteq Items /\ streams \subseteq Items /\ left \subseteq Items
      /\ streams \subseteq all /\ left \subseteq all /\ streams \subseteq disk \cup dropped
  BY <1>1, <1>2, <1>3 DEF ScanStages, ScanSound, SeenSound
<1>5. pc \in {"looking", "listing"} /\ (pc = "looking" <=> last)
  OBVIOUS
<1> HIDE DEF page, all, last, pc, start, streams, left
<1>6. r \in ScanType
  <2> DEFINE r1 == [old EXCEPT !.pc = pc]
             r2 == [r1 EXCEPT !.start = start]
             r3 == [r2 EXCEPT !.listed = all]
             r4 == [r3 EXCEPT !.streams = streams]
  <2>1. r = [r4 EXCEPT !.left = left]
    OBVIOUS
  <2>2. r1 \in ScanType
    BY <1>1, <1>4, ScanChanged
  <2> HIDE DEF r1
  <2>3. r2 \in ScanType
    BY <1>3, <2>2, ScanChanged
  <2> HIDE DEF r2
  <2>4. r3 \in ScanType
    BY <1>4, <2>3, ScanChanged
  <2> HIDE DEF r3
  <2>5. r4 \in ScanType
    BY <1>4, <2>4, ScanChanged
  <2> HIDE DEF r4
  <2> QED
    BY <1>4, <2>1, <2>5, ScanChanged
<1>7. /\ r.pc = pc /\ r.start = start /\ r.listed = all /\ r.streams = streams /\ r.left = left
      /\ r.absent = old.absent /\ r.shifted = old.shifted
  BY <1>1 DEF ScanType
<1> HIDE DEF r
<1>8. SeenSound(r)
  BY <1>4, <1>5, <1>7 DEF SeenSound
<1>9. ScanSound(r)
  <2>1. Items \ library \subseteq old.absent
    BY <1>1 DEF ScanSound
  <2>2. ASSUME ~old.shifted, NEW i \in library \ old.absent, Rank(library, i) < start
        PROVE  i \in all
    <3>1. Rank(library, i) < old.start => i \in old.listed
      BY <1>1, <2>2 DEF ScanSound
    <3> QED
      BY <1>3, <2>2, <3>1 DEF all
  <2>3. last /\ ~old.shifted => Items \ old.absent \subseteq all
    BY <1>3, <2>1, <2>2
  <2> QED
    BY <1>4, <1>5, <1>7, <2>1, <2>2, <2>3 DEF ScanSound
<1> QED
  BY <1>1, <1>5, <1>6, <1>7, <1>8, <1>9, ReadingKeeps DEF old

\* What is seen of an item, in a scan that has its streams from Jellyfin.
LEMMA SeenNow ==
    ASSUME IInv, NEW s \in Scanners, NEW i \in Items
    PROVE  LET seen == Seen(s, i)
           IN  /\ seen \in SeenType
               /\ i \in Playable =>
                     /\ seen.status # "unknown"
                     /\ seen.status = "has_chinese" => i \in Has
                     /\ seen.status = "path_missing" => Path[i] = "missing"
                     /\ i \in disk /\ Path[i] # "missing" => seen.status = "has_chinese"
                     /\ i \in Embedded => seen.status = "has_chinese"
<1> DEFINE seen == Seen(s, i)
<1>1. CASE i \in Series
  <2>1. seen = [status |-> "unknown", external |-> FALSE]
    BY <1>1 DEF Seen
  <2> QED
    BY <1>1, <2>1 DEF SeenType, Statuses, Playable
<1>2. CASE i \notin Series
  <2>1. i \in Playable /\ seen = Detect(i, scan[s].streams, TRUE)
    BY <1>2 DEF Seen, Playable
  <2>2. scan[s].streams \subseteq disk \cup dropped
    BY DEF IInv, SeenSound
  <2>3. Readable(i, TRUE) <=> Path[i] # "missing"
    BY <2>1, Resolved
  <2>4. /\ seen \in SeenType /\ seen.status \in {"has_chinese", "missing", "path_missing"}
        /\ seen.status = "has_chinese" <=>
             i \in scan[s].streams \/ (Readable(i, TRUE) /\ i \in disk) \/ i \in Embedded
        /\ seen.status = "path_missing" => ~Readable(i, TRUE)
    <3> HIDE DEF seen
    <3> DEFINE d == Detect(i, scan[s].streams, TRUE)
    <3>1. /\ d \in SeenType /\ d.status \in {"has_chinese", "missing", "path_missing"}
          /\ d.status = "has_chinese" <=>
               i \in scan[s].streams \/ (Readable(i, TRUE) /\ i \in disk) \/ i \in Embedded
          /\ d.status = "path_missing" => ~Readable(i, TRUE)
      <4>1. /\ Readable(i, TRUE) \in BOOLEAN
        BY DEF Readable
      <4> QED
        BY <2>1, <4>1 DEF Detect, SeenType, Statuses
    <3> HIDE DEF d
    <3>2. seen = d
      BY <2>1 DEF d
    <3> QED
      BY <3>1, <3>2
  <2> HIDE DEF seen
  <2>5. /\ i \in Playable
        /\ seen \in SeenType /\ seen.status # "unknown"
        /\ seen.status = "has_chinese" => i \in Has
        /\ seen.status = "path_missing" => Path[i] = "missing"
        /\ i \in disk /\ Path[i] # "missing" => seen.status = "has_chinese"
        /\ i \in Embedded => seen.status = "has_chinese"
    BY <2>1, <2>2, <2>3, <2>4 DEF Has
  <2> QED
    BY <2>5 DEF seen
<1> QED
  BY <1>1, <1>2

LEMMA LookKeeps ==
    ASSUME IInv, NEW s \in Scanners, Look(s)
    PROVE  IInv'
<1> DEFINE old == scan[s]
           i == First(old.left)
           pc == IF Exists(rows, i) THEN "updating" ELSE "inserting"
           seen == Seen(s, i)
           row == rows[i]
           r == [old EXCEPT !.pc = pc, !.first = i, !.read = row, !.seen = seen]
<1>1. /\ old.pc = "looking" /\ old.left # {} /\ scan' = [scan EXCEPT ![s] = r]
      /\ UNCHANGED <<external, rows, txn, worker, budget>>
  BY DEF Look
<1>2. old \in ScanType /\ budget \in BudgetType /\ ScanSound(old) /\ SeenSound(old)
      /\ rows \in Table
  <2> HIDE DEF r
  <2> QED
    BY DEF IInv, Typed
<1>3. i \in old.left /\ i \in Items
  <2>1. old.left \subseteq Items
    BY <1>2 DEF ScanType
  <2> HIDE DEF old
  <2> QED
    BY <1>1, <2>1, FirstIn
<1>4. /\ seen \in SeenType
      /\ i \in Playable =>
            /\ seen.status # "unknown"
            /\ seen.status = "has_chinese" => i \in Has
            /\ seen.status = "path_missing" => Path[i] = "missing"
            /\ i \in disk /\ Path[i] # "missing" => seen.status = "has_chinese"
            /\ i \in Embedded => seen.status = "has_chinese"
  <2> HIDE DEF i
  <2> QED
    BY <1>3, SeenNow
<1>5. /\ row \in RowType /\ pc \in {"inserting", "updating"} /\ (pc = "updating" <=> row # NoRow)
  <2> HIDE DEF i
  <2> QED
    BY <1>2, <1>3 DEF Table, Exists
<1>6. ASSUME i \in Playable, pc = "updating", i \notin dropped, Path[i] # "missing"
      PROVE  seen.status \in {row.status, "has_chinese"}
  <2>1. /\ row.status # "unknown"
        /\ row.status = "has_chinese" => i \in Has
        /\ row.status = "path_missing" => i \in disk \cup dropped
    <3> HIDE DEF i
    <3> QED
      BY <1>6 DEF IInv, Truthful
  <2>2. row.status \in Statuses
    BY <1>5, <1>6, RowTypes
  <2>3. seen.status \in Statuses
    BY <1>4 DEF SeenType
  <2> HIDE DEF i, row, seen, pc
  <2> QED
    BY <1>4, <1>6, <2>1, <2>2, <2>3 DEF Statuses, Has
<1> HIDE DEF i, pc, seen, row
<1>7. r \in ScanType
  <2> DEFINE r1 == [old EXCEPT !.pc = pc]
             r2 == [r1 EXCEPT !.first = i]
             r3 == [r2 EXCEPT !.read = row]
  <2>1. r = [r3 EXCEPT !.seen = seen]
    OBVIOUS
  <2> HIDE DEF old, r
  <2>2. r1 \in ScanType
    BY <1>2, <1>5, ScanChanged DEF ScanStages
  <2> HIDE DEF r1
  <2>3. r2 \in ScanType
    BY <1>3, <2>2, ScanChanged
  <2> HIDE DEF r2
  <2>4. r3 \in ScanType
    BY <1>5, <2>3, ScanChanged
  <2> HIDE DEF r3
  <2> QED
    BY <1>4, <2>1, <2>4, ScanChanged
<1>8. /\ r.pc = pc /\ r.first = i /\ r.read = row /\ r.seen = seen
      /\ r.listed = old.listed /\ r.streams = old.streams /\ r.left = old.left
      /\ r.absent = old.absent /\ r.shifted = old.shifted
  <2> HIDE DEF old
  <2> QED
    BY <1>2 DEF ScanType
<1> HIDE DEF old, r
<1>9. ScanSound(r)
  BY <1>1, <1>2, <1>3, <1>4, <1>5, <1>8 DEF ScanSound
<1>10. SeenSound(r)
  BY <1>2, <1>4, <1>5, <1>6, <1>8 DEF SeenSound
<1>11. r.pc # "writing" /\ old.pc # "writing" /\ budget' \in BudgetType
  BY <1>1, <1>2, <1>5, <1>8
<1> QED
  BY <1>1, <1>7, <1>9, <1>10, <1>11, ReadingKeeps DEF old

-----------------------------------------------------------------------------
(* Scans that write.                                                       *)

LEMMA ScanWriting ==
    ASSUME NEW old \in ScanType, ScanSound(old), SeenSound(old),
           NEW left \in SUBSET old.left, old.pc \notin {"idle", "listing"}
    PROVE  LET r == [old EXCEPT !.pc = "writing", !.left = left, !.first = NoItem,
                                !.read = NoRow, !.seen = NoRow]
           IN  r \in ScanType /\ ScanSound(r) /\ SeenSound(r) /\ r.pc = "writing"
<1> DEFINE r1 == [old EXCEPT !.pc = "writing"]
           r2 == [r1 EXCEPT !.left = left]
           r3 == [r2 EXCEPT !.first = NoItem]
           r4 == [r3 EXCEPT !.read = NoRow]
           r == [r4 EXCEPT !.seen = NoRow]
<1>1. r = [old EXCEPT !.pc = "writing", !.left = left, !.first = NoItem,
                      !.read = NoRow, !.seen = NoRow]
  OBVIOUS
<1>2. /\ r.pc = "writing" /\ r.left = left /\ r.listed = old.listed
      /\ r.streams = old.streams /\ r.absent = old.absent /\ r.shifted = old.shifted
  BY DEF ScanType
<1>3. left \subseteq Items
  BY DEF ScanType
<1>4. r \in ScanType
  <2> HIDE DEF r
  <2>1. r1 \in ScanType
    BY ScanChanged DEF ScanStages
  <2> HIDE DEF r1
  <2>2. r2 \in ScanType
    BY <1>3, <2>1, ScanChanged
  <2> HIDE DEF r2
  <2>3. r3 \in ScanType
    BY <2>2, ScanChanged
  <2> HIDE DEF r3
  <2>4. r4 \in ScanType
    BY <2>3, ScanChanged, RowTypes
  <2> HIDE DEF r4
  <2> QED
    BY <2>4, ScanChanged DEF r
<1> HIDE DEF r
<1>5. ScanSound(r) /\ SeenSound(r)
  BY <1>2 DEF ScanSound, SeenSound
<1> QED
  BY <1>1, <1>2, <1>4, <1>5

LEMMA WritingKeeps ==
    ASSUME IInv, NEW s \in Scanners, NEW r \in ScanType, scan' = [scan EXCEPT ![s] = r],
           ScanSound(r), SeenSound(r), r.pc = "writing", txn.owner \in {Nobody, s},
           NEW t \in Table, txn' = [owner |-> s, rows |-> t], Truthful(t),
           \A i \in Items : Exists(rows, i) => KeepsRow(t, i),
           UNCHANGED <<external, rows, worker, budget>>
    PROVE  IInv'
<1>0. s # Nobody /\ s # "worker"
  BY MediaAssumption
<1>1. txn'.owner = s /\ txn'.rows = t
  OBVIOUS
<1>2. Typed'
  BY DEF IInv, Typed, external
<1>3. worker.pc = "idle"
  BY <1>0, MediaAssumption DEF IInv, Owned
<1>4. Owned'
  <2>1. ASSUME NEW u \in Scanners
        PROVE  scan'[u].pc = "writing" <=> txn'.owner = u
    <3>1. scan[u].pc = "writing" <=> txn.owner = u
      BY DEF IInv, Owned
    <3>2. scan'[u] = IF u = s THEN r ELSE scan[u]
      BY DEF IInv, Typed
    <3> QED
      BY <1>0, <1>1, <3>1, <3>2, MediaAssumption
  <2> QED
    BY <1>0, <1>1, <1>3, <2>1 DEF Owned
<1>5. Placed'
  BY <1>3 DEF IInv, Placed, external
<1>6. Keeping'
  BY <1>1 DEF Keeping, KeepsRow, Exists, external
<1>7. Truthful(rows)' /\ (txn.owner # Nobody => Truthful(txn.rows))'
  BY <1>1 DEF IInv, Truthful, Has, external
<1>8. ASSUME NEW u \in Scanners
      PROVE  ScanSound(scan'[u]) /\ SeenSound(scan'[u])
  BY <1>8 DEF IInv, Typed
<1>9. \A u \in Scanners : ScanSound(scan[u])' /\ SeenSound(scan[u])'
  BY <1>8 DEF ScanSound, SeenSound, Has, external
<1> QED
  BY <1>2, <1>4, <1>5, <1>6, <1>7, <1>9 DEF IInv

LEMMA WriteFirstKeeps ==
    ASSUME IInv, NEW s \in Scanners, WriteFirst(s)
    PROVE  IInv'
<1> DEFINE old == scan[s]
           i == old.first
           t == Upsert(rows, i, old.read, old.seen)
<1>1. /\ old \in ScanType /\ ScanSound(old) /\ SeenSound(old) /\ rows \in Table
      /\ old.pc \in {"inserting", "updating"} /\ UNCHANGED <<external, rows, worker, budget>>
  BY DEF WriteFirst, IInv, Typed
<1>2. txn.owner = Nobody
  BY <1>1 DEF WriteFirst, MayWrite, IInv, Owned
<1>3. CASE Overtaken(s)
  <2>1. EndScan(s) /\ UNCHANGED <<external, rows, txn, worker, budget>>
    BY <1>1, <1>3 DEF WriteFirst
  <2> QED
    BY <1>1, <2>1, EndScanKeeps
<1>4. CASE ~Overtaken(s)
  <2> DEFINE left == old.left \ {i}
             r == [old EXCEPT !.pc = "writing", !.left = left, !.first = NoItem,
                              !.read = NoRow, !.seen = NoRow]
  <2>1. txn' = [owner |-> s, rows |-> t] /\ scan' = [scan EXCEPT ![s] = r]
    BY <1>4 DEF WriteFirst
  <2>2. /\ i \in Items /\ old.seen \in SeenType /\ old.read \in RowType
        /\ old.pc = "updating" <=> old.read # NoRow
    BY <1>1 DEF ScanSound, ScanType
  <2>3. Exists(rows, i) <=> old.pc = "updating"
    BY <1>4 DEF Overtaken, Exists
  <2>4. /\ t \in Table
        /\ \A j \in Items \ {i} : t[j] = rows[j]
        /\ Exists(t, i) /\ t[i].ignored = rows[i].ignored
        /\ t[i].status = IF old.seen.status = old.read.status THEN rows[i].status
                         ELSE old.seen.status
    <3> HIDE DEF old, i
    <3>1. Exists(rows, i) \/ old.read = NoRow
      BY <2>2, <2>3
    <3> QED
      BY <1>1, <2>2, <3>1, Upserted
  <2> HIDE DEF t
  <2>5. ASSUME NEW j \in Items, Exists(rows, j)
        PROVE  KeepsRow(t, j)
    <3>1. CASE j # i
      BY <2>4, <2>5, <3>1 DEF KeepsRow, Exists
    <3>2. CASE j = i
      <4>1. ASSUME i \in disk \ dropped, rows[i].status = "has_chinese"
            PROVE  t[i].status = "has_chinese"
        <5>1. i \in Playable /\ Path[i] # "missing" /\ i \notin dropped
          BY <4>1 DEF IInv, Typed, Placed
        <5>2. old.seen.status \in {old.read.status, "has_chinese"}
          BY <1>1, <2>3, <2>5, <3>2, <5>1 DEF SeenSound
        <5> QED
          BY <2>4, <4>1, <5>2
      <4> QED
        BY <2>4, <3>2, <4>1 DEF KeepsRow
    <3> QED
      BY <3>1, <3>2
  <2>6. Truthful(t)
    <3>1. Truthful(rows)
      BY DEF IInv
    <3>2. ASSUME i \in Playable
          PROVE  /\ t[i].status # "unknown"
                 /\ t[i].status = "has_chinese" => i \in Has
                 /\ t[i].status = "path_missing" /\ Path[i] # "missing" => i \in disk \cup dropped
      <4>1. /\ old.seen.status # "unknown"
            /\ old.seen.status = "has_chinese" => i \in Has
            /\ old.seen.status = "path_missing" => Path[i] = "missing"
        BY <1>1, <3>2 DEF SeenSound
      <4>2. /\ rows[i].status # "unknown"
            /\ rows[i].status = "has_chinese" => i \in Has
            /\ rows[i].status = "path_missing" /\ Path[i] # "missing" => i \in disk \cup dropped
        BY <3>1, <3>2 DEF Truthful
      <4> HIDE DEF old, i
      <4> QED
        BY <2>4, <4>1, <4>2
    <3> QED
      BY <2>4, <3>1, <3>2 DEF Truthful, Playable
  <2>7. r \in ScanType /\ ScanSound(r) /\ SeenSound(r) /\ r.pc = "writing"
    <3> HIDE DEF old
    <3>1. left \in SUBSET old.left /\ old.pc \notin {"idle", "listing"}
      BY <1>1
    <3> HIDE DEF left
    <3> QED
      BY <1>1, <3>1, ScanWriting
  <2> HIDE DEF old, r
  <2> QED
    BY <1>1, <1>2, <2>1, <2>4, <2>5, <2>6, <2>7, WritingKeeps
<1> QED
  BY <1>3, <1>4

LEMMA WriteNextKeeps ==
    ASSUME IInv, NEW s \in Scanners, WriteNext(s)
    PROVE  IInv'
<1> DEFINE old == scan[s]
           i == First(old.left)
           seen == Seen(s, i)
           t == Rewrite(txn.rows, i, seen)
           left == old.left \ {i}
           r == [old EXCEPT !.left = left]
<1>1. /\ old \in ScanType /\ ScanSound(old) /\ SeenSound(old)
      /\ old.pc = "writing" /\ old.left # {} /\ UNCHANGED <<external, rows, worker, budget>>
      /\ txn' = [txn EXCEPT !.rows = t] /\ scan' = [scan EXCEPT ![s] = r]
  <2>1. /\ old.pc = "writing" /\ old.left # {} /\ UNCHANGED <<external, rows, worker, budget>>
        /\ txn' = [txn EXCEPT !.rows = t]
    BY DEF WriteNext
  <2>2. old \in ScanType /\ ScanSound(old) /\ SeenSound(old) /\ scan \in [Scanners -> ScanType]
    BY DEF IInv, Typed
  <2>3. scan' = [scan EXCEPT ![s] = r]
    BY <2>2 DEF WriteNext
  <2> QED
    BY <2>1, <2>2, <2>3
<1>2. txn.owner = s /\ txn.rows \in Table /\ Truthful(txn.rows)
      /\ \A j \in Items : Exists(rows, j) => KeepsRow(txn.rows, j)
  <2>1. txn.owner = s /\ s # Nobody
    BY <1>1, MediaAssumption DEF IInv, Owned
  <2> QED
    BY <2>1 DEF IInv, Owned, Keeping
<1>3. txn' = [owner |-> s, rows |-> t]
  <2> HIDE DEF t
  <2> QED
    BY <1>1, <1>2 DEF IInv, Typed
<1>4. i \in Items
  <2>1. old.left \subseteq Items
    BY <1>1 DEF ScanType
  <2> HIDE DEF old
  <2> QED
    BY <1>1, <2>1, FirstIn
<1> HIDE DEF i
<1>5. /\ seen \in SeenType
      /\ i \in Playable =>
            /\ seen.status # "unknown"
            /\ seen.status = "has_chinese" => i \in Has
            /\ seen.status = "path_missing" => Path[i] = "missing"
            /\ i \in disk /\ Path[i] # "missing" => seen.status = "has_chinese"
            /\ i \in Embedded => seen.status = "has_chinese"
  BY <1>4, SeenNow
<1> HIDE DEF seen
<1>6. /\ t \in Table /\ \A j \in Items \ {i} : t[j] = txn.rows[j]
      /\ Exists(t, i) /\ t[i].ignored = txn.rows[i].ignored /\ t[i].status = seen.status
  BY <1>2, <1>4, <1>5, Rewritten
<1> HIDE DEF t
<1>7. ASSUME NEW j \in Items, Exists(rows, j)
      PROVE  KeepsRow(t, j)
  <2>1. KeepsRow(txn.rows, j)
    BY <1>2, <1>7
  <2>2. CASE j # i
    BY <1>6, <2>1, <2>2 DEF KeepsRow, Exists
  <2>3. CASE j = i
    <3>1. i \in disk => i \in Playable /\ Path[i] # "missing"
      BY DEF IInv, Typed, Placed
    <3> QED
      BY <1>5, <1>6, <2>1, <2>3, <3>1 DEF KeepsRow
  <2> QED
    BY <2>2, <2>3
<1>8. Truthful(t)
  BY <1>2, <1>5, <1>6 DEF Truthful, Playable
<1>9. r \in ScanType /\ r.pc = "writing" /\ ScanSound(r) /\ SeenSound(r)
  <2> HIDE DEF old
  <2>1. left \subseteq old.left /\ left \subseteq Items
    BY <1>1 DEF ScanType
  <2> HIDE DEF left, r
  <2>2. r \in ScanType
    BY <1>1, <2>1, ScanChanged DEF r
  <2>3. /\ r.pc = "writing" /\ r.left = left /\ r.listed = old.listed
        /\ r.streams = old.streams /\ r.absent = old.absent /\ r.shifted = old.shifted
    BY <1>1 DEF r, ScanType
  <2> QED
    BY <1>1, <2>1, <2>2, <2>3 DEF ScanSound, SeenSound
<1> HIDE DEF old, r
<1> QED
  BY <1>1, <1>2, <1>3, <1>6, <1>7, <1>8, <1>9, WritingKeeps

\* Someone's commit: the worker's, or a scan's after it has removed rows.
LEMMA CommitKeeps ==
    ASSUME IInv, NEW t \in Table, Truthful(t), rows' = t, txn' = NoTxn,
           UNCHANGED external, budget' \in BudgetType,
           \A s \in Scanners : scan'[s] \in {scan[s], NoScan} /\ scan'[s].pc # "writing",
           scan' \in [Scanners -> ScanType], worker' \in {worker, NoWork}, worker'.pc = "idle"
    PROVE  IInv'
<1>0. txn'.owner = Nobody /\ Nobody \notin Scanners \cup {"worker"}
  BY MediaAssumption DEF NoTxn
<1>1. Typed'
  <2>1. NoWork \in [pc : WorkerStages, item : Playable \cup {NoItem}, linked : BOOLEAN]
    BY DEF NoWork, WorkerStages
  <2>2. NoTxn \in [owner : Scanners \cup {"worker", Nobody}, rows : Table \cup {<<>>}]
    BY DEF NoTxn
  <2> QED
    BY <2>1, <2>2 DEF IInv, Typed, external
<1>2. Owned'
  BY <1>0 DEF Owned
<1>3. Placed'
  BY DEF IInv, Placed, external
<1>4. Keeping'
  BY <1>0 DEF Keeping
<1>5. Truthful(rows)' /\ (txn.owner # Nobody => Truthful(txn.rows))'
  BY <1>0 DEF Truthful, Has, external
<1>6. ASSUME NEW u \in Scanners
      PROVE  ScanSound(scan'[u]) /\ SeenSound(scan'[u])
  BY NoScanSound DEF IInv
<1>7. \A u \in Scanners : ScanSound(scan[u])' /\ SeenSound(scan[u])'
  BY <1>6 DEF ScanSound, SeenSound, Has, external
<1> QED
  BY <1>1, <1>2, <1>3, <1>4, <1>5, <1>7 DEF IInv

LEMMA RemoveMissingKeeps ==
    ASSUME IInv, NEW s \in Scanners, RemoveMissing(s)
    PROVE  IInv'
<1> DEFINE old == IF txn.owner = s THEN txn.rows ELSE rows
           t == Kept(s, old)
<1>1. /\ scan[s].pc \in {"looking", "writing"} /\ MayWrite(s)
      /\ rows' = t /\ txn' = NoTxn /\ scan' = [scan EXCEPT ![s] = NoScan]
      /\ UNCHANGED <<external, worker, budget>>
  BY DEF RemoveMissing, EndScan
<1>2. txn.owner \in {Nobody, s} /\ s # Nobody /\ s # "worker" /\ Nobody # "worker"
      /\ Nobody \notin Scanners
  BY <1>1, MediaAssumption DEF MayWrite
<1>3. old \in Table /\ Truthful(old)
  BY <1>2 DEF IInv, Typed, Owned
<1> HIDE DEF old
<1>4. t \in Table /\ \A i \in Items : t[i] \in {old[i], NoRow}
  BY <1>3, RowTypes DEF Kept, Table
<1>5. Truthful(t)
  <2>1. NoRow.status = "none"
    BY RowTypes
  <2> HIDE DEF t
  <2> QED
    BY <1>3, <1>4, <2>1 DEF Truthful, Playable
<1>6. scan' \in [Scanners -> ScanType]
  BY <1>1, NoScanSound DEF IInv, Typed
<1>7. ASSUME NEW u \in Scanners
      PROVE  scan'[u] \in {scan[u], NoScan} /\ scan'[u].pc # "writing"
  <2>1. u # s => scan[u].pc # "writing"
    BY <1>2 DEF IInv, Owned
  <2> QED
    BY <1>1, <2>1, NoScanSound DEF IInv, Typed
<1>8. worker' = worker /\ worker'.pc = "idle" /\ budget' \in BudgetType
  BY <1>1, <1>2 DEF IInv, Typed, Owned
<1> HIDE DEF t
<1> QED
  BY <1>1, <1>4, <1>5, <1>6, <1>7, <1>8, CommitKeeps

LEMMA ScanStepKeeps ==
    ASSUME IInv, NEW s \in Scanners, BeginScan(s) \/ ScanStep(s) \/ ListFails(s)
    PROVE  IInv'
<1>1. CASE ScanTimesOut(s)
  BY <1>1, EndScanKeeps DEF ScanTimesOut
<1>2. CASE ListFails(s)
  BY <1>2, EndScanKeeps DEF ListFails
<1> QED
  BY <1>1, <1>2, BeginScanKeeps, ListPageKeeps, LookKeeps, WriteFirstKeeps, WriteNextKeeps,
     RemoveMissingKeeps DEF ScanStep

-----------------------------------------------------------------------------
(* The worker.                                                             *)

WorkerType == [pc : WorkerStages, item : Playable \cup {NoItem}, linked : BOOLEAN]

LEMMA WorkingKeeps ==
    ASSUME IInv, txn.owner \in {Nobody, "worker"}, NEW t \in Table,
           txn' = [owner |-> "worker", rows |-> t], Truthful(t),
           worker' \in WorkerType, worker'.pc # "idle", Placed', Keeping',
           disk \subseteq disk', disk' \subseteq Playable, budget' \in BudgetType,
           UNCHANGED <<library, noticed, dropped, rows, scan>>
    PROVE  IInv'
<1>0. /\ txn'.owner = "worker" /\ txn'.rows = t /\ "worker" # Nobody
      /\ "worker" \notin Scanners /\ Nobody \notin Scanners
  BY MediaAssumption
<1>1. Typed'
  BY DEF IInv, Typed, WorkerType
<1>2. Owned'
  <2>1. ASSUME NEW s \in Scanners
        PROVE  scan'[s].pc = "writing" <=> txn'.owner = s
    BY <1>0 DEF IInv, Owned
  <2> QED
    BY <1>0, <2>1 DEF Owned
<1>3. Truthful(rows)' /\ (txn.owner # Nobody => Truthful(txn.rows))'
  <2>1. Has \subseteq Has'
    BY DEF Has
  <2>2. Truthful(rows)'
    BY <2>1 DEF IInv, Truthful
  <2>3. Truthful(txn.rows)'
    BY <1>0, <2>1 DEF Truthful
  <2> QED
    BY <2>2, <2>3
<1>4. ASSUME NEW s \in Scanners
      PROVE  ScanSound(scan[s])' /\ SeenSound(scan[s])'
  <2>1. ScanSound(scan[s]) /\ SeenSound(scan[s]) /\ Has \subseteq Has'
    BY DEF IInv, Has
  <2> QED
    BY <2>1 DEF ScanSound, SeenSound
<1> QED
  BY <1>1, <1>2, <1>3, <1>4 DEF IInv

LEMMA SetStagePlacingKeeps ==
    ASSUME IInv, NEW i \in Playable, NEW linked \in BOOLEAN, SetStagePlacing(i, linked)
    PROVE  IInv'
<1>1. /\ worker.pc = "idle" /\ Path[i] # "missing" /\ MayWrite("worker")
      /\ txn' = [owner |-> "worker", rows |-> rows]
      /\ worker' = [pc |-> "placing", item |-> i, linked |-> linked]
      /\ UNCHANGED <<library, noticed, disk, dropped, rows, scan>> /\ budget' \in BudgetType
  BY Spent DEF SetStagePlacing, external, IInv, Typed
<1>2. txn.owner \in {Nobody, "worker"} /\ rows \in Table /\ Truthful(rows)
  BY <1>1 DEF MayWrite, IInv, Typed
<1>3. worker' \in WorkerType /\ worker'.pc = "placing" /\ worker'.item = i
  BY <1>1 DEF WorkerType, WorkerStages
<1>4. Placed'
  BY <1>1, <1>3 DEF IInv, Placed
<1>5. Keeping'
  BY <1>1 DEF Keeping, KeepsRow, Exists
<1>6. disk' \subseteq Playable
  BY <1>1 DEF IInv, Typed
<1> QED
  BY <1>1, <1>2, <1>3, <1>4, <1>5, <1>6, WorkingKeeps

\* A worker that has entered the stage holds the lock.
LEMMA WorkerHolds ==
    ASSUME IInv, worker.pc # "idle"
    PROVE  /\ txn.owner = "worker" /\ txn.rows \in Table /\ Truthful(txn.rows)
           /\ txn = [owner |-> "worker", rows |-> txn.rows]
           /\ \A i \in Items : Exists(rows, i) => KeepsRow(txn.rows, i)
           /\ worker \in WorkerType /\ worker.item \in Playable /\ worker.item \in Items
           /\ Path[worker.item] # "missing"
           /\ worker.pc \in {"marking", "refreshing", "getting"} => worker.item \in disk
           /\ \A s \in Scanners : scan[s].pc # "writing"
<1>1. txn.owner = "worker" /\ "worker" # Nobody /\ "worker" \notin Scanners
  BY MediaAssumption DEF IInv, Owned
<1>2. /\ txn.rows \in Table /\ Truthful(txn.rows)
      /\ \A i \in Items : Exists(rows, i) => KeepsRow(txn.rows, i)
      /\ \A s \in Scanners : scan[s].pc # "writing"
  BY <1>1 DEF IInv, Owned, Keeping
<1>3. txn = [owner |-> "worker", rows |-> txn.rows]
  BY <1>1 DEF IInv, Typed
<1>4. /\ worker \in WorkerType /\ worker.item \in Playable /\ Path[worker.item] # "missing"
      /\ worker.pc \in {"marking", "refreshing", "getting"} => worker.item \in disk
  BY DEF IInv, Typed, Placed, WorkerType
<1> QED
  BY <1>1, <1>2, <1>3, <1>4 DEF Playable

LEMMA PlaceFileKeeps ==
    ASSUME IInv, PlaceFile
    PROVE  IInv'
<1> DEFINE i == worker.item
           t == txn.rows
<1>1. /\ worker.pc = "placing" /\ disk' = disk \cup {i}
      /\ worker' = [worker EXCEPT !.pc = "marking"]
      /\ UNCHANGED <<library, noticed, dropped, rows, scan>> /\ txn' = txn /\ budget' = budget
  BY DEF PlaceFile
<1>2. /\ txn.owner = "worker" /\ t \in Table /\ Truthful(t) /\ txn = [owner |-> "worker", rows |-> t]
      /\ \A j \in Items : Exists(rows, j) => KeepsRow(t, j)
      /\ worker \in WorkerType /\ i \in Playable /\ i \in Items /\ Path[i] # "missing"
  BY <1>1, WorkerHolds
<1>3. worker' \in WorkerType /\ worker'.pc = "marking" /\ worker'.item = i
  BY <1>1, <1>2 DEF WorkerType, WorkerStages
<1>4. t = rows /\ noticed \subseteq disk \cup dropped /\ \A j \in disk : Path[j] # "missing"
  BY <1>1 DEF IInv, Placed
<1>5. Placed'
  BY <1>1, <1>2, <1>3, <1>4 DEF Placed
<1>6. Keeping'
  BY <1>1, <1>4 DEF Keeping, KeepsRow, Exists
<1>7. /\ txn' = [owner |-> "worker", rows |-> t] /\ disk \subseteq disk' /\ disk' \subseteq Playable
      /\ budget' \in BudgetType
  BY <1>1, <1>2 DEF IInv, Typed
<1> HIDE DEF i, t
<1> QED
  BY <1>1, <1>2, <1>3, <1>5, <1>6, <1>7, WorkingKeeps DEF t

\* The end of the worker's transaction, whatever it has made of the row of its item.
LEMMA WorkerCommits ==
    ASSUME IInv, worker.pc # "idle", NEW t \in Table, Truthful(t), CommitAs(t),
           UNCHANGED <<external, scan, budget>>
    PROVE  IInv'
<1>1. rows' = t /\ txn' = NoTxn /\ worker' = NoWork /\ NoWork.pc = "idle"
  BY DEF CommitAs, NoWork
<1>2. \A s \in Scanners : scan[s].pc # "writing"
  BY WorkerHolds
<1>3. scan' = scan /\ scan \in [Scanners -> ScanType] /\ budget' \in BudgetType
  BY DEF IInv, Typed
<1> QED
  BY <1>1, <1>2, <1>3, CommitKeeps

LEMMA MarkReadyKeeps ==
    ASSUME IInv, MarkReady
    PROVE  IInv'
<1>1. worker.pc = "marking" /\ UNCHANGED <<external, scan, budget>>
  BY DEF MarkReady
<1>2. /\ txn.owner = "worker" /\ txn.rows \in Table /\ Truthful(txn.rows)
      /\ \A i \in Items : Exists(rows, i) => KeepsRow(txn.rows, i)
      /\ worker \in WorkerType /\ worker.item \in Playable /\ worker.item \in Items
      /\ worker.item \in disk
  BY <1>1, WorkerHolds
<1>3. CASE ~worker.linked
  BY <1>1, <1>2, <1>3, WorkerCommits DEF MarkReady
<1>4. CASE worker.linked
  <2> DEFINE i == worker.item
             t == UpdateState(txn.rows, i, Ready)
  <2>1. /\ txn' = [txn EXCEPT !.rows = t] /\ rows' = rows
        /\ worker' = [worker EXCEPT !.pc = "refreshing"]
    BY <1>4 DEF MarkReady
  <2>2. Ready \in SeenType /\ Ready.status = "has_chinese"
    BY DEF Ready, SeenType, Statuses
  <2>3. /\ t \in Table /\ \A j \in Items \ {i} : t[j] = txn.rows[j]
        /\ \/ t = txn.rows
           \/ Exists(t, i) /\ t[i].ignored = txn.rows[i].ignored /\ t[i].status = "has_chinese"
    BY <1>2, <2>2, StateUpdated
  <2> HIDE DEF t
  <2>4. txn' = [owner |-> "worker", rows |-> t]
    BY <1>2, <2>1 DEF IInv, Typed
  <2>5. worker' \in WorkerType /\ worker'.pc = "refreshing" /\ worker'.item = i
    BY <1>2, <2>1 DEF WorkerType, WorkerStages
  <2>6. Truthful(t)
    BY <1>2, <2>3 DEF Truthful, Playable, Has
  <2>7. Placed'
    BY <1>1, <1>2, <2>5 DEF IInv, Placed, external
  <2>8. ASSUME NEW j \in Items, Exists(rows, j)
        PROVE  KeepsRow(t, j)
    <3>1. KeepsRow(txn.rows, j)
      BY <1>2, <2>8
    <3> QED
      BY <2>3, <3>1 DEF KeepsRow, Exists
  <2>9. Keeping'
    <3>1. txn'.rows = t
      BY <2>4
    <3> QED
      BY <1>1, <2>1, <2>5, <2>8, <3>1 DEF Keeping, KeepsRow, Exists, external
  <2>10. /\ UNCHANGED <<library, noticed, dropped, rows, scan>> /\ disk \subseteq disk'
         /\ disk' \subseteq Playable /\ budget' \in BudgetType /\ worker'.pc # "idle"
    BY <1>1, <2>1, <2>5 DEF external, IInv, Typed
  <2> QED
    BY <1>2, <2>3, <2>4, <2>5, <2>6, <2>7, <2>9, <2>10, WorkingKeeps
<1> QED
  BY <1>3, <1>4

LEMMA RefreshItemKeeps ==
    ASSUME IInv, RefreshItem
    PROVE  IInv'
<1>1. /\ worker.pc = "refreshing" /\ worker' = [worker EXCEPT !.pc = "getting"]
      /\ UNCHANGED <<external, rows, txn, scan, budget>>
  BY DEF RefreshItem
<1>2. /\ txn.owner = "worker" /\ txn.rows \in Table /\ Truthful(txn.rows)
      /\ txn = [owner |-> "worker", rows |-> txn.rows] /\ worker \in WorkerType
  BY <1>1, WorkerHolds
<1>3. worker' \in WorkerType /\ worker'.pc = "getting" /\ worker'.item = worker.item
  BY <1>1, <1>2 DEF WorkerType, WorkerStages
<1>4. Placed'
  BY <1>1, <1>3 DEF IInv, Placed, external
<1>5. Keeping'
  BY <1>1, <1>3 DEF IInv, Keeping, KeepsRow, external
<1>6. disk \subseteq disk' /\ disk' \subseteq Playable /\ budget' \in BudgetType
  BY <1>1 DEF external, IInv, Typed
<1>7. UNCHANGED <<library, noticed, dropped, rows, scan>>
      /\ txn' = [owner |-> "worker", rows |-> txn.rows]
  BY <1>1, <1>2 DEF external
<1> QED
  BY <1>2, <1>3, <1>4, <1>5, <1>6, <1>7, WorkingKeeps

LEMMA GetItemKeeps ==
    ASSUME IInv, GetItem
    PROVE  IInv'
<1> DEFINE i == worker.item
           seen == Detect(i, noticed, FALSE)
           t == UpdateState(txn.rows, i, seen)
<1>1. worker.pc = "getting" /\ CommitAs(t) /\ UNCHANGED <<external, scan, budget>>
  BY DEF GetItem
<1>2. /\ txn.rows \in Table /\ Truthful(txn.rows) /\ i \in Playable /\ i \in Items /\ i \in disk
  BY <1>1, WorkerHolds
<1> HIDE DEF i
<1>3. /\ seen \in SeenType /\ seen.status # "unknown"
      /\ seen.status = "has_chinese" => i \in Has
  <2>1. i \in disk
    BY <1>2
  <2> QED
    BY <1>2, <2>1 DEF Detect, SeenType, Statuses, Has
<1> HIDE DEF seen
<1>4. /\ t \in Table /\ \A j \in Items \ {i} : t[j] = txn.rows[j]
      /\ t = txn.rows \/ t[i].status = seen.status
  BY <1>2, <1>3, StateUpdated
<1> HIDE DEF t
<1>5. Truthful(t)
  BY <1>2, <1>3, <1>4 DEF Truthful, Playable
<1> QED
  BY <1>1, <1>4, <1>5, WorkerCommits

LEMMA WorkerStepKeeps ==
    ASSUME IInv, WorkerStep
    PROVE  IInv'
<1>1. CASE PlacingFails
  BY <1>1, WorkerHolds, WorkerCommits DEF PlacingFails
<1>2. CASE JellyfinFails
  BY <1>2, WorkerHolds, WorkerCommits DEF JellyfinFails
<1> QED
  BY <1>1, <1>2, PlaceFileKeeps, MarkReadyKeeps, RefreshItemKeeps, GetItemKeeps DEF WorkerStep

-----------------------------------------------------------------------------
(* The user, and Jellyfin.                                                 *)

LEMMA SetIgnoredKeeps ==
    ASSUME IInv, NEW chosen \in SUBSET Items, NEW ignored \in BOOLEAN,
           SetIgnored(chosen, ignored)
    PROVE  IInv'
<1> DEFINE t == [i \in Items |-> IF i \in chosen THEN [rows[i] EXCEPT !.ignored = ignored]
                                                 ELSE rows[i]]
<1>1. /\ \A i \in chosen : Exists(rows, i)
      /\ txn.owner = Nobody /\ budget' \in BudgetType /\ rows' = t
      /\ UNCHANGED <<external, txn, scan, worker>> /\ rows \in Table /\ Truthful(rows)
  BY Spent DEF SetIgnored, MayWrite, IInv, Typed
<1>2. ASSUME NEW i \in Items
      PROVE  t[i] \in RowType /\ t[i].status = rows[i].status
  <2>1. CASE i \notin chosen
    BY <1>1, <2>1 DEF Table
  <2>2. CASE i \in chosen
    <3> DEFINE row == rows[i]
    <3>1. row \in RowType /\ row # NoRow
      BY <1>1, <2>2 DEF Table, Exists
    <3> HIDE DEF row
    <3>2. row.status \in Statuses /\ row.external \in BOOLEAN
          /\ row = [status |-> row.status, external |-> row.external, ignored |-> row.ignored]
      BY <3>1, RowTypes
    <3>3. [row EXCEPT !.ignored = ignored]
            = [status |-> row.status, external |-> row.external, ignored |-> ignored]
      BY <3>2, RowChanged
    <3>4. [status |-> row.status, external |-> row.external, ignored |-> ignored] \in RowType
      BY <3>2, RowTypes DEF RowRecord
    <3>5. t[i] = [row EXCEPT !.ignored = ignored]
      BY <2>2 DEF row
    <3> QED
      BY <3>3, <3>4, <3>5 DEF row
  <2> QED
    BY <2>1, <2>2
<1>3. t \in Table
  BY <1>2 DEF Table
<1> HIDE DEF t
<1>4. Typed' /\ Owned' /\ Placed' /\ Keeping'
  <2>1. Typed'
    BY <1>1, <1>3 DEF IInv, Typed, external
  <2>2. Owned'
    BY <1>1 DEF IInv, Owned
  <2>3. Placed'
    <3>1. worker.pc = "idle"
      BY <1>1, MediaAssumption DEF IInv, Owned
    <3> QED
      BY <1>1, <3>1 DEF IInv, Placed, external
  <2>4. Keeping'
    BY <1>1 DEF Keeping
  <2> QED
    BY <2>1, <2>2, <2>3, <2>4
<1>5. Truthful(rows)' /\ (txn.owner # Nobody => Truthful(txn.rows))'
  BY <1>1, <1>2 DEF Truthful, Has, external, Playable
<1>6. \A u \in Scanners : ScanSound(scan[u])' /\ SeenSound(scan[u])'
  BY <1>1 DEF IInv, ScanSound, SeenSound, Has, external
<1> QED
  BY <1>4, <1>5, <1>6 DEF IInv

LEMMA DeleteSubtitleKeeps ==
    ASSUME IInv, NEW i \in Playable, DeleteSubtitle(i)
    PROVE  IInv'
<1>1. /\ i \in disk /\ worker.item # i /\ budget' \in BudgetType
      /\ disk' = disk \ {i} /\ dropped' = dropped \cup {i}
      /\ UNCHANGED <<library, noticed, rows, txn, scan, worker>>
  BY Spent DEF DeleteSubtitle, IInv, Typed
<1>2. /\ Has' = Has /\ disk' \cup dropped' = disk \cup dropped
      /\ disk' \subseteq disk /\ dropped \subseteq dropped'
      /\ disk' \ dropped' \subseteq disk \ dropped
  BY <1>1 DEF Has
<1>3. Typed'
  BY <1>1 DEF IInv, Typed
<1>4. Owned'
  BY <1>1 DEF IInv, Owned
<1>5. Placed'
  BY <1>1, <1>2 DEF IInv, Placed
<1>6. Keeping'
  BY <1>1, <1>2 DEF IInv, Keeping, KeepsRow, Exists
<1>7. Truthful(rows)' /\ (txn.owner # Nobody => Truthful(txn.rows))'
  BY <1>1, <1>2 DEF IInv, Truthful
<1>8. ASSUME NEW u \in Scanners
      PROVE  ScanSound(scan[u])' /\ SeenSound(scan[u])'
  <2>1. ScanSound(scan[u]) /\ SeenSound(scan[u])
    BY DEF IInv
  <2> QED
    BY <1>1, <1>2, <2>1 DEF ScanSound, SeenSound
<1> QED
  BY <1>3, <1>4, <1>5, <1>6, <1>7, <1>8 DEF IInv

LEMMA NoticeKeeps ==
    ASSUME IInv, Notice
    PROVE  IInv'
<1>1. /\ noticed' = disk \cap library
      /\ UNCHANGED <<library, disk, dropped, rows, txn, scan, worker, budget>>
  BY DEF Notice
<1>2. Typed' /\ Owned' /\ Placed' /\ Keeping'
  BY <1>1 DEF IInv, Typed, Owned, Placed, Keeping, KeepsRow
<1>3. Truthful(rows)' /\ (txn.owner # Nobody => Truthful(txn.rows))'
  BY <1>1 DEF IInv, Truthful, Has
<1>4. \A u \in Scanners : ScanSound(scan[u])' /\ SeenSound(scan[u])'
  BY <1>1 DEF IInv, ScanSound, SeenSound, Has
<1> QED
  BY <1>2, <1>3, <1>4 DEF IInv

\* A change of the library, of which the scans take notice or do not.
LEMMA LibraryKeeps ==
    ASSUME IInv, library' \subseteq Items, scan' \in [Scanners -> ScanType],
           \A s \in Scanners : /\ ScanSound(scan[s])' /\ SeenSound(scan[s])'
                               /\ scan'[s].pc = scan[s].pc,
           UNCHANGED <<noticed, disk, dropped, rows, txn, worker>>, budget' \in BudgetType
    PROVE  IInv'
<1>1. Typed'
  BY DEF IInv, Typed
<1>2. Owned' /\ Placed' /\ Keeping'
  BY DEF IInv, Owned, Placed, Keeping, KeepsRow
<1>3. Truthful(rows)' /\ (txn.owner # Nobody => Truthful(txn.rows))'
  BY DEF IInv, Truthful, Has
<1> QED
  BY <1>1, <1>2, <1>3 DEF IInv

LEMMA RemoveItemKeeps ==
    ASSUME IInv, NEW i \in Items, RemoveItem(i)
    PROVE  IInv'
<1> DEFINE r(s) == [scan[s] EXCEPT !.absent = @ \cup {i}, !.shifted = @ \/ scan[s].start > 0]
<1>1. /\ library' = library \ {i} /\ budget' \in BudgetType
      /\ scan' = [s \in Scanners |-> IF scan[s].pc # "listing" THEN scan[s] ELSE r(s)]
      /\ UNCHANGED <<noticed, disk, dropped, rows, txn, worker>>
  BY Spent DEF RemoveItem, IInv, Typed
<1>2. library \subseteq Items /\ \A s \in Scanners : scan[s] \in ScanType
  BY DEF IInv, Typed
<1>3. ASSUME NEW s \in Scanners, scan[s].pc = "listing"
      PROVE  /\ r(s) \in ScanType /\ r(s).pc = "listing"
             /\ r(s).listed = scan[s].listed /\ r(s).streams = scan[s].streams
             /\ r(s).left = scan[s].left /\ r(s).start = scan[s].start
             /\ r(s).absent = scan[s].absent \cup {i}
             /\ r(s).shifted = (scan[s].shifted \/ scan[s].start > 0)
  <2> DEFINE old == scan[s]
             absent == old.absent \cup {i}
             shifted == old.shifted \/ old.start > 0
             r1 == [old EXCEPT !.absent = absent]
             r2 == [r1 EXCEPT !.shifted = shifted]
  <2>1. r(s) = r2
    OBVIOUS
  <2>2. old \in ScanType /\ old.pc = "listing" /\ absent \subseteq Items /\ shifted \in BOOLEAN
    BY <1>2, <1>3 DEF ScanType
  <2> HIDE DEF old, absent, shifted, r
  <2>3. r1 \in ScanType
    BY <2>2, ScanChanged
  <2>4. r1 = [old EXCEPT !.absent = absent]
    OBVIOUS
  <2> HIDE DEF r1
  <2>5. r2 \in ScanType
    BY <2>2, <2>3, ScanChanged
  <2>6. /\ r2.pc = old.pc /\ r2.listed = old.listed /\ r2.streams = old.streams
        /\ r2.left = old.left /\ r2.start = old.start /\ r2.absent = absent
        /\ r2.shifted = shifted
    BY <2>2, <2>3, <2>4 DEF ScanType
  <2> QED
    BY <2>1, <2>2, <2>5, <2>6 DEF old, absent, shifted
<1> HIDE DEF r
<1>4. scan' \in [Scanners -> ScanType]
  BY <1>1, <1>2, <1>3
<1>5. ASSUME NEW s \in Scanners
      PROVE  ScanSound(scan[s])' /\ SeenSound(scan[s])' /\ scan'[s].pc = scan[s].pc
  <2>0. ScanSound(scan[s]) /\ SeenSound(scan[s])
    BY DEF IInv
  <2>1. CASE scan[s].pc # "listing"
    <3>1. scan'[s] = scan[s]
      BY <1>1, <2>1
    <3> QED
      BY <1>1, <2>0, <2>1, <3>1 DEF ScanSound, SeenSound, Has
  <2>2. CASE scan[s].pc = "listing"
    <3>1. scan'[s] = r(s)
      BY <1>1, <2>2
    <3>2. SeenSound(scan[s])'
      BY <1>1, <1>3, <2>0, <2>2, <3>1 DEF SeenSound
    <3>3. ASSUME ~ (scan[s].start > 0), NEW j \in library'
          PROVE  ~ (Rank(library', j) < scan[s].start)
      <4>1. library' \subseteq Items
        BY <1>1, <1>2
      <4>2. Rank(library', j) \in Nat
        BY <4>1, Ranks
      <4>3. scan[s].start \in 0..Len(Order)
        BY <1>2 DEF ScanType
      <4> QED
        BY <3>3, <4>2, <4>3, Positions
    <3>4. Items \ library' \subseteq scan[s].absent \cup {i}
      BY <1>1, <2>0, <2>2 DEF ScanSound
    <3>5. ScanSound(scan[s])'
      BY <1>3, <2>0, <2>2, <3>1, <3>3, <3>4 DEF ScanSound
    <3> QED
      BY <1>3, <2>2, <3>1, <3>2, <3>5
  <2> QED
    BY <2>1, <2>2
<1> QED
  BY <1>1, <1>2, <1>4, <1>5, LibraryKeeps

LEMMA AddItemKeeps ==
    ASSUME IInv, NEW i \in Items, AddItem(i)
    PROVE  IInv'
<1>1. /\ i \notin library /\ library' = library \cup {i} /\ budget' \in BudgetType
      /\ UNCHANGED <<noticed, disk, dropped, rows, txn, scan, worker>>
  BY Spent DEF AddItem, IInv, Typed
<1>2. library \subseteq Items /\ scan \in [Scanners -> ScanType]
  BY DEF IInv, Typed
<1>3. ASSUME NEW s \in Scanners
      PROVE  ScanSound(scan[s])' /\ SeenSound(scan[s])'
  <2>0. ScanSound(scan[s]) /\ SeenSound(scan[s]) /\ scan[s] \in ScanType
    BY <1>2 DEF IInv
  <2>1. SeenSound(scan[s])'
    BY <1>1, <2>0 DEF SeenSound, Has
  <2>2. ASSUME scan[s].pc = "listing", NEW j \in library' \ scan[s].absent,
               Rank(library', j) < scan[s].start
        PROVE  j \in library \ scan[s].absent /\ Rank(library, j) < scan[s].start
    <3>1. i \in scan[s].absent
      BY <1>1, <2>0, <2>2 DEF ScanSound
    <3>2. j \in library /\ j \in Items
      BY <1>1, <1>2, <2>2, <3>1
    <3>3. Rank(library, j) <= Rank(library', j) /\ Rank(library, j) \in Nat
          /\ Rank(library', j) \in Nat
      BY <1>1, <1>2, <3>2, Ranks
    <3>4. scan[s].start \in Nat
      BY <2>0, Positions DEF ScanType
    <3> QED
      BY <2>2, <3>2, <3>3, <3>4
  <2>3. ScanSound(scan[s])'
    BY <1>1, <2>0, <2>2 DEF ScanSound
  <2> QED
    BY <2>1, <2>3
<1> QED
  BY <1>1, <1>2, <1>3, LibraryKeeps

LEMMA CrashKeeps ==
    ASSUME IInv, Crash
    PROVE  IInv'
<1>1. /\ txn' = NoTxn /\ worker' = NoWork /\ scan' = [s \in Scanners |-> NoScan]
      /\ UNCHANGED <<external, rows>> /\ budget' \in BudgetType
  BY Spent DEF Crash, IInv, Typed
<1>2. rows \in Table /\ Truthful(rows) /\ NoWork.pc = "idle"
  BY DEF IInv, Typed, NoWork
<1> QED
  BY <1>1, <1>2, NoScanSound, CommitKeeps

LEMMA InitHolds ==
    ASSUME Init
    PROVE  IInv
<1>1. /\ library \subseteq Items /\ noticed = {} /\ disk = {} /\ dropped = {}
      /\ rows = [i \in Items |-> NoRow] /\ txn = NoTxn /\ worker = NoWork
      /\ scan = [s \in Scanners |-> NoScan] /\ budget \in BudgetType
  BY DEF Init, BudgetType
<1>2. rows \in Table /\ Truthful(rows)
  BY <1>1, RowTypes DEF Table, Truthful, Playable
<1>3. txn.owner = Nobody /\ txn \in [owner : Scanners \cup {"worker", Nobody}, rows : Table \cup {<<>>}]
  BY <1>1 DEF NoTxn
<1>4. /\ worker.pc = "idle"
      /\ worker \in [pc : WorkerStages, item : Playable \cup {NoItem}, linked : BOOLEAN]
  BY <1>1 DEF NoWork, WorkerStages
<1>5. Typed
  BY <1>1, <1>2, <1>3, <1>4, NoScanSound DEF Typed
<1>6. Owned
  BY <1>1, <1>3, <1>4, NoScanSound, MediaAssumption DEF Owned
<1>7. Placed /\ Keeping
  BY <1>1, <1>3, <1>4 DEF Placed, Keeping
<1> QED
  BY <1>1, <1>2, <1>3, <1>5, <1>6, <1>7, NoScanSound DEF IInv

LEMMA StutterKeeps ==
    ASSUME IInv, UNCHANGED vars
    PROVE  IInv'
<1>1. Typed' /\ Owned' /\ Placed' /\ Keeping'
  BY DEF vars, IInv, Typed, Owned, Placed, Keeping, KeepsRow
<1>2. Truthful(rows)' /\ (txn.owner # Nobody => Truthful(txn.rows))'
  BY DEF vars, IInv, Truthful, Has
<1>3. \A u \in Scanners : ScanSound(scan[u])' /\ SeenSound(scan[u])'
  BY DEF vars, IInv, ScanSound, SeenSound, Has
<1> QED
  BY <1>1, <1>2, <1>3 DEF IInv

LEMMA StepKeeps ==
    ASSUME IInv, [Next]_vars
    PROVE  IInv'
<1>1. CASE \E s \in Scanners : BeginScan(s) \/ ScanStep(s) \/ ListFails(s)
  BY <1>1, ScanStepKeeps
<1>2. CASE \E i \in Playable, linked \in BOOLEAN : SetStagePlacing(i, linked)
  BY <1>2, SetStagePlacingKeeps
<1>3. CASE \E chosen \in SUBSET Items, ignored \in BOOLEAN : SetIgnored(chosen, ignored)
  BY <1>3, SetIgnoredKeeps
<1>4. CASE \E i \in Playable : DeleteSubtitle(i)
  BY <1>4, DeleteSubtitleKeeps
<1>5. CASE \E i \in Items : RemoveItem(i) \/ AddItem(i)
  BY <1>5, RemoveItemKeeps, AddItemKeeps
<1>6. CASE WorkerStep \/ Notice \/ Crash
  BY <1>6, WorkerStepKeeps, NoticeKeeps, CrashKeeps
<1>7. CASE UNCHANGED vars
  BY <1>7, StutterKeeps
<1> QED
  BY <1>1, <1>2, <1>3, <1>4, <1>5, <1>6, <1>7 DEF Next

\* The inductive invariant holds in every state.
THEOREM InvHolds == Spec => []IInv
<1>1. Init => IInv
  BY InitHolds
<1>2. IInv /\ [Next]_vars => IInv'
  BY StepKeeps
<1> QED
  BY <1>1, <1>2, PTL DEF Spec

\* The state is well-typed, and the lock is with the one whose step needs it.
THEOREM TypeCorrect == Spec => []TypeOK
<1>1. ASSUME IInv
      PROVE  TypeOK
  <2>1. ASSUME NEW s \in Scanners
        PROVE  /\ scan[s].pc \in {"idle", "listing", "looking", "inserting", "updating", "writing"}
               /\ scan[s].pc = "writing" <=> txn.owner = s
               /\ scan[s].listed \subseteq Items /\ scan[s].streams \subseteq scan[s].listed
               /\ scan[s].start \in 0..Len(Order) /\ scan[s].left \subseteq scan[s].listed
    <3>1. scan[s] \in ScanType /\ ScanSound(scan[s]) /\ (scan[s].pc = "writing" <=> txn.owner = s)
      BY <1>1 DEF IInv, Typed, Owned
    <3>2. scan[s].pc \in ScanStages /\ scan[s].listed \subseteq Items /\ scan[s].start \in 0..Len(Order)
      BY <3>1 DEF ScanType
    <3> QED
      BY <3>1, <3>2 DEF ScanStages, ScanSound
  <2>2. /\ worker.pc \in {"idle", "placing", "marking", "refreshing", "getting"}
        /\ worker.pc # "idle" <=> txn.owner = "worker"
    BY <1>1 DEF IInv, Typed, Owned, WorkerStages
  <2>3. /\ library \subseteq Items /\ noticed \subseteq Playable /\ disk \subseteq Playable
        /\ rows \in [Items -> RowType] /\ dropped \subseteq Playable
        /\ txn.owner = Nobody \/ txn.rows \in [Items -> RowType]
    BY <1>1 DEF IInv, Typed, Owned, Table
  <2> QED
    BY <2>1, <2>2, <2>3 DEF TypeOK
<1>2. IInv => TypeOK
  BY <1>1
<1> QED
  BY <1>2, InvHolds, PTL

-----------------------------------------------------------------------------
(* What a step does to a row.                                              *)

LEMMA UpdatedKeeps ==
    ASSUME IInv, GetItem, NEW i \in Items, Exists(rows, i)
    PROVE  KeepsRow(rows', i)
<1> DEFINE item == worker.item
           seen == Detect(item, noticed, FALSE)
           t == UpdateState(txn.rows, item, seen)
<1>1. worker.pc = "getting" /\ rows' = t
  BY DEF GetItem, CommitAs
<1>2. /\ txn.rows \in Table /\ KeepsRow(txn.rows, i)
      /\ item \in Playable /\ item \in Items /\ item \in disk
  BY <1>1, WorkerHolds
<1>3. /\ seen \in SeenType
      /\ Path[item] = "shared" => seen.status = "has_chinese"
  <2> HIDE DEF item
  <2> QED
    BY <1>2 DEF Detect, Readable, SeenType, Statuses
<1> HIDE DEF seen
<1>4. /\ \A j \in Items \ {item} : t[j] = txn.rows[j]
      /\ \/ t = txn.rows
         \/ /\ Exists(t, item) /\ t[item].ignored = txn.rows[item].ignored
            /\ t[item].status = seen.status
  <2> HIDE DEF item
  <2> QED
    BY <1>2, <1>3, StateUpdated
<1> HIDE DEF t
<1> QED
  BY <1>1, <1>2, <1>3, <1>4 DEF KeepsRow, Exists

\* A row stays as whoever wrote it last left it, unless a scan removes it, or the user
\* says that it is ignored or is not.
LEMMA RowStep ==
    ASSUME IInv, [Next]_vars, NEW i \in Items, Exists(rows, i)
    PROVE  \/ KeepsRow(rows', i)
           \/ \E s \in Scanners : RemoveMissing(s) /\ rows'[i] = NoRow /\ i \notin scan[s].listed
           \/ /\ Exists(rows', i) /\ rows'[i].status = rows[i].status
              /\ budget'.requests = budget.requests + 1
<1>0. KeepsRow(rows, i)
  BY DEF KeepsRow
<1>1. CASE UNCHANGED rows
  BY <1>0, <1>1
<1>2. ASSUME NEW s \in Scanners, RemoveMissing(s)
      PROVE  KeepsRow(rows', i) \/ (rows'[i] = NoRow /\ i \notin scan[s].listed)
  <2> DEFINE old == IF txn.owner = s THEN txn.rows ELSE rows
  <2>1. KeepsRow(old, i)
    <3>1. txn.owner = s => KeepsRow(txn.rows, i)
      BY MediaAssumption DEF IInv, Keeping
    <3> QED
      BY <1>0, <3>1
  <2>2. rows'[i] = IF i \in scan[s].listed THEN old[i] ELSE NoRow
    BY <1>2 DEF RemoveMissing, Kept
  <2> HIDE DEF old
  <2> QED
    BY <2>1, <2>2 DEF KeepsRow, Exists
<1>3. ASSUME WorkerStep
      PROVE  KeepsRow(rows', i)
  <2>1. ASSUME worker.pc # "idle", rows' = txn.rows
        PROVE  KeepsRow(rows', i)
    <3>1. KeepsRow(txn.rows, i)
      BY <2>1, WorkerHolds
    <3> QED
      BY <2>1, <3>1
  <2>2. CASE PlacingFails \/ JellyfinFails
    BY <2>1, <2>2 DEF PlacingFails, JellyfinFails, CommitAs
  <2>3. CASE MarkReady
    BY <1>0, <2>1, <2>3 DEF MarkReady, CommitAs
  <2>4. CASE PlaceFile \/ RefreshItem
    BY <1>0, <2>4 DEF PlaceFile, RefreshItem
  <2>5. CASE GetItem
    BY <2>5, UpdatedKeeps
  <2> QED
    BY <1>3, <2>2, <2>3, <2>4, <2>5 DEF WorkerStep
<1>4. ASSUME NEW chosen \in SUBSET Items, NEW ignored \in BOOLEAN, SetIgnored(chosen, ignored)
      PROVE  /\ Exists(rows', i) /\ rows'[i].status = rows[i].status
             /\ budget'.requests = budget.requests + 1
  <2> DEFINE row == rows[i]
  <2>1. row \in RowType /\ row # NoRow
    BY DEF IInv, Typed, Table, Exists
  <2>2. rows'[i] \in {row, [row EXCEPT !.ignored = ignored]}
    BY <1>4 DEF SetIgnored
  <2> HIDE DEF row
  <2>3. row.status \in Statuses /\ row.external \in BOOLEAN
        /\ row = [status |-> row.status, external |-> row.external, ignored |-> row.ignored]
    BY <2>1, RowTypes
  <2>4. [row EXCEPT !.ignored = ignored]
          = [status |-> row.status, external |-> row.external, ignored |-> ignored]
    BY <2>3, RowChanged
  <2>5. [status |-> row.status, external |-> row.external, ignored |-> ignored] # NoRow
    BY <2>3, RowTypes DEF RowRecord
  <2>6. rows'[i] # NoRow /\ rows'[i].status = row.status
    BY <2>1, <2>2, <2>4, <2>5
  <2>7. budget'.requests = budget.requests + 1
    BY <1>4, Spent DEF SetIgnored, IInv, Typed
  <2> QED
    BY <2>6, <2>7 DEF row, Exists
<1>5. ASSUME NEW s \in Scanners, BeginScan(s) \/ ScanStep(s) \/ ListFails(s), ~RemoveMissing(s)
      PROVE  UNCHANGED rows
  BY <1>5 DEF BeginScan, ScanStep, ListFails, ListPage, Look, WriteFirst, WriteNext, ScanTimesOut
<1>6. ASSUME \/ \E j \in Playable, linked \in BOOLEAN : SetStagePlacing(j, linked)
             \/ \E j \in Playable : DeleteSubtitle(j)
             \/ \E j \in Items : RemoveItem(j) \/ AddItem(j)
             \/ Notice \/ Crash \/ UNCHANGED vars
      PROVE  UNCHANGED rows
  BY <1>6 DEF SetStagePlacing, DeleteSubtitle, RemoveItem, AddItem, Notice, Crash, vars
<1> QED
  BY <1>1, <1>2, <1>3, <1>4, <1>5, <1>6 DEF Next

\* A scan deletes a row only if Jellyfin was without the item since the scan began, or
\* an item left the library while its pages were being read.
THEOREM RemovedOnlyMissing == Spec => RemovedWasMissing
<1> DEFINE Removed == \A i \in Items :
             Exists(rows, i) /\ ~Exists(rows', i) =>
                 \E s \in Scanners :
                     /\ scan[s].pc # "idle" /\ scan'[s].pc = "idle"
                     /\ i \in scan[s].absent \/ scan[s].shifted
<1>1. ASSUME IInv, [Next]_vars, NEW i \in Items, Exists(rows, i), ~Exists(rows', i)
      PROVE  \E s \in Scanners : /\ scan[s].pc # "idle" /\ scan'[s].pc = "idle"
                                 /\ i \in scan[s].absent \/ scan[s].shifted
  <2>1. ~KeepsRow(rows', i)
    BY <1>1 DEF KeepsRow
  <2>2. PICK s \in Scanners : RemoveMissing(s) /\ i \notin scan[s].listed
    BY <1>1, <2>1, RowStep
  <2>3. scan[s].pc \in {"looking", "writing"} /\ scan'[s].pc = "idle"
    BY <1>1, <2>2, NoScanSound DEF RemoveMissing, EndScan, IInv, Typed
  <2>4. scan[s].shifted \/ Items \ scan[s].absent \subseteq scan[s].listed
    BY <1>1, <2>3 DEF IInv, ScanSound
  <2> QED
    BY <2>2, <2>3, <2>4
<1>2. IInv /\ [Next]_vars => Removed
  BY <1>1
<1>3. RemovedWasMissing <=> [][Removed]_vars
  BY DEF RemovedWasMissing
<1> HIDE DEF Removed
<1> QED
  BY <1>2, <1>3, InvHolds, PTL DEF Spec

\* No scan and no refresh takes back what others have written while it ran.
THEOREM NothingTakenBack == Spec => NoLostUpdate
<1> DEFINE NotTakenBack == \A i \in Items :
             Exists(rows, i) /\ Exists(rows', i) =>
                 /\ rows'[i].ignored # rows[i].ignored => budget'.requests = budget.requests + 1
                 /\ /\ i \in disk \ dropped /\ rows[i].status = "has_chinese"
                    /\ worker.item # i \/ Path[i] = "shared"
                    => rows'[i].status = "has_chinese"
<1>1. ASSUME IInv, [Next]_vars, NEW i \in Items, Exists(rows, i), Exists(rows', i)
      PROVE  /\ rows'[i].ignored # rows[i].ignored => budget'.requests = budget.requests + 1
             /\ /\ i \in disk \ dropped /\ rows[i].status = "has_chinese"
                /\ worker.item # i \/ Path[i] = "shared"
                => rows'[i].status = "has_chinese"
  <2>1. \/ KeepsRow(rows', i)
        \/ /\ rows'[i].status = rows[i].status /\ budget'.requests = budget.requests + 1
    BY <1>1, RowStep DEF Exists
  <2> QED
    BY <2>1 DEF KeepsRow
<1>2. IInv /\ [Next]_vars => NotTakenBack
  BY <1>1
<1>3. NoLostUpdate <=> [][NotTakenBack]_vars
  BY DEF NoLostUpdate
<1> HIDE DEF NotTakenBack
<1> QED
  BY <1>2, <1>3, InvHolds, PTL DEF Spec

LEMMA RolledUp ==
    ASSUME NEW statuses, RollUp(statuses) = "has_chinese"
    PROVE  statuses = {"has_chinese"}
<1>1. statuses # {} /\ statuses \in {{"has_chinese"}, {"missing"}, {"unknown"}}
  BY DEF RollUp
<1>2. (CHOOSE status \in statuses : TRUE) = "has_chinese"
  BY <1>1 DEF RollUp
<1>3. "has_chinese" \in statuses
  BY <1>1, <1>2
<1> QED
  BY <1>1, <1>3

\* In a library that the tree shows the whole of, what is shown to be complete is.
THEOREM CompleteShown ==
    ASSUME Cardinality(Items) <= TreeLimit
    PROVE  Spec => []CompleteIsComplete
<1> DEFINE S == {i \in Items : Exists(rows, i)}
<1>1. Shown = S
  <2>1. S \subseteq Items /\ Shown = Slice(S, 0, TreeLimit)
    BY DEF Shown
  <2> HIDE DEF S
  <2>2. ASSUME NEW i \in S
        PROVE  Rank(S, i) \in 0..(0 + TreeLimit - 1)
    <3>1. Rank(S, i) \in Nat /\ Rank(S, i) < Cardinality(S)
      BY <2>1, Ranks
    <3>2. Cardinality(S) <= Cardinality(Items) /\ Cardinality(S) \in Nat
          /\ Cardinality(Items) \in Nat /\ TreeLimit \in Nat
      BY <2>1, FiniteItems, MediaAssumption
    <3> QED
      BY <3>1, <3>2
  <2> QED
    BY <2>1, <2>2 DEF Slice
<1>2. ASSUME IInv
      PROVE  CompleteIsComplete
  <2>1. \A i \in Playable : rows[i].status = "has_chinese" => i \in Has
    BY <1>2 DEF IInv, Truthful
  <2>2. ASSUME NEW i \in Playable \cap Shown, CardStatus(i) = "has_chinese"
        PROVE  i \in Has
    BY <2>1, <2>2 DEF CardStatus
  <2>3. ASSUME NEW s \in Series, SeriesStatus(s) = "has_chinese",
               NEW e \in Episodes, SeriesOf[e] = s, Exists(rows, e)
        PROVE  e \in Has
    <3> DEFINE statuses == {rows[f].status : f \in {f \in Episodes \cap Shown : SeriesOf[f] = s}}
    <3>1. RollUp(statuses) = "has_chinese"
      BY <2>3 DEF SeriesStatus
    <3>2. statuses = {"has_chinese"}
      <4> HIDE DEF statuses
      <4> QED
        BY <3>1, RolledUp
    <3>3. e \in Playable /\ e \in Shown
      BY <1>1, <2>3, MediaAssumption DEF Playable
    <3>4. rows[e].status \in statuses
      BY <2>3, <3>3
    <3> QED
      BY <2>1, <3>2, <3>3, <3>4
  <2> QED
    BY <2>2, <2>3 DEF CompleteIsComplete, Has
<1>3. IInv => CompleteIsComplete
  BY <1>2
<1> QED
  BY <1>3, InvHolds, PTL

=============================================================================
