---------------------------- MODULE JellyfinMedia ----------------------------
(***************************************************************************)
(* The table of media items and those who write it: the scans of a library *)
(* (api/routes.py), which read it from Jellyfin page by page (jellyfin/    *)
(* client.py) and look at the subtitles of each item (jellyfin/            *)
(* subtitle_status.py), the processing worker, which refreshes the item of *)
(* a subtitle it has placed (pipeline/orchestrator.py), and the user, who  *)
(* ignores films and series and deletes subtitles.                         *)
(*                                                                         *)
(* SQLite lets one transaction write at a time.  What it has written is    *)
(* seen by the others when it commits; whoever wants to write meanwhile    *)
(* waits, and fails when its busy timeout (30 s) is over.  A session takes *)
(* the lock with its first write, not when it begins to read: the worker   *)
(* when it enters its stage "placing", before the file is written.         *)
(***************************************************************************)
EXTENDS Integers, FiniteSets, SequencesExt

CONSTANTS
    Order,          \* all items a library may have, in the order of their names
    Series,         \* the items that are series
    SeriesOf,       \* SeriesOf[e]: the series of each episode
    Embedded,       \* items with a Chinese subtitle in the file itself
    Path,           \* Path[i]: "shared" with Jellyfin, "mapped" or "missing" here
    Scanners,       \* requests that scan the library at the same time
    PageSize,       \* page_size of list_library_items
    TreeLimit,      \* how many rows the tree of a library is made of
    Nobody, NoItem,
    MaxScans, MaxTasks, MaxChanges, MaxRequests, MaxCrashes    \* bounds

Items == ToSet(Order)
Playable == Items \ Series
Episodes == DOMAIN SeriesOf

ASSUME MediaAssumption ==
    /\ Order \in Seq(Items) /\ IsInjective(Order) /\ Series \subseteq Items
    /\ Episodes \subseteq Playable /\ \A e \in Episodes : SeriesOf[e] \in Series
    /\ Embedded \subseteq Playable /\ Path \in [Playable -> {"shared", "mapped", "missing"}]
    /\ PageSize \in Nat \ {0} /\ TreeLimit \in Nat
    /\ Nobody \notin Scanners \cup {"worker"} /\ "worker" \notin Scanners
    /\ NoItem \notin Items
    /\ {MaxScans, MaxTasks, MaxChanges, MaxRequests, MaxCrashes} \subseteq Nat

VARIABLES
    library,    \* the items Jellyfin has
    noticed,    \* those whose subtitle file Jellyfin lists among their streams
    disk,       \* those with a Chinese subtitle beside the file
    rows,       \* the table as it was committed
    txn,        \* the transaction that holds the lock, and the table as it sees it
    scan,       \* the scans
    worker,     \* the worker, from the stage "placing" on
    dropped,    \* history: the items of which a subtitle was deleted
    budget      \* how many of the bounded steps there were

vars == <<library, noticed, disk, rows, txn, scan, worker, dropped, budget>>

external == <<library, noticed, disk, dropped>>

Row(status, subtitle, ignored) ==
    [status |-> status, external |-> subtitle, ignored |-> ignored]
NoRow == Row("none", FALSE, FALSE)

NoTxn == [owner |-> Nobody, rows |-> <<>>]
NoScan == [pc |-> "idle", start |-> 0, listed |-> {}, streams |-> {}, left |-> {},
           first |-> NoItem, read |-> NoRow, seen |-> NoRow, absent |-> {}, shifted |-> FALSE]
NoWork == [pc |-> "idle", item |-> NoItem, linked |-> FALSE]

Init ==
    /\ library \in {Items, Items \ {Last(Order)}}
    /\ noticed = {} /\ disk = {} /\ dropped = {}
    /\ rows = [i \in Items |-> NoRow]
    /\ txn = NoTxn
    /\ scan = [s \in Scanners |-> NoScan]
    /\ worker = NoWork
    /\ budget = [scans |-> 0, tasks |-> 0, changes |-> 0, requests |-> 0, crashes |-> 0]

Spend(what, limit) ==
    budget[what] < limit /\ budget' = [budget EXCEPT ![what] = @ + 1]

\* (mutant) A write does not wait for the transaction of another one.
WriteAtOnce(who) == TRUE

MayWrite(who) == txn.owner \in {Nobody, who}

Exists(table, i) == table[i] # NoRow

\* The items whose names come before that of i, ...
Before == [i \in Items |->
             {j \in Items : \E m, n \in DOMAIN Order : m < n /\ Order[m] = j /\ Order[n] = i}]

\* ... and how many of them are in S.
Rank(S, i) == Cardinality(S \cap Before[i])

\* The answer to a request for `limit' of the items of S, from a place on.
Slice(S, start, limit) == {i \in S : Rank(S, i) \in start..(start + limit - 1)}

First(S) == CHOOSE i \in S : Rank(S, i) = 0

-----------------------------------------------------------------------------
(* What is known of the subtitles of an item.                              *)

Readable(i, resolved) == Path[i] = "shared" \/ (resolved /\ Path[i] = "mapped")

\* detect_subtitle_status, with the streams Jellyfin has told of and the path it
\* has told, which a scan resolves and the refresh takes as it is.
Detect(i, streams, resolved) ==
    LET beside == i \in streams \/ (Readable(i, resolved) /\ i \in disk)
    IN  [status |-> IF beside \/ i \in Embedded THEN "has_chinese"
                    ELSE IF Readable(i, resolved) THEN "missing" ELSE "path_missing",
         external |-> beside]

Seen(s, i) ==
    IF i \in Series THEN [status |-> "unknown", external |-> FALSE]
    ELSE Detect(i, scan[s].streams, TRUE)

\* (mutant) Every column is written, those that were only read too.
UpsertAll(table, i, read, seen) ==
    [table EXCEPT ![i] = Row(seen.status, seen.external, read.ignored)]

\* upsert_jellyfin_media_item_with_status: what is written of a row are the columns in
\* which what was seen is not what was read.
Upsert(table, i, read, seen) ==
    [table EXCEPT ![i].status = IF seen.status = read.status THEN @ ELSE seen.status,
                  ![i].external = IF seen.external = read.external THEN @ ELSE seen.external]

Rewrite(table, i, seen) == Upsert(table, i, table[i], seen)

\* update_jellyfin_media_item_subtitle_state and mark_..._has_chinese_subtitle.
UpdateState(table, i, seen) == IF Exists(table, i) THEN Rewrite(table, i, seen) ELSE table

Ready == [status |-> "has_chinese", external |-> TRUE]

-----------------------------------------------------------------------------
(* Scans.                                                                  *)

BeginScan(s) ==
    /\ scan[s].pc = "idle" /\ Spend("scans", MaxScans)
    /\ scan' = [scan EXCEPT ![s] = [NoScan EXCEPT !.pc = "listing", !.absent = Items \ library]]
    /\ UNCHANGED <<external, rows, txn, worker>>

Page(start) == Slice(library, start, PageSize)

\* (mutant) The first page is asked for again.
SamePage(start) == start

NextPage(start) == start + Cardinality(Page(start))

\* (mutant) Only the first page is read.
FirstPage(start) == TRUE

LastPage(start) == NextPage(start) >= Cardinality(library) \/ Page(start) = {}

\* list_library_items: until as many items were passed as Jellyfin says there are.
ListPage(s) ==
    LET page == Page(scan[s].start)
        all == scan[s].listed \cup page
        last == LastPage(scan[s].start)
    IN  /\ scan[s].pc = "listing"
        /\ scan' = [scan EXCEPT ![s] =
                      [@ EXCEPT !.pc = IF last THEN "looking" ELSE "listing",
                                !.start = NextPage(scan[s].start), !.listed = all,
                                !.streams = (scan[s].streams \ page) \cup (page \cap noticed),
                                !.left = IF last THEN all ELSE {}]]
        /\ UNCHANGED <<external, rows, txn, worker, budget>>

EndScan(s) == scan' = [scan EXCEPT ![s] = NoScan]

ListFails(s) ==
    /\ scan[s].pc = "listing"
    /\ EndScan(s)
    /\ UNCHANGED <<external, rows, txn, worker, budget>>

\* The first item is looked at, and its row read, before the session has the lock.
Look(s) ==
    /\ scan[s].pc = "looking" /\ scan[s].left # {}
    /\ LET i == First(scan[s].left)
       IN  scan' = [scan EXCEPT ![s] =
                      [@ EXCEPT !.pc = IF Exists(rows, i) THEN "updating" ELSE "inserting",
                                !.first = i, !.read = rows[i], !.seen = Seen(s, i)]]
    /\ UNCHANGED <<external, rows, txn, worker, budget>>

\* The row was deleted, or added by another scan, since it was read: the scan fails.
Overtaken(s) == Exists(rows, scan[s].first) # (scan[s].pc = "updating")

WriteFirst(s) ==
    /\ scan[s].pc \in {"inserting", "updating"} /\ MayWrite(s)
    /\ IF Overtaken(s) THEN EndScan(s) /\ UNCHANGED txn
       ELSE /\ txn' = [owner |-> s,
                        rows |-> Upsert(rows, scan[s].first, scan[s].read, scan[s].seen)]
            /\ scan' = [scan EXCEPT ![s] =
                           [@ EXCEPT !.pc = "writing", !.left = scan[s].left \ {scan[s].first},
                                     !.first = NoItem, !.read = NoRow, !.seen = NoRow]]
    /\ UNCHANGED <<external, rows, worker, budget>>

\* The others are looked at and written under the lock.
WriteNext(s) ==
    /\ scan[s].pc = "writing" /\ scan[s].left # {}
    /\ LET i == First(scan[s].left)
       IN  /\ txn' = [txn EXCEPT !.rows = Rewrite(@, i, Seen(s, i))]
           /\ scan' = [scan EXCEPT ![s].left = @ \ {i}]
    /\ UNCHANGED <<external, rows, worker, budget>>

Kept(s, table) == [i \in Items |-> IF i \in scan[s].listed THEN table[i] ELSE NoRow]

\* delete_jellyfin_media_items_missing_from_library, and the commit after it.
RemoveMissing(s) ==
    /\ scan[s].pc \in {"looking", "writing"} /\ scan[s].left = {} /\ MayWrite(s)
    /\ rows' = Kept(s, IF txn.owner = s THEN txn.rows ELSE rows)
    /\ txn' = NoTxn
    /\ EndScan(s)
    /\ UNCHANGED <<external, worker, budget>>

ScanTimesOut(s) ==
    /\ \/ scan[s].pc \in {"inserting", "updating"}
       \/ scan[s].pc = "looking" /\ scan[s].left = {}
    /\ ~MayWrite(s)
    /\ EndScan(s)
    /\ UNCHANGED <<external, rows, txn, worker, budget>>

ScanStep(s) ==
    \/ ListPage(s) \/ Look(s) \/ WriteFirst(s) \/ WriteNext(s) \/ RemoveMissing(s)
    \/ ScanTimesOut(s)

-----------------------------------------------------------------------------
(***************************************************************************)
(* The worker, between the commit before the synchronisation and the one   *)
(* at the end of the task.  The task is `linked' when it has a Jellyfin    *)
(* identifier, or a row was found by its path.                             *)
(***************************************************************************)
SetStagePlacing(i, linked) ==
    /\ worker.pc = "idle" /\ Path[i] # "missing" /\ MayWrite("worker")
    /\ Spend("tasks", MaxTasks)
    /\ txn' = [owner |-> "worker", rows |-> rows]
    /\ worker' = [pc |-> "placing", item |-> i, linked |-> linked]
    /\ UNCHANGED <<external, rows, scan>>

PlaceFile ==
    /\ worker.pc = "placing"
    /\ disk' = disk \cup {worker.item}
    /\ worker' = [worker EXCEPT !.pc = "marking"]
    /\ UNCHANGED <<library, noticed, dropped, rows, txn, scan, budget>>

CommitAs(table) == rows' = table /\ txn' = NoTxn /\ worker' = NoWork

PlacingFails ==
    /\ worker.pc = "placing"
    /\ CommitAs(txn.rows)
    /\ UNCHANGED <<external, scan, budget>>

\* _refresh_jellyfin_subtitle_state, up to the requests it sends.
MarkReady ==
    /\ worker.pc = "marking"
    /\ IF worker.linked
       THEN /\ txn' = [txn EXCEPT !.rows = UpdateState(@, worker.item, Ready)]
            /\ worker' = [worker EXCEPT !.pc = "refreshing"]
            /\ UNCHANGED rows
       ELSE CommitAs(txn.rows)
    /\ UNCHANGED <<external, scan, budget>>

\* refresh_item: Jellyfin will look at the item, now or later.
RefreshItem ==
    /\ worker.pc = "refreshing"
    /\ worker' = [worker EXCEPT !.pc = "getting"]
    /\ UNCHANGED <<external, rows, txn, scan, budget>>

GetItem ==
    /\ worker.pc = "getting" /\ worker.item \in library
    /\ CommitAs(UpdateState(txn.rows, worker.item, Detect(worker.item, noticed, FALSE)))
    /\ UNCHANGED <<external, scan, budget>>

JellyfinFails ==
    /\ worker.pc \in {"refreshing", "getting"}
    /\ CommitAs(txn.rows)
    /\ UNCHANGED <<external, scan, budget>>

WorkerStep == PlaceFile \/ PlacingFails \/ MarkReady \/ RefreshItem \/ GetItem \/ JellyfinFails

-----------------------------------------------------------------------------
(* The user, and Jellyfin.                                                 *)

\* One request for one item or several: all of them are set, or none.
SetIgnored(chosen, ignored) ==
    /\ chosen # {} /\ chosen \cap Episodes = {} /\ \A i \in chosen : Exists(rows, i)
    /\ MayWrite(Nobody) /\ Spend("requests", MaxRequests)
    /\ rows' = [i \in Items |-> IF i \in chosen THEN [rows[i] EXCEPT !.ignored = ignored]
                                                ELSE rows[i]]
    /\ UNCHANGED <<external, txn, scan, worker>>

\* A task is deleted with its subtitle; the row of the item is left alone.
DeleteSubtitle(i) ==
    /\ i \in disk /\ worker.item # i /\ Spend("requests", MaxRequests)
    /\ disk' = disk \ {i}
    /\ dropped' = dropped \cup {i}
    /\ UNCHANGED <<library, noticed, rows, txn, scan, worker>>

Notice ==
    /\ noticed # disk \cap library
    /\ noticed' = disk \cap library
    /\ UNCHANGED <<library, disk, dropped, rows, txn, scan, worker, budget>>

\* An item leaves the library: the pages that are still to be listed move up.
RemoveItem(i) ==
    /\ i \in library /\ Spend("changes", MaxChanges)
    /\ library' = library \ {i}
    /\ scan' = [s \in Scanners |->
                  IF scan[s].pc # "listing" THEN scan[s]
                  ELSE [scan[s] EXCEPT !.absent = @ \cup {i}, !.shifted = @ \/ scan[s].start > 0]]
    /\ UNCHANGED <<noticed, disk, dropped, rows, txn, worker>>

AddItem(i) ==
    /\ i \notin library /\ Spend("changes", MaxChanges)
    /\ library' = library \cup {i}
    /\ UNCHANGED <<noticed, disk, dropped, rows, txn, scan, worker>>

\* What was not committed is lost.
Crash ==
    /\ Spend("crashes", MaxCrashes)
    /\ txn' = NoTxn /\ worker' = NoWork
    /\ scan' = [s \in Scanners |-> NoScan]
    /\ UNCHANGED <<external, rows>>

-----------------------------------------------------------------------------
(* What the user is shown: _to_jellyfin_library_tree.                      *)

Shown == Slice({i \in Items : Exists(rows, i)}, 0, TreeLimit)

\* (mutant) One episode that has a subtitle is enough.
AnyOf(statuses) == IF "has_chinese" \in statuses THEN "has_chinese" ELSE "missing"

RollUp(statuses) ==
    IF statuses = {} THEN "unknown"
    ELSE IF statuses \in {{"has_chinese"}, {"missing"}, {"unknown"}}
    THEN CHOOSE status \in statuses : TRUE
    ELSE "partial"

SeriesStatus(s) ==
    IF s \in Shown /\ rows[s].ignored THEN "ignored"
    ELSE RollUp({rows[e].status : e \in {e \in Episodes \cap Shown : SeriesOf[e] = s}})

\* _to_jellyfin_tree_media_card, of a film or an episode
CardStatus(i) == IF rows[i].ignored THEN "ignored" ELSE rows[i].status

Next ==
    \/ \E s \in Scanners : BeginScan(s) \/ ScanStep(s) \/ ListFails(s)
    \/ \E i \in Playable, linked \in BOOLEAN : SetStagePlacing(i, linked)
    \/ WorkerStep
    \/ \E chosen \in SUBSET Items, ignored \in BOOLEAN : SetIgnored(chosen, ignored)
    \/ \E i \in Playable : DeleteSubtitle(i)
    \/ Notice
    \/ \E i \in Items : RemoveItem(i) \/ AddItem(i)
    \/ Crash

Spec == Init /\ [][Next]_vars

\* The threads of the scans and the worker's run on.  A request to Jellyfin is answered
\* or fails; nothing says that one of a scan ever fails.
Fairness == (\A s \in Scanners : WF_vars(ScanStep(s))) /\ WF_vars(WorkerStep)

FairSpec == Spec /\ Fairness
=============================================================================
