----------------------- MODULE JellyfinMediaProperties -----------------------
(***************************************************************************)
(* What the table of media items must keep to while scans, the worker and  *)
(* the user write it, and Jellyfin's library changes under them.           *)
(***************************************************************************)
EXTENDS JellyfinMedia

Statuses == {"unknown", "has_chinese", "missing", "path_missing"}
RowType == [status : Statuses, external : BOOLEAN, ignored : BOOLEAN] \cup {NoRow}

\* The state is well-typed, and the lock is with the one whose step needs it.
TypeOK ==
    /\ library \subseteq Items /\ noticed \subseteq Playable /\ disk \subseteq Playable
    /\ rows \in [Items -> RowType] /\ dropped \subseteq Playable
    /\ txn.owner = Nobody \/ txn.rows \in [Items -> RowType]
    /\ \A s \in Scanners :
          /\ scan[s].pc \in {"idle", "listing", "looking", "inserting", "updating", "writing"}
          /\ scan[s].pc = "writing" <=> txn.owner = s
          /\ scan[s].listed \subseteq Items /\ scan[s].streams \subseteq scan[s].listed
          /\ scan[s].start \in 0..Len(Order) /\ scan[s].left \subseteq scan[s].listed
    /\ worker.pc \in {"idle", "placing", "marking", "refreshing", "getting"}
    /\ worker.pc # "idle" <=> txn.owner = "worker"

\* A scan deletes a row, with what the user said of it, only if Jellyfin was without
\* the item at some time since the scan began, or if an item left the library while
\* its pages were being read, which makes the next page begin too late.
RemovedWasMissing ==
    [][\A i \in Items :
          Exists(rows, i) /\ ~Exists(rows', i) =>
              \E s \in Scanners :
                  /\ scan[s].pc # "idle" /\ scan'[s].pc = "idle"
                  /\ i \in scan[s].absent \/ scan[s].shifted]_vars

\* A scan, or the refresh after a placement, does not take back what others have
\* written while it ran.  Only the user changes whether an item is ignored; and an item
\* that is shown to have the subtitle it has is not set back by a scan that looked at it
\* too early: the first item of a scan is looked at before the scan has the lock, while
\* the worker may be placing its subtitle.
NoLostUpdate ==
    [][\A i \in Items :
          Exists(rows, i) /\ Exists(rows', i) =>
              /\ rows'[i].ignored # rows[i].ignored => budget'.requests = budget.requests + 1
              /\ /\ i \in disk \ dropped /\ rows[i].status = "has_chinese"
                 /\ worker.item # i \/ Path[i] = "shared"
                 => rows'[i].status = "has_chinese"]_vars

\* A film or an episode is shown to have a Chinese subtitle, and a series to be complete,
\* only if it has one, or each of the episodes in the table has one, in the file or beside
\* it, unless one of them was deleted.
CompleteIsComplete ==
    LET has == disk \cup Embedded \cup dropped
    IN  /\ \A i \in Playable \cap Shown : CardStatus(i) = "has_chinese" => i \in has
        /\ \A s \in Series :
              SeriesStatus(s) = "has_chinese" =>
                  {e \in Episodes : SeriesOf[e] = s /\ Exists(rows, e)} \subseteq has

\* Scans and refreshes come to an end, whoever holds the lock, and however the library
\* changes under them.
EveryWriterEnds ==
    /\ \A s \in Scanners : scan[s].pc # "idle" ~> scan[s].pc = "idle"
    /\ worker.pc # "idle" ~> worker.pc = "idle"
=============================================================================
