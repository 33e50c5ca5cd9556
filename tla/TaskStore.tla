------------------------------ MODULE TaskStore ------------------------------
(***************************************************************************)
(* The video_tasks table and the Repository operations the queue and the   *)
(* API are built from (db/repository.py, db/models.py).  A database is a   *)
(* function from identifiers to rows; an operator takes the database a     *)
(* transaction starts from and gives the one it commits.                   *)
(***************************************************************************)
EXTENDS TaskStatus, TaskIds, RetryPolicy

CONSTANT Paths    \* the video files

ASSUME StoreAssumption == Paths # {}

RowType ==
    [status    : TaskStatuses \cup {"absent"},
     path      : Paths,
     source    : EntrySources \cup RetrySources,
     count     : 0..MaxAutoRetries,      \* auto_retry_count
     error     : Errors,                 \* error_message
     parent    : Ids \cup {NoId},        \* retry_parent_task_id
     scheduled : BOOLEAN,  \* the task has a "retry_schedule" event
     resolved  : BOOLEAN,  \* video_path_resolved is set
     due       : BOOLEAN,  \* retry_at has passed; read while in retry_wait
     nfoOpen   : BOOLEAN]  \* the metadata file may still be on its way

NewRow(status, path, source, count, parent, nfoOpen) ==
    [status |-> status, path |-> path, source |-> source, count |-> count,
     error |-> "none", parent |-> parent, scheduled |-> FALSE,
     resolved |-> FALSE, due |-> FALSE, nfoOpen |-> nfoOpen]

NoRow == NewRow("absent", CHOOSE p \in Paths : TRUE, "auto-retry", 0, NoId, FALSE)

-----------------------------------------------------------------------------
(* Queries.  `except' is a task the query leaves out, NoId for none.       *)

InFlightForPath(db, path, except) ==
    {j \in Ids : /\ db[j].status \in InFlightTaskStatuses
                 /\ db[j].path = path
                 /\ j # except}

PendingAutoRetries(db, path, except) ==
    {j \in Ids : /\ db[j].source = "auto-retry"
                 /\ db[j].status \in PendingTaskStatuses
                 /\ db[j].path = path
                 /\ j # except}

WithStatus(db, statuses) == {j \in Ids : db[j].status \in statuses}

DueRetries(db) == {j \in Ids : db[j].status = "retry_wait" /\ db[j].due}

-----------------------------------------------------------------------------
(* Updates.                                                                *)

SetStatus(db, i, status, error) ==
    [db EXCEPT ![i].status = status, ![i].error = error]

\* activate_retry_task for every task of a set.
Activate(db, ids) ==
    [j \in Ids |-> IF j \in ids
                   THEN [db[j] EXCEPT !.status = "queued", !.error = "none", !.due = FALSE]
                   ELSE db[j]]

\* (mutant) Only the retries still in retry_wait.
CancelWaitingAutoRetries(db, path, except) ==
    [j \in Ids |-> IF j \in PendingAutoRetries(db, path, except) /\ db[j].status = "retry_wait"
                   THEN [db[j] EXCEPT !.status = "skipped_existing_subtitle",
                                      !.error = "none", !.due = FALSE]
                   ELSE db[j]]

CancelPendingAutoRetries(db, path, except) ==
    [j \in Ids |-> IF j \in PendingAutoRetries(db, path, except)
                   THEN [db[j] EXCEPT !.status = "skipped_existing_subtitle",
                                      !.error = "none", !.due = FALSE]
                   ELSE db[j]]

\* (mutant) Only the tasks whose status is literally "running".
MarkRunningInterrupted(db) ==
    [j \in Ids |-> IF db[j].status = "running"
                   THEN [db[j] EXCEPT !.status = "interrupted", !.error = "interrupted"]
                   ELSE db[j]]

MarkActiveInterrupted(db) ==
    [j \in Ids |-> IF db[j].status \in ActiveTaskStatuses
                   THEN [db[j] EXCEPT !.status = "interrupted", !.error = "interrupted"]
                   ELSE db[j]]

\* (mutant) Every retry of a chain hangs from its first task.
RetryChildOfRoot(parent, row, source, status, count) ==
    NewRow(status, row.path, source, count,
           IF row.parent = NoId THEN parent ELSE row.parent, FALSE)

\* create_retry_child: the child starts again from the parent's original path.
RetryChild(parent, row, source, status, count) ==
    NewRow(status, row.path, source, count, parent, FALSE)

AutoRetryChild(parent, row) ==
    RetryChild(parent, row, "auto-retry",
               IF RetryDelay(row.status, row.error, row.count) = 0
               THEN "queued" ELSE "retry_wait",
               row.count + 1)

(***************************************************************************)
(* _create_auto_retry_child for task i: `new' is the database it commits   *)
(* and `child' the task it creates, NoId when it creates none.  The        *)
(* "retry_schedule" event makes it run once per task; an error without a   *)
(* category leaves no event.                                               *)
(***************************************************************************)
CreateAutoRetryChild(db, i, new, child) ==
    LET row == db[i]
        busy == InFlightForPath(db, row.path, i) # {}
        allowed == RetryAllowed(row.status, row.error, row.count)
    IN  \/ /\ \/ row.scheduled
              \/ ~busy /\ ~IsRetryable(row.status, row.error)
           /\ new = db
           /\ child = NoId
        \/ /\ ~row.scheduled
           /\ busy \/ (IsRetryable(row.status, row.error) /\ ~allowed)
           /\ new = [db EXCEPT ![i].scheduled = TRUE]
           /\ child = NoId
        \/ /\ ~row.scheduled /\ ~busy /\ allowed
           /\ child \in Ids /\ IsNextId(db, child)
           /\ new = [db EXCEPT ![i].scheduled = TRUE,
                               ![child] = AutoRetryChild(i, row)]
=============================================================================
