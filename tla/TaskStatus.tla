----------------------------- MODULE TaskStatus -----------------------------
(***************************************************************************)
(* The vocabulary of task statuses (pipeline/status.py) and of the sources *)
(* a task comes from.                                                      *)
(***************************************************************************)

ActiveTaskStatuses ==
    {"running", "resolving", "checking_existing", "checking_embedded",
     "searching", "downloading", "validating", "syncing", "placing"}

PendingTaskStatuses == {"queued", "retry_wait"}

SkippedTaskStatuses == {"skipped_existing_subtitle", "skipped_embedded_subtitle"}

SuccessTaskStatuses == {"completed"} \cup SkippedTaskStatuses

FailedTaskStatuses == {"failed", "interrupted"}

TerminalTaskStatuses == SuccessTaskStatuses \cup FailedTaskStatuses

\* What find_in_flight_task_for_path counts as "already being worked on".
InFlightTaskStatuses == ActiveTaskStatuses \cup PendingTaskStatuses

TaskStatuses == InFlightTaskStatuses \cup TerminalTaskStatuses

EntrySources == {"moviepilot-csf", "jellyfin-manual"}
RetrySources == {"manual-retry", "auto-retry"}

\* Sources whose tasks look for a further subtitle although one exists.
SupplementalSources == {"manual-retry", "jellyfin-manual"}
=============================================================================
