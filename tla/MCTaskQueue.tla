---------------------------- MODULE MCTaskQueue ----------------------------
(***************************************************************************)
(* Small instances of TaskQueue for TLC.                                   *)
(***************************************************************************)
EXTENDS TaskQueueProperties
=============================================================================
