---------------------------- MODULE TaskQueueMC ----------------------------
(***************************************************************************)
(* TaskQueue with one task and two jobs, so that a task is worked on again *)
(* while its first job still runs, and bounded faults and lapses.          *)
(***************************************************************************)
EXTENDS TaskQueue
=============================================================================
