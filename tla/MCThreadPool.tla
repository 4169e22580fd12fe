---------------------------- MODULE MCThreadPool ----------------------------
(***************************************************************************)
(* ThreadPool for TLC: NTasks bounds every counter, since the program adds *)
(* a fixed number of tasks.                                                *)
(***************************************************************************)
EXTENDS ThreadPool
=============================================================================
