-------------------------- MODULE MCChildProcesses --------------------------
(***************************************************************************)
(* ChildProcesses for TLC: NChildren bounds the forks and the clients.     *)
(***************************************************************************)
EXTENDS ChildProcesses
=============================================================================
