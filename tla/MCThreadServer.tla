--------------------------- MODULE MCThreadServer ---------------------------
(***************************************************************************)
(* ThreadServer for TLC: MaxThreads bounds the connections of a run.       *)
(***************************************************************************)
EXTENDS ThreadServer
=============================================================================
