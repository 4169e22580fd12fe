--------------------------- MODULE MCEventServer ---------------------------
(***************************************************************************)
(* EventServer for TLC: more entries than descriptors, so that descriptors *)
(* are used again.                                                         *)
(***************************************************************************)
EXTENDS EventServer
=============================================================================
