--------------------------- MODULE MCListHandover ---------------------------
(***************************************************************************)
(* ListHandover for TLC: MaxNodes bounds the nodes, and so everything.     *)
(***************************************************************************)
EXTENDS ListHandover
=============================================================================
