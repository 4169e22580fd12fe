--------------------------- MODULE MCSelectServer ---------------------------
(***************************************************************************)
(* SelectServer for TLC.  Nothing counts up for ever: descriptors, entries *)
(* and the backlog are all that is bounded.                                *)
(***************************************************************************)
EXTENDS SelectServer
=============================================================================
