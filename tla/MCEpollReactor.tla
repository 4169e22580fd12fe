--------------------------- MODULE MCEpollReactor ---------------------------
(***************************************************************************)
(* EpollReactor for TLC: a table shorter than the descriptors there are.   *)
(* 100 entries a turn are less than the table and do not divide it.  With  *)
(* two entries no one length is like that: a sweep of one leaves a part of *)
(* the table to the next turn, a sweep of three passes the end in its      *)
(* middle and starts elsewhere each turn.                                  *)
(***************************************************************************)
EXTENDS EpollReactor
=============================================================================
