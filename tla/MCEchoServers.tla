--------------------------- MODULE MCEchoServers ----------------------------
(***************************************************************************)
(* EchoServers for TLC: MaxBacklog and MaxSends bound what the clients do. *)
(***************************************************************************)
EXTENDS EchoServers
=============================================================================
