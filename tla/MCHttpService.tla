--------------------------- MODULE MCHttpService ----------------------------
(***************************************************************************)
(* HttpService for TLC: MaxConns and MaxPieces bound what the clients do.  *)
(***************************************************************************)
EXTENDS HttpService
=============================================================================
