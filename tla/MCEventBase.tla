---------------------------- MODULE MCEventBase ----------------------------
(***************************************************************************)
(* EventBase for TLC: MaxCalls, MaxTime and MaxInputs bound the calls,    *)
(* the clock and the raised signals.                                       *)
(***************************************************************************)
EXTENDS EventBase
=============================================================================
