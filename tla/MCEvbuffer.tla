----------------------------- MODULE MCEvbuffer -----------------------------
(* Two buffers; the strings are one or two bytes, and one byte is followed. *)
EXTENDS Evbuffer
CONSTANTS b1, b2
TwoBuffers == {b1, b2}
Short == {<<"o">>, <<"x">>, <<"o", "x">>}
=============================================================================
