---------------------------- MODULE ByteBuffers ----------------------------
(***************************************************************************)
(* What an evbuffer promises (include/event2/buffer.h): a sequence of      *)
(* bytes that grows at either end, loses bytes at the front, and can pass  *)
(* them on to another buffer.                                              *)
(***************************************************************************)
EXTENDS Integers, SequencesExt

CONSTANTS Buffers

VARIABLE bytes          \* what each buffer holds, in order

Init == bytes = [b \in Buffers |-> <<>>]

Push(b, s) == bytes' = [bytes EXCEPT ![b] = @ \o s]
Unshift(b, s) == bytes' = [bytes EXCEPT ![b] = s \o @]

Size(b) == Len(bytes[b])
FirstOf(b, n) == SubSeq(bytes[b], 1, n)
Rest(b, n) == SubSeq(bytes[b], n + 1, Size(b))

Shift(b, n) == bytes' = [bytes EXCEPT ![b] = Rest(b, n)]

\* The first n bytes of src go to the end of dst.
Pass(src, dst, n) ==
    /\ src # dst
    /\ bytes' = [bytes EXCEPT ![dst] = @ \o FirstOf(src, n), ![src] = Rest(src, n)]

\* All of src goes in front of dst.
PassInFront(src, dst) ==
    /\ src # dst
    /\ bytes' = [bytes EXCEPT ![dst] = bytes[src] \o @, ![src] = <<>>]
=============================================================================
