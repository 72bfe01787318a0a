------------------------------ MODULE Streams ------------------------------
(* The bytes of a stream stand for their positions in it, from 1.          *)
EXTENDS Integers, Sequences

(* The bytes at positions a + 1 to b. *)
Span(a, b) == [k \in 1 .. b - a |-> a + k]

Begins(s, t) == Len(s) <= Len(t) /\ s = SubSeq(t, 1, Len(s))

Lesser(m, n) == IF m < n THEN m ELSE n
=============================================================================
