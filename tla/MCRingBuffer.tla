---------------------------- MODULE MCRingBuffer ----------------------------
(* A ring of four bytes for a request of three, as 1 << 14 is for          *)
(* DN_DEFAULT_BUFFER_LEN = (1 << 14) - 1.  The chunks are shorter than, as *)
(* long as and longer than the ring.                                       *)
EXTENDS EventBuffer

CONSTANTS a, b

MCByte == {a, b}
MCChunks == {<< >>, <<a>>, <<b>>, <<a, b>>, <<b, a, a>>, <<a, a, b, b, a>>}

(* What module BuffSize makes of words is what the numbers make of them:   *)
(* -1 and +1 modulo 2^Width, | with the quotient by a power of two, and    *)
(* "2^k is as much as n, or more"; at both ends of the range.              *)
Sample == 0 .. 600 \cup 2 ^ Width - 600 .. 2 ^ Width - 1

ASSUME WordsAreNumbers ==
  LET W(n) == Adjust!WordOf(n) IN
  \A n \in Sample :
    /\ Adjust!MinusOne(W(n)) = W((n - 1) % 2 ^ Width)
    /\ Adjust!PlusOne(W(n)) = W((n + 1) % 2 ^ Width)
    /\ \A s \in {1, 2, 4, 8, 16} : Adjust!OrShifted(W(n), s) = W(n) \cup W(n \div 2 ^ s)
    /\ \A k \in Adjust!Bits : Adjust!Holds(k, W(n)) = (2 ^ k >= n)
=============================================================================
