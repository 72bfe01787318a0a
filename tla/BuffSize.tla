------------------------------ MODULE BuffSize ------------------------------
(***************************************************************************)
(* DN_BuffSizeAdjust of dn_buffer.c, statement by statement: the size a    *)
(* caller asks for, in an unsigned word of Width bits (32 in the code), is *)
(* turned into the capacity that module RingBuffer reduces positions by.   *)
(*                                                                         *)
(* A word is the set of the positions of its bits that are 1: the sum of   *)
(* 2^b over them is the number.                                            *)
(***************************************************************************)
EXTENDS Integers, Sequences

CONSTANT Width  \* the bits of a uint32_t

VARIABLES
  asked,  \* the size DN_ResizeBuff is called with
  size,   \* *size
  step    \* statements of DN_BuffSizeAdjust done

vars == <<asked, size, step>>

Bits == 0 .. Width - 1
Word == SUBSET Bits

(* The word of a number. *)
WordOf(n) == {b \in Bits : (n \div 2 ^ b) % 2 = 1}

(* A bit is turned by the borrow when no lower bit is 1, and by the carry  *)
(* when no lower bit is 0; from 0 and from the greatest number they wrap.  *)
MinusOne(w) == {b \in Bits : (b \in w) <=> (\E c \in w : c < b)}
PlusOne(w)  == {b \in Bits : (b \in w) <=> (\E c \in Bits \ w : c < b)}

(* w | w >> n *)
OrShifted(w, n) == w \cup {b \in Bits : b + n \in w}

(* A slip of DN_BuffSizeAdjust: one line forgotten. *)
ShiftsWithoutTwo == <<1, 4, 8, 16>>

Shifts == <<1, 2, 4, 8, 16>>

Init ==
  /\ asked \in Word
  /\ size = asked
  /\ step = 0

Decrement ==
  /\ step = 0
  /\ size' = MinusOne(size)
  /\ step' = 1
  /\ UNCHANGED asked

Smear ==
  /\ step \in DOMAIN Shifts
  /\ size' = OrShifted(size, Shifts[step])
  /\ step' = step + 1
  /\ UNCHANGED asked

Increment ==
  /\ step = Len(Shifts) + 1
  /\ size' = PlusOne(size)
  /\ step' = step + 1
  /\ UNCHANGED asked

Next == Decrement \/ Smear \/ Increment

Done == step = Len(Shifts) + 2

-----------------------------------------------------------------------------
(* 2^k is as much as w, or more: w has no bit from k on, or none but k. *)
Holds(k, w) == w = {k} \/ \A b \in w : b < k

(* dn_buffer.c:29, "Adjust size to it's next power of 2": the capacity is  *)
(* the least power of two that holds what was asked for, and 0 for a size  *)
(* that has none in a word, which is 0 itself and what exceeds half the    *)
(* word.                                                                   *)
NextPowerOfTwo ==
  Done => size = {k \in Bits : /\ asked # {}
                               /\ Holds(k, asked)
                               /\ \A j \in Bits : Holds(j, asked) => k <= j}
=============================================================================
