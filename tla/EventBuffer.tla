----------------------------- MODULE EventBuffer -----------------------------
(***************************************************************************)
(* DN_CreateBuff as a whole: DN_ResizeBuff first adjusts the size it is    *)
(* asked for (module BuffSize), and the ring (module RingBuffer) is made   *)
(* with what comes out.  RingBuffer takes its Size for granted; here it is *)
(* the result of the adjustment.  A size with no power of two in a word    *)
(* comes out as 0, and a ring of any other size than Size is another       *)
(* instance of RingBuffer, which is not followed here.                     *)
(***************************************************************************)
EXTENDS RingBuffer

CONSTANT Width  \* the bits of a uint32_t

ASSUME WidthAssumption == Width \in 1 .. 32

VARIABLES
  asked,  \* the size DN_ResizeBuff is called with
  word,   \* *size of DN_BuffSizeAdjust
  step    \* statements of DN_BuffSizeAdjust done

sizing == <<asked, word, step>>

Adjust == INSTANCE BuffSize WITH size <- word

SizedInit == Init /\ Adjust!Init

Resize == Adjust!Next /\ UNCHANGED vars

Use ==
  /\ Adjust!Done
  /\ asked = Adjust!WordOf(Request)
  /\ word = Adjust!WordOf(Size)
  /\ Next
  /\ UNCHANGED sizing

AnotherRing ==
  /\ Adjust!Done
  /\ asked # Adjust!WordOf(Request) \/ word # Adjust!WordOf(Size)
  /\ UNCHANGED <<vars, sizing>>

SizedSpec == SizedInit /\ [][Resize \/ Use \/ AnotherRing]_<<vars, sizing>>

-----------------------------------------------------------------------------
(* dn_buffer.c:29, "Adjust size to it's next power of 2": the size a ring  *)
(* works with is the least power of two that holds what was asked for, and *)
(* 0 where a word has none.                                                *)
NextPowerOfTwo == Adjust!NextPowerOfTwo
=============================================================================
