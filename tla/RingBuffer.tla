----------------------------- MODULE RingBuffer -----------------------------
(***************************************************************************)
(* The event buffer of dn_buffer.c: a ring of stat.size bytes with two     *)
(* positions, begin and end, that only grow until a read empties the ring, *)
(* and are reduced to an index by & (stat.size - 1).  stat.size is a power *)
(* of two (module BuffSize), so the mask is written % here.                *)
(*                                                                         *)
(* Every dn_buffer.c operation is one action, and so is the one place      *)
(* outside dn_buffer.c that moves a position by hand: DN_ExecCGI skips the *)
(* HTTP head.  The state machine is checked, and proved, to implement      *)
(* ByteQueue.                                                              *)
(***************************************************************************)
EXTENDS Integers, Sequences

CONSTANTS
  Byte,     \* the bytes that travel through the buffer
  Junk,     \* what memory holds before anything is written to it
  Size,     \* stat.size of a created buffer
  Request,  \* the size DN_CreateBuff is asked for, the bytes realloc provides
  Chunks,   \* the byte strings the callers write
  MaxPos    \* bound on the positions; they are C ints

ASSUME SizeAssumption == Size \in Nat \ {0}
ASSUME RingAssumption ==
  /\ \E k \in 0 .. 31 : Size = 2 ^ k
  /\ Request \in 1 .. Size
ASSUME DataAssumption ==
  /\ Junk \notin Byte
  /\ \A d \in Chunks : d \in Seq(Byte)
ASSUME MaxPosAssumption == MaxPos \in Nat

VARIABLES
  mem,    \* the ring's memory, by index
  size,   \* stat.size
  begin,  \* stat.begin, the position of the oldest byte held
  end,    \* stat.end, the position after the newest
  reply   \* what the last call gave its caller

vars == <<mem, size, begin, end, reply>>

Index == 0 .. Size - 1

(* The value returned, *size afterwards, and the bytes copied out. *)
Answer(ret, n, data) == [ret |-> ret, size |-> n, data |-> data]

Lesser(m, n) == IF m < n THEN m ELSE n

(* pos & (stat.size - 1); the mask is all ones when stat.size is 0. *)
Wrap(pos) == IF size = 0 THEN pos ELSE pos % size

(* A slip used to see the properties fail: end taken for the newest byte.  *)
DataSizeInclusive == end - begin + 1

DataSize == end - begin

Init ==
  /\ mem = [i \in Index |-> Junk]
  /\ size = 0
  /\ begin = 0
  /\ end = 0
  /\ reply = Answer(1, 0, << >>)

(* Callers hand DN_CreateBuff a zeroed DN_Buff_t. *)
CreateBuff ==
  /\ size = 0
  /\ size' = Size
  /\ begin' = 0
  /\ end' = 0
  /\ reply' = Answer(1, 0, << >>)
  /\ UNCHANGED mem

(* realloc returns NULL. *)
CreateBuffFails ==
  /\ size = 0
  /\ reply' = Answer(-1, 0, << >>)
  /\ UNCHANGED <<mem, size, begin, end>>

DelBuff ==
  /\ mem' = [i \in Index |-> Junk]
  /\ size' = 0
  /\ begin' = 0
  /\ end' = 0
  /\ reply' = Answer(1, 0, << >>)

(* A slip of DN_WriteBuff, used to see a property fail: the second memcpy  *)
(* forgotten.                                                              *)
StoredTailOnly(d, n) ==
  [i \in Index |->
     IF Wrap(end) <= i /\ i < Wrap(end) + Lesser(size - Wrap(end), n)
     THEN d[i - Wrap(end) + 1] ELSE mem[i]]

(* How many of n bytes at pos lie before the end of the ring. *)
TailSpace(pos, n) == Lesser(size - Wrap(pos), n)

(* The memory after the two memcpy calls of a write of n bytes of d. *)
Stored(d, n) ==
  LET off  == Wrap(end)
      tail == TailSpace(end, n)
  IN  [i \in Index |->
         IF i < n - tail THEN d[tail + i + 1]
         ELSE IF off <= i /\ i < off + tail THEN d[i - off + 1]
         ELSE mem[i]]

(* The n bytes the two memcpy calls of a read copy out. *)
Fetched(n) ==
  LET off  == Wrap(begin)
      tail == TailSpace(begin, n)
  IN  [k \in 1 .. n |-> IF k <= tail THEN mem[off + k - 1] ELSE mem[k - tail - 1]]

WriteBuffFull(d) ==
  /\ size = DataSize
  /\ reply' = Answer(0, Len(d), << >>)
  /\ UNCHANGED <<mem, size, begin, end>>

WriteBuff(d) ==
  LET n == Lesser(size - end + begin, Len(d)) IN
  /\ size # DataSize
  /\ end + n <= MaxPos
  /\ mem' = Stored(d, n)
  /\ end' = end + n
  /\ reply' = Answer(1, n, << >>)
  /\ UNCHANGED <<size, begin>>

ReadBuff(max) ==
  LET n     == Lesser(DataSize, max)
      empty == begin + n = end
  IN
  /\ begin' = IF empty THEN 0 ELSE begin + n
  /\ end' = IF empty THEN 0 ELSE end
  /\ reply' = Answer(1, n, Fetched(n))
  /\ UNCHANGED <<mem, size>>

(* DN_ExecCGI sets stat.begin to the end of the HTTP head: an address in a *)
(* ring that has not wrapped, and the ring may become empty without the    *)
(* reset of a read.                                                        *)
SkipHead(n) ==
  /\ n <= DataSize
  /\ end <= size
  /\ begin' = begin + n
  /\ UNCHANGED <<mem, size, end, reply>>

Next ==
  \/ CreateBuff
  \/ CreateBuffFails
  \/ DelBuff
  \/ \E d \in Chunks : WriteBuffFull(d) \/ WriteBuff(d)
  \/ \E n \in 0 .. Size + 1 : ReadBuff(n) \/ SkipHead(n)

Spec == Init /\ [][Next]_vars

-----------------------------------------------------------------------------
(* The positions and the memory stay within their C types, and only bytes  *)
(* somebody wrote are ever copied out to a caller of DN_ReadBuff.          *)
TypeOK ==
  /\ mem \in [Index -> Byte \cup {Junk}]
  /\ size \in {0, Size}
  /\ begin \in 0 .. MaxPos
  /\ end \in 0 .. MaxPos
  /\ reply \in [ret : {-1, 0, 1}, size : Nat, data : Seq(Byte)]

(* begin never passes end, the ring never holds more than stat.size bytes, *)
(* and each byte between the two positions is one a caller wrote.          *)
RingInv ==
  /\ begin <= end
  /\ end - begin <= size
  /\ \A p \in begin .. end - 1 : mem[Wrap(p)] \in Byte

(* The bytes held, oldest first. *)
Contents == [k \in 1 .. DataSize |-> mem[Wrap(begin + k - 1)]]

Queue == INSTANCE ByteQueue WITH
           Capacity <- Size, cap <- size, queue <- Contents

(* Through every wrap, partial write, skipped head and reset of positions, *)
(* the ring behaves as the bounded queue of bytes its callers rely on.     *)
ImplementsQueue == Queue!Spec

(* dn_buffer.c:54 says the real size of a buffer is buffer.stat.size: the  *)
(* bytes held then lie inside the memory that DN_ResizeBuff asked for.     *)
HeldInAllocation == \A p \in begin .. end - 1 : Wrap(p) < Request
=============================================================================
