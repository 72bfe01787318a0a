-------------------------- MODULE RingBufferProofs --------------------------
(***************************************************************************)
(* Proofs, for a ring of any size and any bytes, that module RingBuffer    *)
(* keeps its invariants and implements ByteQueue; and, for every word of   *)
(* at most 32 bits, that module BuffSize computes the size of the ring.    *)
(***************************************************************************)
EXTENDS EventBuffer, SequenceTheorems, WellFoundedInduction, TLAPS

-----------------------------------------------------------------------------
(* Positions and indices.                                                  *)

LEMMA NoMultipleBelow ==
  ASSUME NEW n \in Nat \ {0}, NEW d \in Int, -n < d * n, d * n < n
  PROVE  d = 0
<1>1. CASE d >= 1
  <2>1. d * n >= n
    BY <1>1
  <2> QED
    BY <2>1
<1>2. CASE d <= -1
  <2>1. d * n <= -n
    BY <1>2
  <2> QED
    BY <2>1
<1> QED
  BY <1>1, <1>2

LEMMA Remainder ==
  ASSUME NEW n \in Nat \ {0}, NEW p \in Int, NEW q \in Int, NEW r \in 0 .. n - 1,
         p = q * n + r
  PROVE  p % n = r
<1>1. p = ((p \div n) * n) + (p % n) /\ (p % n) \in 0 .. n - 1 /\ p \div n \in Int
  OBVIOUS
<1>2. (q - (p \div n)) * n = (p % n) - r
  BY <1>1
<1>3. q - (p \div n) = 0
  BY <1>1, <1>2, NoMultipleBelow
<1> QED
  BY <1>1, <1>3

LEMMA IndexOf ==
  ASSUME NEW p \in Nat
  PROVE  p % Size \in Index
  BY SizeAssumption DEF Index

(* The index k places after position p. *)
LEMMA Shifted ==
  ASSUME NEW p \in Nat, NEW k \in 0 .. Size
  PROVE  (p + k) % Size = IF (p % Size) + k < Size THEN (p % Size) + k
                          ELSE (p % Size) + k - Size
<1> DEFINE q == p \div Size
           r == p % Size
           s == IF r + k < Size THEN r + k ELSE r + k - Size
           t == IF r + k < Size THEN q ELSE q + 1
<1>1. p = q * Size + r /\ r \in 0 .. Size - 1 /\ q \in Int
  BY SizeAssumption
<1> HIDE DEF q, r
<1>2. s \in 0 .. Size - 1 /\ t \in Int
  BY <1>1, SizeAssumption
<1>3. p + k = t * Size + s /\ p + k \in Int
  <2>1. (q + 1) * Size = q * Size + Size
    BY <1>1, SizeAssumption
  <2> QED
    BY <1>1, <2>1, SizeAssumption
<1> HIDE DEF s, t
<1>4. (p + k) % Size = s
  BY <1>2, <1>3, Remainder, SizeAssumption
<1> QED
  BY <1>4 DEF s, r

(* The same for the mask of a created buffer: with this lemma and the next *)
(* the remainder is out of the way.                                        *)
LEMMA WrapIndex ==
  ASSUME size = Size, NEW p \in Nat
  PROVE  Wrap(p) \in Index
<1>1. p % Size \in Index
  BY IndexOf
<1>2. Wrap(p) = p % Size
  BY SizeAssumption DEF Wrap
<1> QED
  BY <1>1, <1>2

LEMMA WrapShifted ==
  ASSUME size = Size, NEW p \in Nat, NEW k \in 0 .. Size
  PROVE  Wrap(p + k) = IF Wrap(p) + k < Size THEN Wrap(p) + k ELSE Wrap(p) + k - Size
<1>1. Wrap(p) = (p % Size) /\ Wrap(p + k) = ((p + k) % Size)
  BY SizeAssumption DEF Wrap
<1>2. ((p + k) % Size) = IF (p % Size) + k < Size THEN (p % Size) + k
                         ELSE (p % Size) + k - Size
  BY Shifted
<1> QED
  BY <1>1, <1>2

(* Positions less than a ring apart have different indices. *)
LEMMA Apart ==
  ASSUME size = Size, NEW p \in Nat, NEW q \in Nat, p < q, q - p < Size
  PROVE  Wrap(p) # Wrap(q)
<1> DEFINE k == q - p
<1>1. k \in 1 .. Size - 1 /\ k \in 0 .. Size /\ p + k = q
  BY SizeAssumption
<1> HIDE DEF k
<1>2. Wrap(p + k) = IF Wrap(p) + k < Size THEN Wrap(p) + k ELSE Wrap(p) + k - Size
  BY <1>1, WrapShifted
<1>3. Wrap(p) \in Index
  BY WrapIndex
<1> QED
  BY <1>1, <1>2, <1>3, SizeAssumption DEF Index

-----------------------------------------------------------------------------
(* What the two memcpy calls of a write and of a read move.                *)

LEMMA TailBounds ==
  ASSUME size = Size, NEW p \in Nat, NEW n \in 0 .. Size
  PROVE  /\ TailSpace(p, n) \in 0 .. n
         /\ Wrap(p) + TailSpace(p, n) <= Size
         /\ TailSpace(p, n) = n \/ Wrap(p) + TailSpace(p, n) = Size
<1>1. Wrap(p) \in 0 .. Size - 1
  BY WrapIndex DEF Index
<1>2. TailSpace(p, n) = IF Size - Wrap(p) < n THEN Size - Wrap(p) ELSE n
  BY DEF TailSpace, Lesser
<1> QED
  BY <1>1, <1>2, SizeAssumption

LEMMA WriteMoves ==
  ASSUME size = Size, end \in Nat, NEW d \in Seq(Byte), NEW n \in 0 .. Size
  PROVE  /\ \A k \in 0 .. n - 1 : Stored(d, n)[Wrap(end + k)] = d[k + 1]
         /\ \A i \in Index :
              (\A k \in 0 .. n - 1 : Wrap(end + k) # i) => Stored(d, n)[i] = mem[i]
<1> DEFINE off  == Wrap(end)
           tail == TailSpace(end, n)
<1>1. /\ off \in Index /\ tail \in 0 .. n /\ off + tail <= Size
      /\ tail = n \/ off + tail = Size
  BY WrapIndex, TailBounds
<1>2. Stored(d, n) = [i \in Index |->
         IF i < n - tail THEN d[tail + i + 1]
         ELSE IF off <= i /\ i < off + tail THEN d[i - off + 1]
         ELSE mem[i]]
  BY DEF Stored
<1>3. \A k \in 0 .. n - 1 : Wrap(end + k) = IF off + k < Size THEN off + k ELSE off + k - Size
  <2> TAKE k \in 0 .. n - 1
  <2>1. k \in 0 .. Size
    BY SizeAssumption
  <2> QED
    BY <2>1, WrapShifted
<1> HIDE DEF off, tail
<1>4. ASSUME NEW k \in 0 .. n - 1
      PROVE  Stored(d, n)[Wrap(end + k)] = d[k + 1]
  <2> DEFINE w == Wrap(end + k)
  <2>1. w = IF off + k < Size THEN off + k ELSE off + k - Size
    BY <1>3
  <2> HIDE DEF w
  <2>2. CASE k < tail
    <3>1. w = off + k /\ w \in Index /\ ~(w < n - tail)
      BY <2>1, <2>2, <1>1, SizeAssumption DEF Index
    <3>2. Stored(d, n)[w] = d[w - off + 1] /\ w - off = k
      BY <3>1, <2>2, <1>1, <1>2 DEF Index
    <3> QED
      BY <3>2 DEF w
  <2>3. CASE k >= tail
    <3>1. w = k - tail /\ w \in Index /\ w < n - tail
      BY <2>1, <2>3, <1>1, SizeAssumption DEF Index
    <3>2. Stored(d, n)[w] = d[tail + w + 1] /\ tail + w = k
      BY <3>1, <2>3, <1>1, <1>2
    <3> QED
      BY <3>2 DEF w
  <2> QED
    BY <2>2, <2>3, <1>1
<1>5. ASSUME NEW i \in Index, \A k \in 0 .. n - 1 : Wrap(end + k) # i
      PROVE  Stored(d, n)[i] = mem[i]
  <2>1. ~(i < n - tail)
    <3> SUFFICES ASSUME i < n - tail PROVE FALSE
      OBVIOUS
    <3>1. tail + i \in 0 .. n - 1 /\ off + tail = Size
      BY <1>1, SizeAssumption DEF Index
    <3>2. Wrap(end + (tail + i)) = i
      <4>1. Wrap(end + (tail + i)) = IF off + (tail + i) < Size THEN off + (tail + i)
                                     ELSE off + (tail + i) - Size
        BY <3>1, <1>3
      <4> QED
        BY <4>1, <3>1, <1>1, SizeAssumption DEF Index
    <3> QED
      BY <3>1, <3>2, <1>5
  <2>2. ~(off <= i /\ i < off + tail)
    <3> SUFFICES ASSUME off <= i, i < off + tail PROVE FALSE
      OBVIOUS
    <3>1. i - off \in 0 .. n - 1
      BY <1>1, SizeAssumption DEF Index
    <3>2. Wrap(end + (i - off)) = i
      <4>1. Wrap(end + (i - off)) = IF off + (i - off) < Size THEN off + (i - off)
                                    ELSE off + (i - off) - Size
        BY <3>1, <1>3
      <4> QED
        BY <4>1, <3>1, <1>1, SizeAssumption DEF Index
    <3> QED
      BY <3>1, <3>2, <1>5
  <2> QED
    BY <1>2, <2>1, <2>2
<1> QED
  BY <1>4, <1>5

LEMMA ReadMoves ==
  ASSUME size = Size, begin \in Nat, NEW n \in 0 .. Size
  PROVE  Fetched(n) = [k \in 1 .. n |-> mem[Wrap(begin + k - 1)]]
<1> DEFINE off  == Wrap(begin)
           tail == TailSpace(begin, n)
<1>1. /\ off \in Index /\ tail \in 0 .. n /\ off + tail <= Size
      /\ tail = n \/ off + tail = Size
  BY WrapIndex, TailBounds
<1>2. Fetched(n) = [k \in 1 .. n |-> IF k <= tail THEN mem[off + k - 1] ELSE mem[k - tail - 1]]
  BY DEF Fetched
<1>3. \A k \in 0 .. Size : Wrap(begin + k) = IF off + k < Size THEN off + k ELSE off + k - Size
  BY WrapShifted
<1> HIDE DEF off, tail
<1>4. ASSUME NEW k \in 1 .. n
      PROVE  (IF k <= tail THEN mem[off + k - 1] ELSE mem[k - tail - 1]) = mem[Wrap(begin + k - 1)]
  <2>1. k - 1 \in 0 .. Size /\ begin + k - 1 = begin + (k - 1)
    BY SizeAssumption
  <2>2. Wrap(begin + k - 1) = IF off + (k - 1) < Size THEN off + (k - 1) ELSE off + (k - 1) - Size
    BY <2>1, <1>3
  <2>3. CASE k <= tail
    <3>1. Wrap(begin + k - 1) = off + k - 1
      BY <2>2, <2>3, <1>1, SizeAssumption DEF Index
    <3> QED
      BY <3>1, <2>3
  <2>4. CASE ~(k <= tail)
    <3>1. Wrap(begin + k - 1) = k - tail - 1
      BY <2>2, <2>4, <1>1, SizeAssumption DEF Index
    <3> QED
      BY <3>1, <2>4
  <2> QED
    BY <2>3, <2>4
<1> QED
  BY <1>2, <1>4

-----------------------------------------------------------------------------
(* The inductive invariant: the two parts need each other, since the       *)
(* bounds keep writes off the bytes held, and the bytes held are all that  *)
(* a read copies out.                                                      *)
IInv == TypeOK /\ RingInv

LEMMA Bounds ==
  ASSUME IInv
  PROVE  /\ begin \in Nat /\ end \in Nat /\ begin <= end
         /\ size \in {0, Size} /\ size \in Nat /\ DataSize \in 0 .. size
  BY SizeAssumption, MaxPosAssumption DEF IInv, TypeOK, RingInv, DataSize

LEMMA InitIInv == Init => IInv
  BY SizeAssumption, MaxPosAssumption DEF Init, IInv, TypeOK, RingInv, Index, Answer

LEMMA CreateStep ==
  ASSUME IInv, CreateBuff \/ CreateBuffFails
  PROVE  IInv'
<1>1. CASE CreateBuff
  BY <1>1, SizeAssumption, MaxPosAssumption
  DEF CreateBuff, IInv, TypeOK, RingInv, Index, Answer
<1>2. CASE CreateBuffFails
  BY <1>2 DEF CreateBuffFails, IInv, TypeOK, RingInv, Index, Wrap, Answer
<1> QED
  BY <1>1, <1>2

LEMMA DeleteStep ==
  ASSUME IInv, DelBuff
  PROVE  IInv'
  BY SizeAssumption, MaxPosAssumption DEF DelBuff, IInv, TypeOK, RingInv, Index, Answer

(* A write moves its bytes behind the ones held and leaves those alone. *)
LEMMA WriteEffect ==
  ASSUME IInv, NEW d \in Seq(Byte), WriteBuff(d)
  PROVE  LET n == Lesser(size - end + begin, Len(d)) IN
         /\ size = Size /\ n \in 0 .. Len(d) /\ end + n - begin <= Size
         /\ \A p \in begin .. end - 1 : mem'[Wrap(p)] = mem[Wrap(p)]
         /\ \A k \in 0 .. n - 1 : mem'[Wrap(end + k)] = d[k + 1]
         /\ mem' \in [Index -> Byte \cup {Junk}]
<1> DEFINE n == Lesser(size - end + begin, Len(d))
<1>1. size = Size
  BY Bounds DEF WriteBuff, DataSize
<1>2. n \in 0 .. Len(d) /\ end + n - begin <= Size /\ n \in 0 .. Size
  BY <1>1, Bounds, SizeAssumption DEF Lesser, DataSize
<1>3. mem' = Stored(d, n)
  BY DEF WriteBuff
<1> HIDE DEF n
<1>4. \A k \in 0 .. n - 1 : mem'[Wrap(end + k)] = d[k + 1]
  BY <1>1, <1>2, <1>3, Bounds, WriteMoves
<1>5. \A i \in Index : (\A k \in 0 .. n - 1 : Wrap(end + k) # i) => mem'[i] = mem[i]
  BY <1>1, <1>2, <1>3, Bounds, WriteMoves
<1>6. ASSUME NEW p \in begin .. end - 1
      PROVE  mem'[Wrap(p)] = mem[Wrap(p)]
  <2>1. p \in Nat /\ Wrap(p) \in Index
    BY <1>1, Bounds, WrapIndex
  <2>2. \A k \in 0 .. n - 1 : Wrap(end + k) # Wrap(p)
    <3> TAKE k \in 0 .. n - 1
    <3>1. end + k \in Nat /\ p < end + k /\ (end + k) - p < Size
      BY <1>2, <2>1, Bounds, SizeAssumption
    <3> QED
      BY <1>1, <2>1, <3>1, Apart
  <2> QED
    BY <1>5, <2>1, <2>2
<1>7. mem' \in [Index -> Byte \cup {Junk}]
  <2>1. \A i \in Index : mem'[i] \in Byte \cup {Junk}
    <3> TAKE i \in Index
    <3>1. CASE \E k \in 0 .. n - 1 : Wrap(end + k) = i
      <4>1. PICK k \in 0 .. n - 1 : Wrap(end + k) = i
        BY <3>1
      <4>2. k + 1 \in 1 .. Len(d)
        BY <1>2
      <4> QED
        BY <1>4, <4>1, <4>2
    <3>2. CASE \A k \in 0 .. n - 1 : Wrap(end + k) # i
      BY <1>5, <3>2 DEF IInv, TypeOK
    <3> QED
      BY <3>1, <3>2
  <2>2. mem' = [i \in Index |-> mem'[i]]
    BY <1>3 DEF Stored
  <2> QED
    BY <2>1, <2>2
<1> QED
  BY <1>1, <1>2, <1>4, <1>6, <1>7 DEF n

LEMMA WriteStep ==
  ASSUME IInv, NEW d \in Seq(Byte), WriteBuffFull(d) \/ WriteBuff(d)
  PROVE  IInv'
<1>1. CASE WriteBuffFull(d)
  BY <1>1 DEF WriteBuffFull, IInv, TypeOK, RingInv, Index, Wrap, Answer
<1>2. CASE WriteBuff(d)
  <2> DEFINE n == Lesser(size - end + begin, Len(d))
  <2>1. /\ size = Size /\ n \in 0 .. Len(d) /\ end + n - begin <= Size
        /\ \A p \in begin .. end - 1 : mem'[Wrap(p)] = mem[Wrap(p)]
        /\ \A k \in 0 .. n - 1 : mem'[Wrap(end + k)] = d[k + 1]
        /\ mem' \in [Index -> Byte \cup {Junk}]
    BY <1>2, WriteEffect
  <2>2. /\ size' = size /\ begin' = begin /\ end' = end + n /\ end + n <= MaxPos
        /\ reply' = Answer(1, n, << >>)
    BY <1>2 DEF WriteBuff
  <2> HIDE DEF n
  <2>3. TypeOK'
    BY <2>1, <2>2, Bounds, MaxPosAssumption DEF IInv, TypeOK, Index, Answer
  <2>4. \A p \in begin' .. end' - 1 : mem'[Wrap(p)] \in Byte
    <3> TAKE p \in begin' .. end' - 1
    <3>1. CASE p < end
      <4>1. p \in begin .. end - 1
        BY <3>1, <2>2, Bounds
      <4> QED
        BY <4>1, <2>1 DEF IInv, RingInv
    <3>2. CASE p >= end
      <4>1. p - end \in 0 .. n - 1 /\ end + (p - end) = p /\ (p - end) + 1 \in 1 .. Len(d)
        BY <3>2, <2>1, <2>2, Bounds
      <4>2. mem'[Wrap(p)] = d[(p - end) + 1]
        BY <4>1, <2>1
      <4> QED
        BY <4>1, <4>2
    <3> QED
      BY <3>1, <3>2, <2>1, <2>2, Bounds
  <2>5. RingInv'
    BY <2>1, <2>2, <2>4, Bounds DEF RingInv, Wrap
  <2> QED
    BY <2>3, <2>5 DEF IInv
<1> QED
  BY <1>1, <1>2

(* A read copies out the oldest bytes held. *)
LEMMA ReadEffect ==
  ASSUME IInv, NEW n \in 0 .. DataSize
  PROVE  /\ Fetched(n) = [k \in 1 .. n |-> mem[Wrap(begin + k - 1)]]
         /\ Fetched(n) \in Seq(Byte)
<1>1. Fetched(n) = [k \in 1 .. n |-> mem[Wrap(begin + k - 1)]]
  <2>1. CASE size = Size
    <3>1. n \in 0 .. Size
      BY <2>1, Bounds
    <3> QED
      BY <2>1, <3>1, Bounds, ReadMoves
  <2>2. CASE size = 0
    <3>1. n = 0
      BY <2>2, Bounds
    <3> QED
      BY <3>1 DEF Fetched
  <2> QED
    BY <2>1, <2>2, Bounds
<1>2. \A k \in 1 .. n : mem[Wrap(begin + k - 1)] \in Byte
  <2> TAKE k \in 1 .. n
  <2>1. begin + k - 1 \in begin .. end - 1
    BY Bounds DEF DataSize
  <2> QED
    BY <2>1 DEF IInv, RingInv
<1>3. n \in Nat
  BY Bounds
<1> QED
  BY <1>1, <1>2, <1>3

LEMMA ReadStep ==
  ASSUME IInv, NEW max \in Nat, ReadBuff(max)
  PROVE  IInv'
<1> DEFINE n == Lesser(DataSize, max)
<1>1. n \in 0 .. DataSize /\ n \in Nat
  BY Bounds DEF Lesser
<1>2. Fetched(n) \in Seq(Byte)
  BY <1>1, ReadEffect
<1>3. /\ mem' = mem /\ size' = size /\ reply' = Answer(1, n, Fetched(n))
      /\ begin' = (IF begin + n = end THEN 0 ELSE begin + n)
      /\ end' = (IF begin + n = end THEN 0 ELSE end)
  BY DEF ReadBuff
<1> HIDE DEF n
<1>4. TypeOK'
  BY <1>1, <1>2, <1>3, Bounds, MaxPosAssumption DEF IInv, TypeOK, Index, Answer, DataSize
<1>5. RingInv'
  BY <1>1, <1>3, Bounds DEF IInv, RingInv, Wrap, DataSize
<1> QED
  BY <1>4, <1>5 DEF IInv

LEMMA SkipStep ==
  ASSUME IInv, NEW n \in Nat, SkipHead(n)
  PROVE  IInv'
<1>1. TypeOK'
  BY Bounds, MaxPosAssumption DEF IInv, TypeOK, SkipHead, DataSize, Index
<1>2. RingInv'
  BY Bounds DEF IInv, RingInv, Wrap, SkipHead, DataSize
<1> QED
  BY <1>1, <1>2 DEF IInv

LEMMA Inductive == IInv /\ [Next]_vars => IInv'
<1> SUFFICES ASSUME IInv, [Next]_vars PROVE IInv'
  OBVIOUS
<1>1. CASE CreateBuff \/ CreateBuffFails
  BY <1>1, CreateStep
<1>2. CASE DelBuff
  BY <1>2, DeleteStep
<1>3. ASSUME NEW d \in Chunks, WriteBuffFull(d) \/ WriteBuff(d)
      PROVE  IInv'
  BY <1>3, WriteStep, DataAssumption
<1>4. ASSUME NEW n \in 0 .. Size + 1, ReadBuff(n) \/ SkipHead(n)
      PROVE  IInv'
  BY <1>4, ReadStep, SkipStep, SizeAssumption
<1>5. CASE UNCHANGED vars
  BY <1>5 DEF vars, IInv, TypeOK, RingInv, Index, Wrap
<1> QED
  BY <1>1, <1>2, <1>3, <1>4, <1>5 DEF Next

(* For a ring of any size: no call copies out a byte nobody wrote, and     *)
(* positions and replies stay within their types.                          *)
THEOREM TypeCorrect == Spec => []TypeOK
<1>1. IInv => TypeOK
  BY DEF IInv
<1> QED
  BY <1>1, InitIInv, Inductive, PTL DEF Spec

(* For a ring of any size: the positions never cross, never hold more than *)
(* stat.size bytes, and enclose only bytes that were written.              *)
THEOREM RingCorrect == Spec => []RingInv
<1>1. IInv => RingInv
  BY DEF IInv
<1> QED
  BY <1>1, InitIInv, Inductive, PTL DEF Spec

-----------------------------------------------------------------------------
(* The ring implements the queue: under the mapping of RingBuffer, each    *)
(* call is the queue's operation of the same meaning.                      *)

LEMMA ContentsSeq ==
  ASSUME IInv
  PROVE  Contents \in Seq(Byte) /\ Len(Contents) = DataSize
<1>1. \A k \in 1 .. DataSize : mem[Wrap(begin + k - 1)] \in Byte
  <2> TAKE k \in 1 .. DataSize
  <2>1. begin + k - 1 \in begin .. end - 1
    BY Bounds DEF DataSize
  <2> QED
    BY <2>1 DEF IInv, RingInv
<1>2. DataSize \in Nat
  BY Bounds
<1> QED
  BY <1>1, <1>2 DEF Contents

(* Sequences written as functions of the same length and entries. *)
LEMMA SameEntries ==
  ASSUME NEW s \in Seq(Byte), NEW t \in Seq(Byte), Len(s) = Len(t),
         \A k \in 1 .. Len(s) : s[k] = t[k]
  PROVE  s = t
  BY SeqEqual

LEMMA SameContents ==
  ASSUME UNCHANGED <<mem, size, begin, end>>
  PROVE  Contents' = Contents
  BY DEF Contents, DataSize, Wrap

LEMMA NoContents ==
  ASSUME begin = end, end \in Nat
  PROVE  Contents = << >>
<1>1. DataSize = 0
  BY DEF DataSize
<1> QED
  BY <1>1 DEF Contents

LEMMA InitMaps == Init => Queue!Init
<1> SUFFICES ASSUME Init PROVE Queue!Init
  OBVIOUS
<1>1. Contents = << >>
  BY NoContents DEF Init
<1> QED
  BY <1>1 DEF Init, Queue!Init, Answer, Queue!Answer

LEMMA CreateMaps ==
  ASSUME IInv, CreateBuff
  PROVE  Queue!Create
<1>1. Contents' = << >>
  BY DEF CreateBuff, Contents, DataSize
<1> QED
  BY <1>1 DEF CreateBuff, Queue!Create, Answer, Queue!Answer

LEMMA CreateFailsMaps ==
  ASSUME IInv, CreateBuffFails
  PROVE  Queue!CreateFails
  BY SameContents DEF CreateBuffFails, Queue!CreateFails, Answer, Queue!Answer

LEMMA DeleteMaps ==
  ASSUME IInv, DelBuff
  PROVE  Queue!Delete
<1>1. Contents' = << >>
  BY DEF DelBuff, Contents, DataSize
<1> QED
  BY <1>1 DEF DelBuff, Queue!Delete, Answer, Queue!Answer

LEMMA WriteFullMaps ==
  ASSUME IInv, NEW d \in Seq(Byte), WriteBuffFull(d)
  PROVE  Queue!PutRefused(d)
  BY SameContents, ContentsSeq DEF WriteBuffFull, Queue!PutRefused, Answer, Queue!Answer

LEMMA WriteMaps ==
  ASSUME IInv, NEW d \in Seq(Byte), WriteBuff(d)
  PROVE  Queue!Put(d)
<1> DEFINE n == Lesser(size - end + begin, Len(d))
           put == Contents \o SubSeq(d, 1, n)
<1>1. /\ size = Size /\ n \in 0 .. Len(d) /\ end + n - begin <= Size
      /\ \A p \in begin .. end - 1 : mem'[Wrap(p)] = mem[Wrap(p)]
      /\ \A k \in 0 .. n - 1 : mem'[Wrap(end + k)] = d[k + 1]
  BY WriteEffect
<1>2. /\ size' = size /\ begin' = begin /\ end' = end + n
      /\ reply' = Answer(1, n, << >>) /\ size # DataSize
  BY DEF WriteBuff
<1>3. n = Queue!Lesser(size - Len(Contents), Len(d))
  <2>1. size - end + begin = size - Len(Contents)
    BY Bounds, ContentsSeq DEF DataSize
  <2> QED
    BY <2>1 DEF Lesser, Queue!Lesser
<1> HIDE DEF n
<1>4. /\ Contents \in Seq(Byte) /\ Len(Contents) = DataSize
      /\ SubSeq(d, 1, n) \in Seq(Byte) /\ Len(SubSeq(d, 1, n)) = n
      /\ \A k \in 1 .. n : SubSeq(d, 1, n)[k] = d[k]
  BY <1>1, ContentsSeq
<1>5. /\ put \in Seq(Byte) /\ Len(put) = DataSize + n
      /\ \A k \in 1 .. DataSize + n :
           put[k] = IF k <= DataSize THEN Contents[k] ELSE d[k - DataSize]
  <2> HIDE DEF DataSize
  <2>1. DataSize \in Nat /\ n \in Nat
    BY <1>1, Bounds
  <2> QED
    BY <1>4, <2>1
<1>6. DataSize' = DataSize + n
  BY <1>1, <1>2, Bounds DEF DataSize
<1>7. Contents' = [k \in 1 .. DataSize + n |-> mem'[Wrap(begin + k - 1)]]
  BY <1>2, <1>6 DEF Contents, Wrap
<1>8. \A k \in 1 .. DataSize + n : Contents'[k] = put[k]
  <2> TAKE k \in 1 .. DataSize + n
  <2>1. Contents'[k] = mem'[Wrap(begin + k - 1)]
    BY <1>7
  <2>2. CASE k <= DataSize
    <3>1. begin + k - 1 \in begin .. end - 1
      BY <2>2, <1>1, Bounds DEF DataSize
    <3>2. Contents[k] = mem[Wrap(begin + k - 1)]
      BY <2>2, <1>1, Bounds DEF Contents
    <3> QED
      BY <2>1, <2>2, <3>1, <3>2, <1>1, <1>5
  <2>3. CASE ~(k <= DataSize)
    <3> DEFINE j == k - DataSize - 1
    <3>1. j \in 0 .. n - 1 /\ end + j = begin + k - 1 /\ j + 1 = k - DataSize
      BY <2>3, <1>1, Bounds DEF DataSize
    <3> HIDE DEF j
    <3>2. mem'[Wrap(end + j)] = d[j + 1]
      BY <3>1, <1>1
    <3> QED
      BY <2>1, <2>3, <3>1, <3>2, <1>5
  <2> QED
    BY <2>2, <2>3
<1>9. Contents' \in Seq(Byte) /\ Len(Contents') = DataSize + n
  <2>1. IInv'
    BY WriteStep
  <2>2. (Contents \in Seq(Byte) /\ Len(Contents) = DataSize)'
    BY <2>1, ContentsSeq, PTL
  <2> QED
    BY <2>2, <1>6
<1>10. Contents' = put
  <2> HIDE DEF put
  <2> QED
    BY <1>5, <1>8, <1>9, SameEntries
<1>11. Len(Contents) # size
  BY <1>2, <1>4
<1> QED
  BY <1>2, <1>3, <1>10, <1>11 DEF Queue!Put, Answer, Queue!Answer

(* Moving begin over the n oldest bytes leaves the rest of the queue. *)
LEMMA Advance ==
  ASSUME IInv, NEW n \in 0 .. DataSize, UNCHANGED <<mem, size>>,
         \/ begin' = begin + n /\ end' = end
         \/ begin + n = end /\ begin' = 0 /\ end' = 0
  PROVE  Contents' = SubSeq(Contents, n + 1, Len(Contents))
<1>1. /\ Contents \in Seq(Byte) /\ Len(Contents) = DataSize /\ DataSize \in Nat
      /\ \A k \in 1 .. DataSize : Contents[k] = mem[Wrap(begin + k - 1)]
  BY ContentsSeq, Bounds DEF Contents
<1> DEFINE rest == SubSeq(Contents, n + 1, Len(Contents))
<1>2. /\ rest = [k \in 1 .. DataSize - n |-> Contents[n + k]]
      /\ rest \in Seq(Byte)
  <2> HIDE DEF Contents, DataSize
  <2>1. rest \in Seq(Byte) /\ Len(rest) = DataSize - n
        /\ \A k \in 1 .. DataSize - n : rest[k] = Contents[n + k]
    BY <1>1
  <2> HIDE DEF rest
  <2>2. rest = [k \in 1 .. DataSize - n |-> rest[k]]
    BY <2>1
  <2> QED
    BY <2>1, <2>2
<1>3. DataSize' = DataSize - n
  <2>1. begin \in Nat /\ end \in Nat /\ n \in Nat
    BY Bounds DEF DataSize
  <2>2. CASE begin' = begin + n /\ end' = end
    BY <2>1, <2>2 DEF DataSize
  <2>3. CASE begin + n = end /\ begin' = 0 /\ end' = 0
    BY <2>1, <2>3 DEF DataSize
  <2> QED
    BY <2>2, <2>3
<1>4. CASE begin' = begin + n /\ end' = end
  <2>1. Contents' = [k \in 1 .. DataSize - n |-> mem[Wrap(begin + n + k - 1)]]
    BY <1>3, <1>4 DEF Contents, Wrap
  <2>2. ASSUME NEW k \in 1 .. DataSize - n
        PROVE  Contents[n + k] = mem[Wrap(begin + n + k - 1)]
    <3>1. n + k \in 1 .. DataSize /\ begin + (n + k) - 1 = begin + n + k - 1
      BY <1>1, Bounds
    <3> QED
      BY <3>1, <1>1
  <2> QED
    BY <1>2, <2>1, <2>2
<1>5. CASE begin + n = end /\ begin' = 0 /\ end' = 0
  <2>1. DataSize - n = 0
    BY <1>5, Bounds DEF DataSize
  <2>2. Contents' = << >>
    BY <1>3, <2>1 DEF Contents
  <2> QED
    BY <1>2, <2>1, <2>2
<1> QED
  BY <1>4, <1>5

LEMMA ReadMaps ==
  ASSUME IInv, NEW max \in Nat, ReadBuff(max)
  PROVE  Queue!Get(max)
<1> DEFINE n == Lesser(DataSize, max)
<1>1. n \in 0 .. DataSize /\ n \in Nat
  BY Bounds DEF Lesser
<1>2. /\ mem' = mem /\ size' = size /\ reply' = Answer(1, n, Fetched(n))
      /\ begin' = (IF begin + n = end THEN 0 ELSE begin + n)
      /\ end' = (IF begin + n = end THEN 0 ELSE end)
  BY DEF ReadBuff
<1>3. n = Queue!Lesser(Len(Contents), max)
  BY ContentsSeq DEF Lesser, Queue!Lesser
<1> HIDE DEF n
<1>4. Contents' = SubSeq(Contents, n + 1, Len(Contents))
  BY <1>1, <1>2, Advance
<1>5. Fetched(n) = SubSeq(Contents, 1, n)
  <2>1. /\ Contents \in Seq(Byte) /\ Len(Contents) = DataSize /\ DataSize \in Nat
        /\ \A k \in 1 .. DataSize : Contents[k] = mem[Wrap(begin + k - 1)]
    BY ContentsSeq, Bounds DEF Contents
  <2>2. Fetched(n) = [k \in 1 .. n |-> mem[Wrap(begin + k - 1)]]
    BY <1>1, ReadEffect
  <2>3. SubSeq(Contents, 1, n) = [k \in 1 .. n |-> Contents[k]]
    BY <1>1, <2>1
  <2> QED
    BY <1>1, <2>1, <2>2, <2>3
<1> QED
  BY <1>2, <1>3, <1>4, <1>5 DEF Queue!Get, Answer, Queue!Answer

LEMMA SkipMaps ==
  ASSUME IInv, NEW n \in Nat, SkipHead(n)
  PROVE  Queue!Drop(n)
<1>1. n \in 0 .. DataSize /\ n <= Len(Contents)
  BY Bounds, ContentsSeq DEF SkipHead
<1>2. UNCHANGED <<mem, size>> /\ begin' = begin + n /\ end' = end /\ reply' = reply
  BY DEF SkipHead
<1>3. Contents' = SubSeq(Contents, n + 1, Len(Contents))
  BY <1>1, <1>2, Advance
<1> QED
  BY <1>1, <1>2, <1>3 DEF Queue!Drop

LEMMA NextMaps == IInv /\ [Next]_vars => [Queue!Next]_(Queue!vars)
<1> SUFFICES ASSUME IInv, [Next]_vars PROVE [Queue!Next]_(Queue!vars)
  OBVIOUS
<1>1. CASE CreateBuff
  BY <1>1, CreateMaps DEF Queue!Next
<1>2. CASE CreateBuffFails
  BY <1>2, CreateFailsMaps DEF Queue!Next
<1>3. CASE DelBuff
  BY <1>3, DeleteMaps DEF Queue!Next
<1>4. ASSUME NEW d \in Chunks, WriteBuffFull(d) \/ WriteBuff(d)
      PROVE  Queue!Next
  BY <1>4, WriteFullMaps, WriteMaps, DataAssumption DEF Queue!Next
<1>5. ASSUME NEW n \in 0 .. Size + 1, ReadBuff(n) \/ SkipHead(n)
      PROVE  Queue!Next
  BY <1>5, ReadMaps, SkipMaps, SizeAssumption DEF Queue!Next
<1>6. CASE UNCHANGED vars
  BY <1>6, SameContents DEF vars, Queue!vars
<1> QED
  BY <1>1, <1>2, <1>3, <1>4, <1>5, <1>6 DEF Next

(* For a ring of any size: whatever the callers write, read and skip, they *)
(* see a bounded queue of bytes.                                           *)
THEOREM RingIsQueue == Spec => ImplementsQueue
  BY InitMaps, InitIInv, Inductive, NextMaps, PTL DEF Spec, ImplementsQueue, Queue!Spec

-----------------------------------------------------------------------------
(* The size of the ring.  One less than what was asked for has a highest   *)
(* bit; after the shifts by 1 .. 2^i every bit at most 2^(i+1) - 1 places  *)
(* under a bit of it is 1, so in a word of at most 32 bits every bit under *)
(* the highest is, and 1 more is the power of two above it.                *)

(* How far down a bit has been carried before each of the five lines. *)
Reach == <<0, 1, 3, 7, 15, 31>>

(* The bits at most n places under a bit of w. *)
Under(w, n) == {b \in Adjust!Bits : \E c \in w : b <= c /\ c <= b + n}

(* What *size is after each statement. *)
SizingInv ==
  /\ asked \in Adjust!Word
  /\ step \in 0 .. 7
  /\ step = 0 => word = asked
  /\ step \in 1 .. 6 => word = Under(Adjust!MinusOne(asked), Reach[step])
  /\ step = 7 => word = Adjust!PlusOne(Under(Adjust!MinusOne(asked), 31))

(* What the five lines shift by, and how far down they have carried a bit. *)
LEMMA ShiftsAre ==
  /\ Len(Adjust!Shifts) = 5 /\ DOMAIN Adjust!Shifts = 1 .. 5
  /\ DOMAIN Reach = 1 .. 6
  /\ \A i \in 1 .. 5 : /\ Adjust!Shifts[i] \in Nat \ {0} /\ Reach[i] \in Nat
                       /\ Adjust!Shifts[i] = Reach[i] + 1
                       /\ Reach[i + 1] = Reach[i] + Adjust!Shifts[i]
<1>1. Len(Adjust!Shifts) = 5 /\ DOMAIN Adjust!Shifts = 1 .. 5 /\ DOMAIN Reach = 1 .. 6
  BY DEF Adjust!Shifts, Reach
<1>2. /\ Adjust!Shifts[1] = 1 /\ Adjust!Shifts[2] = 2 /\ Adjust!Shifts[3] = 4
      /\ Adjust!Shifts[4] = 8 /\ Adjust!Shifts[5] = 16
  BY DEF Adjust!Shifts
<1>3. /\ Reach[1] = 0 /\ Reach[2] = 1 /\ Reach[3] = 3
      /\ Reach[4] = 7 /\ Reach[5] = 15 /\ Reach[6] = 31
  BY DEF Reach
<1>4. \A i \in 1 .. 5 : i = 1 \/ i = 2 \/ i = 3 \/ i = 4 \/ i = 5
  OBVIOUS
<1> QED
  BY <1>1, <1>2, <1>3, <1>4

(* Or-ing a word with itself shifted by one more than its reach doubles it. *)
LEMMA ShiftReaches ==
  ASSUME NEW w \in Adjust!Word, NEW r \in Nat
  PROVE  Adjust!OrShifted(Under(w, r), r + 1) = Under(w, r + (r + 1))
<1> DEFINE V == Under(w, r)
<1>1. w \subseteq Adjust!Bits /\ \A b \in Adjust!Bits : b \in 0 .. Width - 1 /\ b \in Int
  BY WidthAssumption DEF Adjust!Word, Adjust!Bits
<1>2. ASSUME NEW b \in Adjust!Bits PROVE b \in V \/ b + (r + 1) \in V
                                         <=> b \in Under(w, r + (r + 1))
  <2>1. \A x : x \in V <=> x \in Adjust!Bits /\ \E c \in w : x <= c /\ c <= x + r
    BY DEF Under
  <2>2. b \in Under(w, r + (r + 1)) <=> \E c \in w : b <= c /\ c <= b + (r + (r + 1))
    BY DEF Under
  <2>3. b \in Int /\ \A c \in w : c \in Int /\ c \in 0 .. Width - 1
    BY <1>1
  <2>4. ASSUME b \in V \/ b + (r + 1) \in V PROVE b \in Under(w, r + (r + 1))
    BY <2>1, <2>2, <2>3, <2>4
  <2>5. ASSUME NEW c \in w, b <= c, c <= b + (r + (r + 1))
        PROVE  b \in V \/ b + (r + 1) \in V
    <3>1. CASE c <= b + r
      BY <2>1, <2>5, <3>1
    <3>2. CASE c > b + r
      <4>1. b + (r + 1) <= c /\ c <= b + (r + 1) + r /\ b + (r + 1) \in Adjust!Bits
        BY <1>1, <2>3, <2>5, <3>2, WidthAssumption DEF Adjust!Bits
      <4> QED
        BY <2>1, <4>1
    <3> QED
      BY <2>3, <2>5, <3>1, <3>2
  <2> QED
    BY <2>2, <2>4, <2>5
<1>3. V \subseteq Adjust!Bits /\ Under(w, r + (r + 1)) \subseteq Adjust!Bits
  BY DEF Under
<1> HIDE DEF V
<1>4. Adjust!OrShifted(V, r + 1) = V \cup {b \in Adjust!Bits : b + (r + 1) \in V}
  BY DEF Adjust!OrShifted
<1> QED
  BY <1>2, <1>3, <1>4 DEF V

(* Every statement of DN_BuffSizeAdjust keeps the invariant of its line. *)
LEMMA SizingStep == SizingInv /\ [Adjust!Next]_sizing => SizingInv'
<1> SUFFICES ASSUME SizingInv, [Adjust!Next]_sizing PROVE SizingInv'
  OBVIOUS
<1> DEFINE D == Adjust!MinusOne(asked)
<1>0. D \in Adjust!Word
  BY DEF Adjust!MinusOne, Adjust!Word
<1>1. CASE Adjust!Decrement
  <2>1. step = 0 /\ step' = 1 /\ asked' = asked /\ word' = D
    BY <1>1 DEF Adjust!Decrement, SizingInv
  <2>2. D = Under(D, 0)
    BY <1>0, WidthAssumption DEF Under, Adjust!Word, Adjust!Bits
  <2>3. Reach[1] = 0
    BY DEF Reach
  <2> HIDE DEF D
  <2>4. Adjust!MinusOne(asked)' = D
    BY <2>1 DEF D, Adjust!MinusOne
  <2> QED
    BY <2>1, <2>2, <2>3, <2>4 DEF SizingInv
<1>2. CASE Adjust!Smear
  <2>1. /\ step \in 1 .. 5 /\ step' = step + 1 /\ asked' = asked
        /\ word' = Adjust!OrShifted(word, Adjust!Shifts[step])
    BY <1>2, ShiftsAre DEF Adjust!Smear
  <2>2. word = Under(D, Reach[step])
    BY <2>1 DEF SizingInv
  <2>3. word' = Under(D, Reach[step + 1])
    <3>1. PICK r \in Nat : r = Reach[step] /\ Adjust!Shifts[step] = r + 1
                           /\ Reach[step + 1] = r + (r + 1)
      BY <2>1, ShiftsAre
    <3> QED
      BY <1>0, <2>1, <2>2, <3>1, ShiftReaches
  <2> HIDE DEF D
  <2>4. Adjust!MinusOne(asked)' = D
    BY <2>1 DEF D, Adjust!MinusOne
  <2>5. step' \in 2 .. 6 /\ asked' \in Adjust!Word
    BY <2>1 DEF SizingInv
  <2>6. word' = Under(D, Reach[step'])
    BY <2>1, <2>3
  <2> QED
    BY <2>4, <2>5, <2>6 DEF SizingInv
<1>3. CASE Adjust!Increment
  <2>1. step = 6 /\ step' = 7 /\ asked' = asked /\ word' = Adjust!PlusOne(word)
    BY <1>3, ShiftsAre DEF Adjust!Increment
  <2>2. word = Under(D, 31)
    BY <2>1 DEF SizingInv, Reach
  <2> HIDE DEF D
  <2>4. Adjust!MinusOne(asked)' = D
    BY <2>1 DEF D, Adjust!MinusOne
  <2> QED
    BY <2>1, <2>2, <2>4 DEF SizingInv
<1>4. CASE UNCHANGED sizing
  <2>1. step' = step /\ asked' = asked /\ word' = word
    BY <1>4 DEF sizing
  <2> HIDE DEF D
  <2>2. Adjust!MinusOne(asked)' = D
    BY <2>1 DEF D, Adjust!MinusOne
  <2>3. SizingInv <=> /\ asked \in Adjust!Word
                      /\ step \in 0 .. 7
                      /\ step = 0 => word = asked
                      /\ step \in 1 .. 6 => word = Under(D, Reach[step])
                      /\ step = 7 => word = Adjust!PlusOne(Under(D, 31))
    BY DEF SizingInv, D
  <2> QED
    BY <2>1, <2>2, <2>3 DEF SizingInv
<1> QED
  BY <1>1, <1>2, <1>3, <1>4 DEF Adjust!Next

(* One less than a word with highest bit h has, with all the bits under    *)
(* its own, every bit below h, and h too if it was not the only one.       *)
(* A set of natural numbers below a bound has a greatest element. *)
LEMMA Greatest ==
  ASSUME NEW n \in Nat, NEW w \in SUBSET (0 .. n), w # {}
  PROVE  \E h \in w : \A b \in w : b <= h
<1> DEFINE R == {p \in Nat \X Nat : p[1] < p[2]}
           T == {n - b : b \in w}
<1>1. IsWellFoundedOn(R, Nat)
  BY NatLessThanWellFounded DEF OpToRel
<1>2. T \subseteq Nat /\ T # {} /\ \A b \in w : b \in Nat
  <2>1. PICK b \in w : TRUE
    OBVIOUS
  <2>2. n - b \in T
    OBVIOUS
  <2>3. T \subseteq Nat /\ \A c \in w : c \in Nat
    OBVIOUS
  <2> QED
    BY <2>2, <2>3
<1>3. PICK x \in T : \A y \in T : <<y, x>> \notin R
  <2> HIDE DEF R, T
  <2> QED
    BY <1>1, <1>2, WFMin
<1>4. PICK h \in w : x = n - h
  BY <1>3
<1>5. ASSUME NEW b \in w PROVE b <= h
  <2>1. n - b \in T /\ n - b \in Nat /\ x \in Nat /\ b \in Nat /\ h \in Nat
    BY <1>2, <1>3
  <2>2. ~(n - b < x)
    BY <1>3, <2>1
  <2> QED
    BY <1>4, <2>1, <2>2
<1> QED
  BY <1>5

LEMMA Result ==
  ASSUME NEW w \in Adjust!Word
  PROVE  Adjust!PlusOne(Under(Adjust!MinusOne(w), 31))
           = {k \in Adjust!Bits : /\ w # {}
                                  /\ Adjust!Holds(k, w)
                                  /\ \A j \in Adjust!Bits : Adjust!Holds(j, w) => k <= j}
<1> DEFINE B == Adjust!Bits
           D == Adjust!MinusOne(w)
           U == Under(D, 31)
           Holds(k) == Adjust!Holds(k, w)
           Least == {k \in B : w # {} /\ Holds(k) /\ \A j \in B : Holds(j) => k <= j}
<1>1. B = 0 .. Width - 1 /\ Width \in 1 .. 32 /\ w \subseteq B
  BY WidthAssumption DEF Adjust!Word, Adjust!Bits
<1>2. \A b : b \in D <=> b \in B /\ (b \in w <=> \E c \in w : c < b)
  <2>1. ASSUME NEW b PROVE (b \in w) \in BOOLEAN /\ (\E c \in w : c < b) \in BOOLEAN
    OBVIOUS
  <2> QED
    BY <2>1 DEF Adjust!MinusOne
<1>3. \A b : b \in U <=> b \in B /\ \E c \in D : b <= c
  BY <1>1, <1>2 DEF Under
<1>4. \A b : b \in Adjust!PlusOne(U) <=> b \in B /\ (b \in U <=> \E c \in B \ U : c < b)
  BY DEF Adjust!PlusOne
<1>5. \A k : Holds(k) <=> w = {k} \/ \A b \in w : b < k
  BY DEF Adjust!Holds
<1> HIDE DEF B, D, U, Holds
<1>6. CASE w = {}
  <2>1. D = B
    BY <1>1, <1>2, <1>6
  <2>2. U = B
    <3>1. ASSUME NEW b \in B PROVE b \in U
      <4>1. b <= b
        BY <1>1
      <4> QED
        BY <1>3, <2>1, <4>1
    <3> QED
      BY <1>3, <3>1
  <2>3. Adjust!PlusOne(U) = {}
    BY <1>4, <2>2
  <2>4. Least = {}
    BY <1>6
  <2> HIDE DEF Least
  <2> QED
    BY <2>3, <2>4 DEF Least, B, D, U, Holds
<1>7. CASE w # {}
  <2>1. PICK h \in w : \A b \in w : b <= h
    <3>1. Width - 1 \in Nat /\ w \in SUBSET (0 .. (Width - 1))
      BY <1>1
    <3> QED
      BY <1>7, <3>1, Greatest
  <2>2. h \in B /\ h \in Int /\ \A b \in B : b \in Int
    BY <1>1
  <2>3. CASE w = {h}
    <3>1. \A b : b \in D <=> b \in B /\ b < h
      BY <1>1, <1>2, <2>2, <2>3
    <3>2. \A b : b \in U <=> b \in B /\ b < h
      BY <1>1, <1>3, <2>2, <3>1
    <3>3. \A b : b \in Adjust!PlusOne(U) <=> b = h
      BY <1>1, <1>4, <2>2, <3>2
    <3>4. \A k \in B : Holds(k) <=> k = h \/ h < k
      BY <1>1, <1>5, <2>2, <2>3
    <3>5. \A b : b \in Least <=> b = h
      BY <1>1, <1>7, <2>2, <3>4
    <3> QED
      BY <3>3, <3>5 DEF B, D, U, Holds
  <2>4. CASE w # {h}
    <3>1. PICK c \in w : c < h
      <4>1. PICK c \in w : c # h
        BY <2>1, <2>4
      <4>2. c <= h /\ c \in Int
        BY <1>1, <2>1, <2>2
      <4> QED
        BY <2>2, <4>1, <4>2
    <3>2. h \in D /\ \A b \in D : b <= h
      BY <1>1, <1>2, <2>1, <2>2, <3>1
    <3>3. \A b : b \in U <=> b \in B /\ b <= h
      BY <1>1, <1>3, <2>2, <3>2
    <3>4. \A b : b \in Adjust!PlusOne(U) <=> b \in B /\ b = h + 1
      BY <1>1, <1>4, <2>2, <3>3
    <3>5. \A k \in B : Holds(k) <=> h < k
      BY <1>1, <1>5, <2>1, <2>2, <3>1
    <3>6. \A b : b \in Least <=> b \in B /\ b = h + 1
      <4>1. ASSUME NEW b \in Least PROVE b = h + 1
        <5>1. b \in B /\ h < b /\ h + 1 \in B
          BY <1>1, <2>2, <3>5
        <5>2. Holds(h + 1)
          BY <2>2, <3>5, <5>1
        <5>3. b <= h + 1
          BY <5>1, <5>2
        <5>4. b \in Int
          BY <2>2, <5>1
        <5> QED
          BY <2>2, <5>1, <5>3, <5>4
      <4>2. ASSUME h + 1 \in B PROVE h + 1 \in Least
        <5>1. Holds(h + 1)
          BY <2>2, <3>5, <4>2
        <5>2. ASSUME NEW j \in B, Holds(j) PROVE h + 1 <= j
          <6>1. j \in Int /\ h < j
            BY <2>2, <3>5, <5>2
          <6> QED
            BY <2>2, <6>1
        <5> QED
          BY <1>7, <4>2, <5>1, <5>2
      <4> QED
        BY <4>1, <4>2
    <3> QED
      BY <3>4, <3>6 DEF B, D, U, Holds
  <2> QED
    BY <2>3, <2>4
<1> QED
  BY <1>6, <1>7

(* In a word of at most 32 bits DN_BuffSizeAdjust makes of every size the  *)
(* least power of two that holds it, and 0 of a size that has none.        *)
THEOREM CapacityIsPower == SizedSpec => []NextPowerOfTwo
<1>1. SizedInit => SizingInv
  BY DEF SizedInit, Adjust!Init, SizingInv
<1>2. SizingInv /\ [Resize \/ Use \/ AnotherRing]_<<vars, sizing>> => SizingInv'
  <2>1. [Resize \/ Use \/ AnotherRing]_<<vars, sizing>> => [Adjust!Next]_sizing
    BY DEF Resize, Use, AnotherRing, sizing
  <2> QED
    BY <2>1, SizingStep
<1>3. SizingInv => NextPowerOfTwo
  <2> SUFFICES ASSUME SizingInv, Adjust!Done PROVE Adjust!NextPowerOfTwo
    BY DEF NextPowerOfTwo, Adjust!NextPowerOfTwo
  <2>1. step = 7
    BY ShiftsAre DEF Adjust!Done
  <2>2. asked \in Adjust!Word
        /\ word = Adjust!PlusOne(Under(Adjust!MinusOne(asked), 31))
    BY <2>1 DEF SizingInv
  <2> QED
    BY <2>2, Result DEF Adjust!NextPowerOfTwo
<1> QED
  BY <1>1, <1>2, <1>3, PTL DEF SizedSpec

(* DN_CreateBuff with its adjustment does nothing to the ring that module  *)
(* RingBuffer does not, so that what is proved of the ring above holds of  *)
(* a ring made by DN_ResizeBuff as a whole.                                *)
THEOREM SizedRing == SizedSpec => Spec
<1>1. SizedInit => Init
  BY DEF SizedInit
<1>2. [Resize \/ Use \/ AnotherRing]_<<vars, sizing>> => [Next]_vars
  BY DEF Resize, Use, AnotherRing, vars
<1> QED
  BY <1>1, <1>2, PTL DEF SizedSpec, Spec
=============================================================================
