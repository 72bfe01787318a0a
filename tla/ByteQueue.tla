----------------------------- MODULE ByteQueue -----------------------------
(***************************************************************************)
(* What an event buffer of dinner promises to its users: a bounded queue   *)
(* of bytes.  A write appends the longest prefix of the data that fits, a  *)
(* read removes a prefix, and the caller learns how many bytes moved.      *)
(* Module RingBuffer, the translation of dn_buffer.c, implements this.     *)
(***************************************************************************)
EXTENDS Integers, Sequences

CONSTANTS
  Byte,      \* the bytes that travel through a buffer
  Capacity,  \* how many of them a created buffer holds
  Chunks     \* the byte strings its users write

VARIABLES
  cap,    \* capacity now: 0 before the buffer is created and after it is deleted
  queue,  \* the bytes held, oldest first
  reply   \* what the last call gave its caller

vars == <<cap, queue, reply>>

(* ret is the value returned, size what *size holds afterwards (0 when the *)
(* call has no such argument), data the bytes copied out to the caller.    *)
Answer(ret, size, data) == [ret |-> ret, size |-> size, data |-> data]

Lesser(m, n) == IF m < n THEN m ELSE n

Init ==
  /\ cap = 0
  /\ queue = << >>
  /\ reply = Answer(1, 0, << >>)

Create ==
  /\ cap = 0
  /\ cap' = Capacity
  /\ queue' = << >>
  /\ reply' = Answer(1, 0, << >>)

CreateFails ==
  /\ cap = 0
  /\ reply' = Answer(-1, 0, << >>)
  /\ UNCHANGED <<cap, queue>>

Delete ==
  /\ cap' = 0
  /\ queue' = << >>
  /\ reply' = Answer(1, 0, << >>)

(* A full queue refuses the whole write and leaves the caller's size alone. *)
PutRefused(d) ==
  /\ Len(queue) = cap
  /\ reply' = Answer(0, Len(d), << >>)
  /\ UNCHANGED <<cap, queue>>

Put(d) ==
  LET n == Lesser(cap - Len(queue), Len(d)) IN
  /\ Len(queue) # cap
  /\ queue' = queue \o SubSeq(d, 1, n)
  /\ reply' = Answer(1, n, << >>)
  /\ UNCHANGED cap

Get(max) ==
  LET n == Lesser(Len(queue), max) IN
  /\ queue' = SubSeq(queue, n + 1, Len(queue))
  /\ reply' = Answer(1, n, SubSeq(queue, 1, n))
  /\ UNCHANGED cap

Drop(n) ==
  /\ n <= Len(queue)
  /\ queue' = SubSeq(queue, n + 1, Len(queue))
  /\ UNCHANGED <<cap, reply>>

Next ==
  \/ Create
  \/ CreateFails
  \/ Delete
  \/ \E d \in Chunks : PutRefused(d) \/ Put(d)
  \/ \E n \in 0 .. Capacity + 1 : Get(n) \/ Drop(n)

Spec == Init /\ [][Next]_vars
=============================================================================
