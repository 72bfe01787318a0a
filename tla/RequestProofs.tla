--------------------------- MODULE RequestProofs ---------------------------
(***************************************************************************)
(* Proofs, for requests, files and buffers of any size, that module        *)
(* Request keeps its invariants.                                           *)
(***************************************************************************)
EXTENDS Request, StreamLemmas

(* While the head is read the buffer has the beginning of the stream, and  *)
(* nothing is lost before it is full.                                      *)
Filling ==
  ~Answered =>
    /\ entry.type = "NONE"
    /\ Len(queue) <= taken
    /\ queue = Span(0, Len(queue))
    /\ lost = Len(queue) + 1 .. taken
    /\ Len(queue) < taken => Len(queue) = Size

(* Once the request line has been read out, the rest of the head is there. *)
Done ==
  Answered =>
    /\ pc = "loop"
    /\ entry = [handler |-> "SendResponse", events |-> "OUT",
                type |-> Response(req).type, arg |-> Response(req).arg]
    /\ req.head <= req.line + Len(queue)
    /\ req.line + Len(queue) <= taken
    /\ queue = Span(req.line, req.line + Len(queue))
    /\ lost = req.line + Len(queue) + 1 .. taken
    /\ req.line + Len(queue) < taken => req.line + Len(queue) = Size

IInv == TypeOK /\ Filling /\ Done

LEMMA Sizes ==
  /\ Ask \in Nat /\ Ask > 0 /\ Size \in Nat /\ Ask <= Size
  BY SizesAssumption

LEMMA RequestIs ==
  ASSUME TypeOK
  PROVE  /\ req.path \in Paths /\ req.query \in BOOLEAN /\ req.slash \in BOOLEAN
         /\ req.slash => req.path \in Directories
         /\ req.line \in Nat /\ req.head \in Nat /\ req.total \in Nat
         /\ 0 < req.line /\ req.line < req.head /\ req.head <= req.total
<1>1. req \in Requests
  BY DEF TypeOK
<1>2. /\ req.path \in Paths
      /\ {req.query, req.slash} \subseteq BOOLEAN
      /\ req.slash => req.path \in Directories
      /\ {req.line, req.head, req.total} \subseteq Nat \ {0}
      /\ req.line < req.head
      /\ req.head <= req.total
  BY <1>1, RequestsAssumption
<1>3. req.line \in Nat \ {0} /\ req.head \in Nat \ {0} /\ req.total \in Nat \ {0}
  BY <1>2
<1>4. req.query \in BOOLEAN /\ req.slash \in BOOLEAN
  BY <1>2
<1> QED
  BY <1>2, <1>3, <1>4

LEMMA Lengths ==
  ASSUME TypeOK
  PROVE  /\ Len(queue) \in Nat /\ Len(queue) <= Size
         /\ taken \in Nat /\ sent \in Nat /\ taken <= sent /\ sent <= req.total
         /\ remain \in Nat /\ remain <= Ask
<1>1. /\ queue \in Seq(Nat) /\ Len(queue) <= Size
      /\ sent \in 0 .. req.total /\ taken \in 0 .. sent /\ remain \in 0 .. Ask
  BY DEF TypeOK
<1>2. Len(queue) \in Nat
  BY <1>1, LenProperties
<1>3. req.total \in Nat
  BY RequestIs
<1> QED
  BY <1>1, <1>2, <1>3, Sizes

LEMMA Started == Init => IInv
<1> SUFFICES ASSUME Init PROVE IInv
  OBVIOUS
<1>1. << >> \in Seq(Nat) /\ Len(<< >>) = 0 /\ << >> = Span(0, 0)
  BY EmptySeq, SpanEmpty
<1>2. wrote \in [ret : {-1, 0, 1}, size : Nat, data : Seq(Nat)]
  BY <1>1 DEF Init, In!Answer
<1>3. req.total \in Nat
  <2>1. {req.line, req.head, req.total} \subseteq Nat \ {0}
    BY RequestsAssumption DEF Init
  <2> QED
    BY <2>1
<1>4. TypeOK
  BY <1>1, <1>2, <1>3, Sizes DEF Init, TypeOK, Waiting
<1>5. ~Answered
  BY DEF Init, Answered, Waiting
<1>6. Filling
  BY <1>1 DEF Init, Filling, Waiting
<1> QED
  BY <1>4, <1>5, <1>6 DEF IInv, Done

(* What Response answers. *)
LEMMA ResponseType ==
  ASSUME TypeOK
  PROVE  /\ Response(req).type \in {"SEND400", "SEND404", "SENDFILE", "RUNCGI"}
         /\ Response(req).arg \in Paths \cup {None}
<1>1. \A d \in Directories : Index[d] \in Paths \ Directories
  BY FilesAssumption
<1>2. Statted(req) \in Paths
  BY <1>1, RequestIs DEF Statted
<1> QED
  BY <1>1, <1>2 DEF Response

-----------------------------------------------------------------------------
(* The steps.                                                              *)

(* The steps that leave the buffer, the event and the losses alone. *)
LEMMA QuietKeeps ==
  ASSUME IInv,
         UNCHANGED <<req, taken, cap, queue, wrote, entry, lost>>,
         sent' \in sent .. req.total,
         peer' \in {"alive", "fin", "rst", "gone"},
         \/ pc' = pc /\ remain' = remain
         \/ pc # "loop" /\ pc' \in {"loop", "test", "dead"} /\ remain' = remain /\ ~Answered
         \/ pc' = "recv" /\ remain' = Ask /\ ~Answered
  PROVE  IInv'
<1>1. TypeOK /\ Filling /\ Done
  BY DEF IInv
<1>2. TypeOK'
  <2>1. sent' \in 0 .. req.total /\ taken \in 0 .. sent'
    BY <1>1, Lengths
  <2>2. remain' \in 0 .. Ask /\ (pc' = "recv" => remain' > 0) /\ pc' \in {"loop", "recv", "test", "dead"}
    BY <1>1, Sizes DEF TypeOK
  <2> QED
    BY <1>1, <2>1, <2>2 DEF TypeOK
<1>3. Filling'
  BY <1>1 DEF Filling, Answered
<1>4. Done'
  <2>1. Answered' = Answered /\ (Answered => pc' = "loop")
    BY <1>1 DEF Answered, Done
  <2> QED
    BY <1>1, <2>1 DEF Done, Response, RunsProgram, NotFound, Statted
<1> QED
  BY <1>2, <1>3, <1>4 DEF IInv

LEMMA RecvKeeps ==
  ASSUME IInv, Recv
  PROVE  IInv'
<1>1. TypeOK /\ Filling /\ Done
  BY DEF IInv
<1>0. PICK L \in Nat : L = Len(queue)
  BY <1>1, Lengths
<1> DEFINE n == Received
           d == Span(taken, taken + n)
           m == Lesser(cap - L, n)
<1>2. /\ pc = "recv" /\ n > 0
      /\ taken' = taken + n /\ remain' = remain - n
      /\ In!PutRefused(d) \/ In!Put(d)
      /\ lost' = lost \cup {d[k] : k \in (Len(queue') - L) + 1 .. n}
      /\ pc' \in {"loop", "recv", "test"} /\ (pc' = "recv" => remain' > 0)
      /\ UNCHANGED <<req, sent, peer, entry>>
  BY <1>0 DEF Recv, client
<1>3. /\ L \in Nat /\ L <= Size /\ Size \in Nat /\ cap = Size
      /\ taken \in Nat /\ sent \in Nat /\ taken <= sent /\ sent <= req.total
      /\ remain \in Nat /\ remain <= Ask /\ req.total \in Nat /\ Ask \in Nat
  BY <1>0, <1>1, Lengths, RequestIs, Sizes DEF TypeOK
<1>4. /\ ~Answered /\ L <= taken /\ queue = Span(0, L) /\ lost = L + 1 .. taken
      /\ L < taken => L = Size
  BY <1>0, <1>1, <1>2 DEF Filling, Done
<1>5. n \in Nat /\ n <= remain /\ n <= sent - taken
  BY <1>2, <1>3 DEF Received, Lesser
<1> HIDE DEF n
<1>6. d \in Seq(Nat) /\ Len(d) = n /\ \A k \in 1 .. n : d[k] = taken + k
  <2>1. taken + n \in Int /\ taken \in Int /\ taken <= taken + n /\ (taken + n) - taken = n
    BY <1>3, <1>5
  <2>2. d \in Seq(Nat)
    BY <1>3, <2>1, SpanNat
  <2>3. /\ Len(d) = (taken + n) - taken
        /\ \A k \in 1 .. (taken + n) - taken : d[k] = taken + k
    BY <2>1, SpanIs
  <2> QED
    BY <2>1, <2>2, <2>3
<1>7. PICK j \in 0 .. n :
        /\ queue' = Span(0, L + j) /\ queue' \in Seq(Nat) /\ Len(queue') = L + j
        /\ L + j <= Size /\ (j > 0 => taken = L) /\ (j < n => L + j = Size)
        /\ cap' = cap
        /\ wrote' \in [ret : {-1, 0, 1}, size : Nat, data : Seq(Nat)]
  <2> HIDE DEF d
  <2>1. CASE In!PutRefused(d)
    <3>1. queue' = queue /\ L = cap /\ cap' = cap /\ wrote' = In!Answer(0, n, << >>)
      BY <1>0, <1>6, <2>1 DEF In!PutRefused
    <3>2. wrote' \in [ret : {-1, 0, 1}, size : Nat, data : Seq(Nat)]
      BY <1>5, <3>1, EmptySeq DEF In!Answer
    <3>3. queue \in Seq(Nat) /\ Len(queue) = L + 0 /\ L + 0 = L /\ 0 \in 0 .. n
      BY <1>0, <1>1, <1>3, <1>5 DEF TypeOK
    <3>4. /\ queue' = Span(0, L + 0) /\ queue' \in Seq(Nat) /\ Len(queue') = L + 0
          /\ L + 0 <= Size /\ (0 > 0 => taken = L) /\ (0 < n => L + 0 = Size)
      BY <1>3, <1>4, <3>1, <3>3
    <3> QED
      BY <3>1, <3>2, <3>3, <3>4
  <2>2. CASE In!Put(d)
    <3>1. /\ L # cap /\ queue' = queue \o SubSeq(d, 1, m) /\ cap' = cap
          /\ wrote' = In!Answer(1, m, << >>)
      BY <1>0, <1>6, <2>2 DEF In!Put, In!Lesser, Lesser
    <3>2. /\ m \in 0 .. n /\ L + m <= Size /\ (m < n => L + m = Size)
      BY <1>3, <1>5 DEF Lesser
    <3>3. taken = L
      BY <1>3, <1>4, <3>1
    <3> HIDE DEF m
    <3>4. SubSeq(d, 1, m) = Span(taken, taken + m)
      <4>1. taken \in Int /\ taken + n \in Int /\ m \in 0 .. (taken + n) - taken
        BY <1>3, <1>5, <3>2
      <4> QED
        BY <4>1, FrontOfSpan DEF d
    <3>5. queue' = Span(0, L + m)
      <4>1. 0 \in Nat /\ L + m \in Nat /\ 0 <= L /\ L <= L + m
        BY <1>3, <3>2
      <4>2. Span(0, L) \o Span(L, L + m) = Span(0, L + m)
        BY <1>3, <4>1, SpanJoin
      <4> QED
        BY <1>4, <3>1, <3>3, <3>4, <4>2
    <3>6. queue' \in Seq(Nat) /\ Len(queue') = L + m
      <4>1. L + m \in Nat
        BY <1>3, <3>2
      <4> QED
        BY <3>5, <4>1, SpanFromStart
    <3>7. wrote' \in [ret : {-1, 0, 1}, size : Nat, data : Seq(Nat)]
      BY <3>1, <3>2, EmptySeq DEF In!Answer
    <3> QED
      BY <3>1, <3>2, <3>3, <3>5, <3>6, <3>7
  <2> QED
    BY <1>2, <2>1, <2>2
<1>8. lost' = L + j + 1 .. taken + n
  <2>1. (Len(queue') - L) + 1 = j + 1
    <3>1. Len(queue') = L + j /\ L \in Int /\ j \in Int
      BY <1>3, <1>5, <1>7
    <3> QED
      BY <3>1
  <2>2. {d[k] : k \in j + 1 .. n} = taken + j + 1 .. taken + n
    <3>1. ASSUME NEW k \in j + 1 .. n
          PROVE  d[k] \in taken + j + 1 .. taken + n
      BY <1>3, <1>5, <1>6, <3>1
    <3>2. ASSUME NEW x \in taken + j + 1 .. taken + n
          PROVE  \E k \in j + 1 .. n : x = d[k]
      <4>1. x - taken \in j + 1 .. n /\ x - taken \in 1 .. n
        BY <1>3, <1>5
      <4>2. d[x - taken] = taken + (x - taken)
        BY <1>6, <4>1
      <4>3. x = d[x - taken]
        BY <1>3, <4>2
      <4> QED
        BY <4>1, <4>3
    <3> QED
      BY <3>1, <3>2
  <2>3. lost' = (L + 1 .. taken) \cup (taken + j + 1 .. taken + n)
    BY <1>2, <1>4, <2>1, <2>2
  <2> QED
    BY <1>3, <1>4, <1>5, <1>7, <2>3
<1> HIDE DEF d, m
<1>9. TypeOK'
  <2>1. taken' \in 0 .. sent /\ remain' \in 0 .. Ask
    BY <1>2, <1>3, <1>5
  <2>3. lost' \subseteq 1 .. taken'
    BY <1>2, <1>3, <1>5, <1>7, <1>8
  <2> QED
    BY <1>1, <1>2, <1>3, <1>7, <2>1, <2>3 DEF TypeOK
<1>10. Filling'
  <2>1. /\ L + j <= taken' /\ lost' = L + j + 1 .. taken'
        /\ L + j < taken' => L + j = Size
    BY <1>2, <1>3, <1>4, <1>5, <1>7, <1>8
  <2>2. queue' = Span(0, Len(queue')) /\ Len(queue') = L + j
    BY <1>7
  <2>3. entry' = entry /\ entry.type = "NONE"
    BY <1>1, <1>2, <1>4 DEF Filling
  <2> QED
    BY <2>1, <2>2, <2>3 DEF Filling
<1>11. Done'
  BY <1>2, <1>4 DEF Done, Answered
<1> QED
  BY <1>9, <1>10, <1>11 DEF IInv

LEMMA AcceptRequestKeeps ==
  ASSUME IInv, AcceptRequest
  PROVE  IInv'
<1> DEFINE L == Len(queue)
           l == req.line
<1>1. TypeOK /\ Filling /\ Done
  BY DEF IInv
<1>2. /\ pc = "test" /\ pc' = "loop" /\ HeadFound /\ In!Get(l)
      /\ entry' = [handler |-> "SendResponse", events |-> "OUT",
                   type |-> Response(req).type, arg |-> Response(req).arg]
      /\ UNCHANGED <<req, sent, peer, taken, remain, lost>>
  BY DEF AcceptRequest, LineRead, client
<1>3. /\ L \in Nat /\ L <= Size /\ cap = Size /\ taken \in Nat
      /\ l \in Nat /\ req.head \in Nat /\ 0 < l /\ l < req.head
      /\ queue \in Seq(Nat)
  BY <1>1, Lengths, RequestIs DEF TypeOK
<1>4. /\ ~Answered /\ L <= taken /\ queue = Span(0, L) /\ lost = L + 1 .. taken
      /\ L < taken => L = Size
  BY <1>1, <1>2 DEF Filling, Done
<1>5. req.head <= L
  <2>1. PICK k \in DOMAIN queue : queue[k] = req.head
    BY <1>2 DEF HeadFound
  <2>2. DOMAIN queue = 1 .. L
    BY <1>3, LenProperties
  <2>3. \A i \in 1 .. L : queue[i] = i
    BY <1>3, <1>4 DEF Span
  <2> QED
    BY <1>3, <2>1, <2>2, <2>3
<1>6. /\ queue' = Span(l, L) /\ cap' = cap
      /\ wrote' = In!Answer(1, l, SubSeq(queue, 1, l))
  <2>1. In!Lesser(L, l) = l
    BY <1>3, <1>5 DEF In!Lesser
  <2>2. /\ queue' = SubSeq(queue, l + 1, L) /\ cap' = cap
        /\ wrote' = In!Answer(1, l, SubSeq(queue, 1, l))
    BY <1>2, <2>1 DEF In!Get
  <2>3. SubSeq(Span(0, L), l + 1, L) = Span(l, L)
    <3>1. 0 \in Int /\ L \in Int /\ l \in 0 .. L - 0 /\ L - 0 = L /\ 0 + l = l
      BY <1>3, <1>5
    <3>2. SubSeq(Span(0, L), l + 1, L - 0) = Span(0 + l, L)
      BY <3>1, BackOfSpan
    <3> QED
      BY <3>1, <3>2
  <2> QED
    BY <1>4, <2>2, <2>3
<1>7. queue' \in Seq(Nat) /\ Len(queue') = L - l
  <2>1. l \in Int /\ L \in Int /\ l <= L
    BY <1>3, <1>5
  <2>2. Span(l, L) \in Seq(Nat)
    BY <1>3, <2>1, SpanNat
  <2>3. Len(Span(l, L)) = L - l
    BY <2>1, SpanIs
  <2> QED
    BY <1>6, <2>2, <2>3
<1>8. l + Len(queue') = L
  BY <1>3, <1>7
<1>9. TypeOK'
  <2>1. wrote' \in [ret : {-1, 0, 1}, size : Nat, data : Seq(Nat)]
    <3>1. l \in 0 .. L
      BY <1>3, <1>5
    <3>2. SubSeq(queue, 1, l) \in Seq(Nat)
      BY <1>3, <3>1, Split
    <3> QED
      BY <1>3, <1>6, <3>2 DEF In!Answer
  <2>2. entry' \in [handler : {"AcceptRequest", "SendResponse"}, events : {"IN", "OUT"},
                    type : {"NONE", "SEND400", "SEND404", "SENDFILE", "RUNCGI"},
                    arg : Paths \cup {None}]
    BY <1>1, <1>2, ResponseType
  <2>3. Len(queue') <= Size
    BY <1>3, <1>7, Sizes
  <2> QED
    BY <1>1, <1>2, <1>3, <1>6, <1>7, <2>1, <2>2, <2>3 DEF TypeOK
<1>10. Answered'
  BY <1>2 DEF Answered
<1>11. Done'
  <2>1. Response(req)' = Response(req)
    BY <1>2 DEF Response, RunsProgram, NotFound, Statted
  <2> QED
    BY <1>2, <1>3, <1>4, <1>5, <1>6, <1>8, <2>1 DEF Done
<1>12. Filling'
  BY <1>10 DEF Filling
<1> QED
  BY <1>9, <1>11, <1>12 DEF IInv

LEMMA Inductive == IInv /\ [Next]_vars => IInv'
<1> SUFFICES ASSUME IInv, [Next]_vars PROVE IInv'
  OBVIOUS
<1>1. TypeOK /\ Done
  BY DEF IInv
<1>2. /\ sent \in Nat /\ req.total \in Nat /\ sent <= req.total
      /\ sent \in sent .. req.total
      /\ peer \in {"alive", "fin", "rst", "gone"}
  BY <1>1, Lengths, RequestIs DEF TypeOK
<1>3. pc \in {"recv", "test"} => ~Answered
  BY <1>1 DEF Done
<1>4. entry.events = "IN" => ~Answered
  BY <1>1 DEF Done
<1>5. CASE Client
  <2>1. CASE \E n \in 1 .. req.total : SendBytes(n)
    <3>1. sent' \in sent .. req.total
      BY <1>2, <2>1 DEF SendBytes
    <3> QED
      BY <1>2, <2>1, <3>1, QuietKeeps DEF SendBytes, buffer
  <2>2. CASE PeerFin
    BY <1>2, <2>2, QuietKeeps DEF PeerFin, buffer
  <2>3. CASE PeerReset
    BY <1>2, <2>3, QuietKeeps DEF PeerReset, buffer
  <2> QED
    BY <1>5, <2>1, <2>2, <2>3 DEF Client
<1>6. CASE Dispatch
  BY <1>2, <1>4, <1>6, QuietKeeps DEF Dispatch, client, buffer
<1>7. CASE RecvNothing
  BY <1>2, <1>3, <1>7, QuietKeeps DEF RecvNothing, client, buffer
<1>8. CASE RecvFails
  BY <1>2, <1>3, <1>8, QuietKeeps DEF RecvFails, buffer
<1>9. CASE ReadMore
  BY <1>2, <1>3, <1>9, QuietKeeps DEF ReadMore, client, buffer
<1>10. CASE UNCHANGED vars
  BY <1>2, <1>10, QuietKeeps DEF vars, client, buffer
<1>11. CASE Recv
  BY <1>11, RecvKeeps
<1>12. CASE AcceptRequest
  BY <1>12, AcceptRequestKeeps
<1>13. CASE AcceptRequestDies
  BY <1>2, <1>3, <1>13, QuietKeeps DEF AcceptRequestDies, client, buffer
<1> QED
  BY <1>5, <1>6, <1>7, <1>8, <1>9, <1>10, <1>11, <1>12, <1>13 DEF Next, Server, WaitEvent

(* The strengthened invariant: what the buffer and the socket hold of the  *)
(* request, and what has been decided from it (dn_request.c:97).           *)
THEOREM Invariance == Spec => []IInv
<1>1. IInv /\ [Next]_vars => IInv'
  BY Inductive
<1> QED
  BY Started, <1>1, PTL DEF Spec

-----------------------------------------------------------------------------
(* What follows.                                                           *)

(* Every value stays in its type, recv is never called for no bytes, and   *)
(* the in buffer is never overrun, for requests and buffers of any size.   *)
THEOREM TypeCorrect == Spec => []TypeOK
<1>1. IInv => TypeOK
  BY DEF IInv
<1> QED
  BY Invariance, <1>1, PTL

(* However a request is cut into pieces, the in buffer holds what the      *)
(* client sent, from its beginning and without a gap.                      *)
THEOREM BufferHoldsStream == Spec => []HeldIsStream
<1>1. IInv => HeldIsStream
  <2> SUFFICES ASSUME IInv PROVE HeldIsStream
    OBVIOUS
  <2>1. TypeOK /\ Filling /\ Done
    BY DEF IInv
  <2>2. Len(queue) \in Nat /\ taken \in Nat /\ req.line \in Nat
    BY <2>1, Lengths, RequestIs
  <2>3. CASE Answered
    BY <2>1, <2>2, <2>3 DEF HeldIsStream, Consumed, Done
  <2>4. CASE ~Answered
    <3>1. Consumed + Len(queue) = Len(queue)
      BY <2>2, <2>4 DEF Consumed
    <3>2. queue = Span(Consumed, Consumed + Len(queue))
      BY <2>1, <2>4, <3>1 DEF Filling, Consumed
    <3> QED
      BY <2>1, <2>2, <2>4, <3>1, <3>2 DEF HeldIsStream, Filling
  <2> QED
    BY <2>3, <2>4
<1> QED
  BY Invariance, <1>1, PTL

(* A connection that is answered has its whole head in the buffer, and is  *)
(* answered in the way its request line says.                              *)
THEOREM WholeHeadAnswered == Spec => []AnsweredWhole
<1>1. IInv => AnsweredWhole
  <2> SUFFICES ASSUME IInv, Answered PROVE AnsweredWhole
    BY DEF AnsweredWhole
  <2> DEFINE l == req.line
             L == l + Len(queue)
  <2>1. TypeOK /\ Done
    BY DEF IInv
  <2>2. /\ Len(queue) \in Nat /\ l \in Nat /\ req.head \in Nat /\ req.head <= L
        /\ queue \in Seq(Nat) /\ queue = Span(l, L)
    BY <2>1, Lengths, RequestIs DEF Done, TypeOK
  <2>3. ASSUME NEW p \in req.line + 1 .. req.head
        PROVE  \E k \in DOMAIN queue : queue[k] = p
    <3>1. p - l \in 1 .. L - l /\ L - l = Len(queue)
      BY <2>2
    <3>2. p - l \in DOMAIN queue
      BY <2>2, <3>1, LenProperties
    <3>3. queue[p - l] = l + (p - l)
      BY <2>2, <3>1 DEF Span
    <3>4. queue[p - l] = p
      BY <2>2, <3>3
    <3> QED
      BY <3>2, <3>4
  <2> QED
    BY <2>1, <2>3 DEF AnsweredWhole, Done
<1> QED
  BY Invariance, <1>1, PTL

(* GET without a query runs only what has an x bit, or the index file of a *)
(* directory named without its slash, whatever files the site has.         *)
THEOREM OnlyExecutables == Spec => []GetRunsExecutables
<1>1. IInv => GetRunsExecutables
  <2> SUFFICES ASSUME IInv, entry.type = "RUNCGI", req.method = "GET", ~req.query
               PROVE  entry.arg \in Executable \/ (req.path \in Directories /\ ~req.slash)
    BY DEF GetRunsExecutables
  <2>1. TypeOK /\ Done /\ Filling
    BY DEF IInv
  <2>2. /\ entry.type = Response(req).type /\ entry.arg = Response(req).arg
    BY <2>1 DEF Done, Filling
  <2>3. /\ req.path \in Paths /\ req.query = FALSE /\ req.slash \in BOOLEAN
        /\ req.slash => req.path \in Directories
    BY <2>1, RequestIs
  <2>4. /\ Response(req).type = "RUNCGI" => Statted(req) \in Executable \cup Directories
        /\ Response(req).type = "RUNCGI" =>
             Response(req).arg = IF Statted(req) \in Directories THEN Index[Statted(req)]
                                 ELSE Statted(req)
    BY <2>3 DEF Response, RunsProgram
  <2>5. req.slash => Statted(req) \in Paths \ Directories
    BY <2>3, FilesAssumption DEF Statted
  <2>6. ~req.slash => Statted(req) = req.path
    BY DEF Statted
  <2> QED
    BY <2>2, <2>4, <2>5, <2>6
<1> QED
  BY Invariance, <1>1, PTL
=============================================================================
