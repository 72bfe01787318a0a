--------------------------- MODULE ResponseProofs ---------------------------
(***************************************************************************)
(* Proofs that module Response keeps its invariants and implements         *)
(* Delivery, whatever the lengths of the page and of the file and the      *)
(* sizes of the cache, of the out buffer and of the window.                *)
(***************************************************************************)
EXTENDS Response, StreamLemmas

Sending == {"open", "read", "write", "buff", "send"}
Ended == {"finish", "closed"}

(* The page and then n bytes of the file; when memory was short, anything  *)
(* and then n bytes of the file.                                           *)
Written(s, n) ==
  \E p \in Seq(Int) :
    /\ ~pressure => p = Span(0, PageLen)
    /\ s = p \o Span(PageLen, PageLen + n)

(* What has been read of the file and not been sent: only one of the       *)
(* places it passes holds it.                                              *)
Held == IF pc \in {"write", "buff"} THEN cache
        ELSE IF pc = "send" THEN current
        ELSE << >>

Paging ==
  /\ dataLen = PageLen - pos
  /\ pc \in {"page", "open"} => offset = 0 /\ again
  /\ inflight <= Len(wire)
  /\ pc = "page" /\ ~pressure => pos >= 0 /\ wire = Span(0, pos)

Reading ==
  /\ pc \in Sending => file \in Nat /\ offset <= file
  /\ pc \in Sending /\ again => \E q \in Nat : offset = q * Cache
  /\ pc \in Sending /\ ~again => misread \/ offset = file
  /\ pc \in {"write", "buff"} /\ writeLen = 0 =>
       offset % Cache = 0 /\ (misread \/ offset = file)

Holding ==
  /\ queue = IF pc = "buff" THEN cache ELSE << >>
  /\ pc \notin {"send"} \cup Ended => current = << >>
  /\ pc \in {"write", "buff", "send"} => len = Len(cache) /\ writeLen = Len(cache)

Flowing == pc \in Sending => Written(wire \o Held, offset)

Reporting ==
  /\ pc \notin Ended => ret = 0
  /\ pc \in Ended => ret # 0
  /\ ReportIsTrue

Begun == ~pressure => Begins(wire, Reply)

IInv ==
  /\ TypeOK
  /\ Paging
  /\ Reading
  /\ Holding
  /\ Flowing
  /\ Reporting
  /\ Begun

-----------------------------------------------------------------------------
(* The parts of a reply.                                                   *)

LEMMA Sizes ==
  /\ PageLen \in Nat /\ PageLen > 0
  /\ Cache \in Nat /\ Cache > 0
  /\ Size \in Nat /\ Cache <= Size
  /\ Window \in Nat /\ PageLen <= Window
  /\ FileLens \subseteq Nat \cup {-1}
  /\ Refusals \in Nat
<1>1. PageLen \in Nat \ {0} /\ Cache \in Nat \ {0} /\ Size \in Nat \ {0} /\ Window \in Nat \ {0}
  BY SizesAssumption
<1> QED
  BY <1>1, SizesAssumption, PageAssumption, SwitchAssumption

LEMMA PageAlone ==
  ASSUME NEW p \in Seq(Int), ~pressure => p = Span(0, PageLen)
  PROVE  Written(p, 0)
<1>1. Span(PageLen, PageLen + 0) = << >>
  BY SpanEmpty, Sizes
<1>2. p \o Span(PageLen, PageLen + 0) = p
  BY <1>1, ConcatEmptySeq
<1> QED
  BY <1>2 DEF Written

LEMMA WrittenMore ==
  ASSUME NEW s \in Seq(Int), NEW n \in Nat, NEW m \in Nat, Written(s, n)
  PROVE  Written(s \o Span(PageLen + n, PageLen + (n + m)), n + m)
<1> DEFINE t == Span(PageLen, PageLen + n)
           u == Span(PageLen + n, PageLen + (n + m))
           v == Span(PageLen, PageLen + (n + m))
<1>1. PICK p \in Seq(Int) : (~pressure => p = Span(0, PageLen)) /\ s = p \o t
  BY DEF Written
<1>2. t \in Seq(Int) /\ u \in Seq(Int)
  <2>1. PageLen \in Int /\ PageLen + n \in Int /\ PageLen <= PageLen + n
    BY Sizes
  <2>2. PageLen + (n + m) \in Int /\ PageLen + n <= PageLen + (n + m)
    BY Sizes
  <2>3. t \in Seq(Int)
    BY <2>1, SpanIs
  <2>4. u \in Seq(Int)
    BY <2>1, <2>2, SpanIs
  <2> QED
    BY <2>3, <2>4
<1>3. t \o u = v
  <2>1. /\ PageLen \in Nat /\ PageLen + n \in Nat /\ PageLen + (n + m) \in Nat
        /\ PageLen <= PageLen + n /\ PageLen + n <= PageLen + (n + m)
    BY Sizes
  <2> QED
    BY <2>1, SpanJoin
<1> HIDE DEF t, u, v
<1>4. (p \o t) \o u = p \o (t \o u)
  BY <1>2, ConcatAssociative
<1>5. s \o u = p \o v
  BY <1>1, <1>3, <1>4
<1> QED
  BY <1>1, <1>5 DEF Written, u, v

LEMMA WrittenWhole ==
  ASSUME NEW s \in Seq(Int), NEW n \in Nat, Written(s, n)
  PROVE  Whole(s, n)
<1> DEFINE t == Span(PageLen, PageLen + n)
<1>1. PICK p \in Seq(Int) : (~pressure => p = Span(0, PageLen)) /\ s = p \o t
  BY DEF Written
<1>2. t \in Seq(Int) /\ Len(t) = n
  <2>1. PageLen \in Int /\ PageLen + n \in Int /\ PageLen <= PageLen + n
    BY Sizes
  <2>2. t \in Seq(Int) /\ Len(t) = (PageLen + n) - PageLen
    BY <2>1, SpanIs
  <2> QED
    BY <2>2, Sizes
<1> HIDE DEF t
<1>3. CASE pressure
  <2>1. SubSeq(p \o t, Len(p \o t) - Len(t) + 1, Len(p \o t)) = t
    BY <1>2, LastOf
  <2>2. SubSeq(s, Len(s) - n + 1, Len(s)) = t
    <3>1. s = p \o t
      BY <1>1
    <3>2. n = Len(t)
      BY <1>2
    <3> QED
      BY <2>1, <3>1, <3>2
  <2> QED
    BY <1>3, <2>2 DEF Whole, t
<1>4. CASE ~pressure
  <2>1. 0 \in Nat /\ PageLen \in Nat /\ PageLen + n \in Nat /\ PageLen <= PageLen + n /\ 0 <= PageLen
    BY Sizes
  <2>2. Span(0, PageLen) \o t = Span(0, PageLen + n)
    BY <2>1, SpanJoin DEF t
  <2> QED
    BY <1>1, <1>4, <2>2 DEF Whole
<1> QED
  BY <1>3, <1>4

(* A beginning of what has been read is a beginning of the reply. *)
LEMMA WrittenBegins ==
  ASSUME NEW w \in Seq(Int), NEW r \in Seq(Int), NEW n \in Nat, ~pressure,
         Written(w \o r, n), FileLen \in Nat, n <= FileLen
  PROVE  Begins(w, Reply)
<1>1. w \o r \in Seq(Int)
  BY ConcatProperties
<1>2. w \o r = Span(0, PageLen + n)
  BY <1>1, WrittenWhole DEF Whole
<1>3. /\ 0 \in Nat /\ PageLen + n \in Nat /\ PageLen + FileLen \in Nat
      /\ 0 <= PageLen + n /\ PageLen + n <= PageLen + FileLen
  BY Sizes
<1> QED
  BY <1>2, <1>3, BeginsSpan DEF Reply

(* The file is read cache by cache. *)
LEMMA OneMoreCache ==
  ASSUME NEW q \in Nat, NEW o \in Nat, o = q * Cache
  PROVE  o + Cache = (q + 1) * Cache /\ q + 1 \in Nat
  BY Sizes

LEMMA CachesOnly ==
  ASSUME NEW q \in Nat, NEW o \in Nat, o = q * Cache
  PROVE  o % Cache = 0
<1> DEFINE d == o \div Cache
           r == o % Cache
<1>1. o = d * Cache + r /\ r \in 0 .. Cache - 1 /\ d \in Int
  BY Sizes
<1> HIDE DEF d, r
<1>2. (q - d) * Cache = r
  BY <1>1, Sizes
<1>3. CASE q - d >= 1
  <2>1. (q - d) * Cache >= Cache
    BY <1>1, <1>3, Sizes
  <2> QED
    BY <1>1, <1>2, <2>1, Sizes
<1>4. CASE q - d <= -1
  <2>1. (q - d) * Cache <= -Cache
    BY <1>1, <1>4, Sizes
  <2> QED
    BY <1>1, <1>2, <2>1, Sizes
<1>5. CASE q - d = 0
  <2>1. 0 * Cache = 0
    BY Sizes
  <2> QED
    BY <1>2, <1>5, <2>1 DEF r
<1>6. q - d >= 1 \/ q - d <= -1 \/ q - d = 0
  BY <1>1
<1> QED
  BY <1>3, <1>4, <1>5, <1>6
-----------------------------------------------------------------------------
(* The bytes on their way.                                                 *)

LEMMA HeldType ==
  ASSUME TypeOK
  PROVE  Held \in Seq(Int) /\ wire \in Seq(Int) /\ current \in Seq(Int) /\ cache \in Seq(Int)
<1>1. cache \in Seq(Nat) /\ current \in Seq(Nat) /\ wire \in Seq(Int)
  BY DEF TypeOK
<1>2. \A s \in Seq(Nat) : s \in Seq(Int)
  BY SeqMonotonic
<1>3. << >> \in Seq(Int)
  BY EmptySeq
<1> QED
  BY <1>1, <1>2, <1>3 DEF Held

LEMMA Started == Init => IInv
<1> SUFFICES ASSUME Init PROVE IInv
  OBVIOUS
<1>1. << >> \in Seq(Int) /\ << >> \in Seq(Nat) /\ Len(<< >>) = 0
  BY EmptySeq
<1>2. Span(0, 0) = << >>
  BY SpanEmpty
<1>3. TypeOK
  <2>1. wrote \in [ret : {-1, 0, 1}, size : Nat, data : Seq(Nat)]
    BY <1>1 DEF Init, Out!Answer
  <2>2. /\ pos \in -Refusals .. PageLen /\ dataLen \in 0 .. PageLen + Refusals
        /\ len \in 0 .. Cache /\ writeLen \in 0 .. Cache /\ inflight \in 0 .. Window
    BY Sizes DEF Init
  <2>3. /\ cache \in Seq(Nat) /\ Len(cache) <= Cache
        /\ queue \in Seq(Nat) /\ Len(queue) <= Size
        /\ current \in Seq(Nat) /\ wire \in Seq(Int)
    BY <1>1, Sizes DEF Init
  <2> QED
    BY <2>1, <2>2, <2>3 DEF Init, TypeOK
<1>4. Paging
  BY <1>1, <1>2, Sizes DEF Init, Paging
<1>5. Reading /\ Holding /\ Flowing /\ Reporting
  BY DEF Init, Reading, Holding, Flowing, Reporting, ReportIsTrue, Sending, Ended
<1>6. Begun
  <2>1. FileLen \in Nat
    BY Sizes DEF Init, FileLen
  <2>2. /\ 0 \in Nat /\ PageLen + FileLen \in Nat /\ 0 <= 0 /\ 0 <= PageLen + FileLen
    BY <2>1, Sizes
  <2>3. << >> \o << >> = Span(0, 0)
    BY <1>1, <1>2, ConcatEmptySeq
  <2>4. Begins(<< >>, Span(0, PageLen + FileLen))
    BY <1>1, <2>2, <2>3, BeginsSpan
  <2> QED
    BY <2>4 DEF Init, Begun, Reply
<1> QED
  BY <1>3, <1>4, <1>5, <1>6 DEF IInv

(* What send takes. *)
LEMMA Sends ==
  ASSUME TypeOK, NEW d \in Seq(Int), NEW n \in Int, Send(d, n), inflight <= Len(wire)
  PROVE  /\ n \in 1 .. Len(d)
         /\ SubSeq(d, 1, n) \in Seq(Int)
         /\ wire' = wire \o SubSeq(d, 1, n)
         /\ wire' \in Seq(Int)
         /\ inflight' \in 0 .. Window
         /\ inflight' <= Len(wire')
         /\ Begins(wire, wire')
<1>1. wire \in Seq(Int) /\ inflight \in Int /\ inflight >= 0 /\ inflight <= Window /\ Window \in Int
  BY Sizes DEF TypeOK
<1>2. Len(d) \in Nat /\ Len(wire) \in Nat
  BY <1>1, LenProperties
<1>3. /\ n \in 1 .. Lesser(Len(d), Window - inflight)
      /\ wire' = wire \o SubSeq(d, 1, n)
      /\ inflight' = inflight + n
  BY DEF Send
<1>4. n >= 1 /\ n <= Len(d) /\ n <= Window - inflight
  BY <1>1, <1>2, <1>3 DEF Lesser
<1>5. SubSeq(d, 1, n) \in Seq(Int) /\ Len(SubSeq(d, 1, n)) = n
  BY <1>2, <1>4, Split
<1>6. wire' \in Seq(Int) /\ Len(wire') = Len(wire) + n
  BY <1>1, <1>3, <1>5, ConcatProperties
<1>7. Begins(wire, wire')
  BY <1>1, <1>3, <1>5, BeginsConcat
<1>8. inflight' \in 0 .. Window /\ inflight' <= Len(wire')
  BY <1>1, <1>2, <1>3, <1>4, <1>6
<1> QED
  BY <1>2, <1>3, <1>4, <1>5, <1>6, <1>7, <1>8

-----------------------------------------------------------------------------
(* The steps.                                                              *)

(* The lengths, and the byte strings, of an instance. *)
LEMMA Lengths ==
  ASSUME TypeOK
  PROVE  /\ pos \in Int /\ pos >= -Refusals /\ pos <= PageLen
         /\ dataLen \in Int /\ offset \in Nat
         /\ len \in Nat /\ writeLen \in Nat
         /\ inflight \in Nat /\ inflight <= Window
         /\ Len(wire) \in Nat /\ Len(cache) \in Nat /\ Len(cache) <= Cache
         /\ FileLen \in Nat
         /\ file \in Nat \cup {-1}
<1>1. cache \in Seq(Nat) /\ wire \in Seq(Int) /\ Len(cache) <= Cache
  BY DEF TypeOK
<1>2. Len(wire) \in Nat /\ Len(cache) \in Nat
  BY <1>1, LenProperties
<1>3. file \in Nat \cup {-1}
  BY Sizes DEF TypeOK
<1>4. FileLen \in Nat
  BY <1>3 DEF FileLen
<1>5. /\ pos \in Int /\ pos >= -Refusals /\ pos <= PageLen
      /\ dataLen \in Int /\ offset \in Nat
      /\ len \in Nat /\ writeLen \in Nat
      /\ inflight \in Nat /\ inflight <= Window
  BY Sizes DEF TypeOK
<1> QED
  BY <1>1, <1>2, <1>3, <1>4, <1>5

LEMMA SendPageKeeps ==
  ASSUME IInv, NEW n \in Int, SendPage(n)
  PROVE  IInv'
<1>1. TypeOK /\ Paging /\ Reading /\ Holding /\ Flowing /\ Reporting /\ Begun
  BY DEF IInv
<1>2. /\ pc = "page" /\ offset = 0 /\ again /\ ret = 0 /\ dataLen = PageLen - pos
      /\ queue = << >> /\ current = << >>
      /\ ~pressure => pos >= 0 /\ wire = Span(0, pos)
  BY <1>1 DEF SendPage, Paging, Holding, Reporting, Ended
<1>3. /\ UNCHANGED <<file, pressure, offset, cache, again, cap, queue, wrote>>
      /\ UNCHANGED <<len, writeLen, current, reset, unopened, misread>>
      /\ pos' = pos + n /\ dataLen' = PageLen - (pos + n)
      /\ Send(PageBytes, n)
      /\ \/ dataLen' >= 1 /\ pc' = "page" /\ ret' = 0
         \/ dataLen' < 1 /\ file = -1 /\ pc' = "finish" /\ ret' = 1
         \/ dataLen' < 1 /\ file # -1 /\ pc' = "open" /\ ret' = 0
  <2>1. dataLen' \in Int
    BY <1>1, Lengths, Sizes DEF SendPage, Advance
  <2> QED
    BY <1>2, <2>1 DEF SendPage, Advance, request, reading, buffer, loops, faults
<1>4. /\ pos \in Int /\ pos >= -Refusals /\ pos <= PageLen
      /\ PageBytes = Span(pos, PageLen)
      /\ PageBytes \in Seq(Int) /\ Len(PageBytes) = PageLen - pos
  <2>1. pos \in Int /\ pos >= -Refusals /\ pos <= PageLen
    BY <1>1, Lengths
  <2>2. pos + dataLen = PageLen
    BY <1>2, <2>1, Sizes
  <2>3. PageBytes = Span(pos, PageLen)
    BY <2>2 DEF PageBytes
  <2>4. PageLen \in Int
    BY Sizes
  <2>5. Span(pos, PageLen) \in Seq(Int) /\ Len(Span(pos, PageLen)) = PageLen - pos
    BY <2>1, <2>4, SpanIs
  <2> QED
    BY <2>1, <2>3, <2>5
<1>5. /\ n \in 1 .. PageLen - pos
      /\ wire' = wire \o SubSeq(PageBytes, 1, n)
      /\ wire' \in Seq(Int)
      /\ inflight' \in 0 .. Window
      /\ inflight' <= Len(wire')
  <2>1. inflight <= Len(wire)
    BY <1>1 DEF Paging
  <2> QED
    BY <1>1, <1>3, <1>4, <2>1, Sends
<1>6. /\ pos' \in Int /\ pos' >= -Refusals /\ pos' <= PageLen /\ dataLen' = PageLen - pos'
      /\ ~pressure => pos' >= 0
  BY <1>2, <1>3, <1>4, <1>5, Sizes
<1>7. ~pressure => wire' = Span(0, pos')
  <2> SUFFICES ASSUME ~pressure PROVE wire' = Span(0, pos')
    OBVIOUS
  <2>1. SubSeq(PageBytes, 1, n) = Span(pos, pos + n)
    <3>1. n \in 0 .. PageLen - pos
      BY <1>5
    <3> QED
      BY <1>4, <3>1, FrontOfSpan, Sizes
  <2>2. 0 \in Nat /\ pos \in Nat /\ pos + n \in Nat /\ 0 <= pos /\ pos <= pos + n
    BY <1>2, <1>4, <1>5
  <2>3. Span(0, pos) \o Span(pos, pos + n) = Span(0, pos + n)
    BY <2>2, SpanJoin
  <2> QED
    BY <1>2, <1>3, <1>5, <2>1, <2>3
<1>8. pc' \in {"page", "open", "finish"}
  BY <1>3
<1>9. pc' # "page" => pos' = PageLen
  BY <1>3, <1>6, Sizes
<1>10. pc' # "page" => Written(wire', 0)
  BY <1>5, <1>7, <1>9, PageAlone
<1>11. TypeOK'
  BY <1>1, <1>3, <1>5, <1>6, Sizes DEF TypeOK
<1>12. Paging'
  BY <1>2, <1>3, <1>5, <1>6, <1>7, <1>8 DEF Paging
<1>13. Reading'
  <2>1. pc' = "open" => file \in Nat
    BY <1>1, <1>3, Lengths
  <2>2. 0 = 0 * Cache /\ 0 \in Nat
    BY Sizes
  <2> QED
    BY <1>2, <1>3, <1>8, <2>1, <2>2 DEF Reading, Sending
<1>14. Holding'
  BY <1>2, <1>3, <1>8 DEF Holding, Ended
<1>15. Flowing'
  <2> SUFFICES ASSUME pc' = "open" PROVE Written(wire \o Held, offset)'
    BY <1>8 DEF Flowing, Sending
  <2>1. Held' = << >>
    BY DEF Held
  <2>2. wire' \o << >> = wire'
    BY <1>5, ConcatEmptySeq
  <2> QED
    BY <1>2, <1>3, <1>10, <2>1, <2>2 DEF Written
<1>16. Reporting'
  <2>1. CASE pc' = "finish"
    <3>1. FileLen' = 0 /\ ret' = 1 /\ offset' = 0
      BY <1>2, <1>3, <2>1 DEF FileLen
    <3>2. Whole(wire', 0)
      BY <1>5, <1>10, <2>1, WrittenWhole
    <3> QED
      BY <1>3, <2>1, <3>1, <3>2 DEF Reporting, ReportIsTrue, Ended, Whole
  <2>2. CASE pc' # "finish"
    <3>1. ret' = 0 /\ pc' \notin Ended
      BY <1>3, <2>2 DEF Ended
    <3> QED
      BY <3>1 DEF Reporting, ReportIsTrue
  <2> QED
    BY <2>1, <2>2
<1>17. Begun'
  <2> SUFFICES ASSUME ~pressure PROVE Begins(wire', Reply')
    BY <1>3 DEF Begun
  <2>1. FileLen' = FileLen /\ FileLen \in Nat
    BY <1>1, <1>3, Lengths DEF FileLen
  <2>2. /\ 0 \in Nat /\ pos' \in Nat /\ PageLen + FileLen \in Nat
        /\ 0 <= pos' /\ pos' <= PageLen + FileLen
    BY <1>6, <2>1, Sizes
  <2>3. << >> \in Seq(Int) /\ wire' \o << >> = Span(0, pos')
    BY <1>5, <1>7, ConcatEmptySeq, EmptySeq
  <2>4. Begins(wire', Span(0, PageLen + FileLen))
    BY <1>5, <2>2, <2>3, BeginsSpan
  <2> QED
    BY <2>1, <2>4 DEF Reply
<1> QED
  BY <1>11, <1>12, <1>13, <1>14, <1>15, <1>16, <1>17 DEF IInv

(* Steps that send nothing and leave what has been read where it is. *)
LEMMA StillFlowing ==
  ASSUME Flowing, UNCHANGED <<pressure, wire, offset>>,
         pc' \in Sending => pc \in Sending /\ Held' = Held
  PROVE  Flowing'
  BY DEF Flowing, Written

LEMMA StillBegun ==
  ASSUME Begun, UNCHANGED <<pressure, wire, file>>
  PROVE  Begun'
  BY DEF Begun, Reply, FileLen

LEMMA PageAgainKeeps ==
  ASSUME IInv, PageAgain
  PROVE  IInv'
<1>1. TypeOK /\ Paging /\ Reading /\ Holding /\ Flowing /\ Reporting /\ Begun
  BY DEF IInv
<1>2. /\ pc = "page" /\ pc' = "page"
      /\ pos' = pos + -1 /\ dataLen' = PageLen - (pos + -1)
      /\ pos > -Refusals /\ Len(wire) < PageLen /\ (pressure \/ inflight = Window)
      /\ UNCHANGED <<file, pressure, offset, cache, again, cap, queue, wrote>>
      /\ UNCHANGED <<len, writeLen, current, ret, wire, inflight, reset, unopened, misread>>
  BY DEF PageAgain, Refused, RefusalBound, Advance, request, reading, buffer, loops,
         socket, faults
<1>3. /\ pos \in Int /\ pos <= PageLen
      /\ Len(wire) \in Nat /\ inflight \in Nat
  BY <1>1, Lengths
<1>4. pressure
  BY <1>1, <1>2, <1>3, Sizes DEF Paging
<1>5. TypeOK'
  <2>1. pos' \in -Refusals .. PageLen /\ dataLen' \in 0 .. PageLen + Refusals
    BY <1>2, <1>3, Sizes
  <2> QED
    BY <1>1, <1>2, <2>1 DEF TypeOK
<1>6. Paging'
  <2>1. dataLen' = PageLen - pos'
    BY <1>2
  <2> QED
    BY <1>1, <1>2, <1>4, <2>1 DEF Paging
<1>7. Reading' /\ Holding'
  BY <1>1, <1>2 DEF Reading, Holding, Sending, Ended
<1>8. Flowing'
  BY <1>2 DEF Flowing, Sending
<1>9. Reporting'
  BY <1>1, <1>2 DEF Reporting, ReportIsTrue, Ended
<1>10. Begun'
  BY <1>1, <1>2, StillBegun
<1> QED
  BY <1>5, <1>6, <1>7, <1>8, <1>9, <1>10 DEF IInv

(* The steps that end in failure, and FinishHttp. *)
LEMMA FailureKeeps ==
  ASSUME IInv, PageFails \/ OpenFails \/ SendFails
  PROVE  IInv'
<1>1. TypeOK /\ Paging /\ Reading /\ Holding /\ Flowing /\ Reporting /\ Begun
  BY DEF IInv
<1>2. /\ pc \in {"page", "open", "send"} /\ pc' = "finish" /\ ret' = -1
      /\ reset' \/ unopened'
      /\ reset' = reset /\ unopened' \in {unopened, TRUE} /\ misread' = misread
      /\ UNCHANGED <<file, pressure, pos, dataLen, offset, cache, again, cap, queue, wrote>>
      /\ UNCHANGED <<len, writeLen, current, wire, inflight>>
  <2>1. CASE PageFails
    BY <2>1 DEF PageFails, request, page, reading, buffer, loops, socket, faults
  <2>2. CASE OpenFails
    BY <2>2 DEF OpenFails, request, page, reading, buffer, loops, socket
  <2>3. CASE SendFails
    BY <2>3 DEF SendFails, request, page, reading, buffer, loops, socket, faults
  <2> QED
    BY <2>1, <2>2, <2>3
<1>3. TypeOK'
  BY <1>1, <1>2 DEF TypeOK
<1>4. Paging' /\ Reading' /\ Holding'
  BY <1>1, <1>2 DEF Paging, Reading, Holding, Sending, Ended
<1>5. Flowing' /\ Reporting'
  BY <1>2 DEF Flowing, Reporting, ReportIsTrue, Sending, Ended
<1>6. Begun'
  BY <1>1, <1>2, StillBegun
<1> QED
  BY <1>3, <1>4, <1>5, <1>6 DEF IInv

LEMMA FinishHttpKeeps ==
  ASSUME IInv, FinishHttp
  PROVE  IInv'
<1>1. TypeOK /\ Paging /\ Reading /\ Holding /\ Flowing /\ Reporting /\ Begun
  BY DEF IInv
<1>2. /\ pc = "finish" /\ pc' = "closed"
      /\ UNCHANGED <<file, pressure, pos, dataLen, offset, cache, again, cap, queue, wrote>>
      /\ UNCHANGED <<len, writeLen, current, ret, wire, inflight, reset, unopened, misread>>
  BY DEF FinishHttp, request, page, reading, buffer, loops, socket, faults
<1>3. TypeOK'
  BY <1>1, <1>2 DEF TypeOK
<1>4. Paging' /\ Reading' /\ Holding'
  BY <1>1, <1>2 DEF Paging, Reading, Holding, Sending, Ended
<1>5. Flowing' /\ Reporting'
  BY <1>1, <1>2 DEF Flowing, Reporting, ReportIsTrue, Whole, FileLen, Sending, Ended
<1>6. Begun'
  BY <1>1, <1>2, StillBegun
<1> QED
  BY <1>3, <1>4, <1>5, <1>6 DEF IInv

LEMMA OpenFileKeeps ==
  ASSUME IInv, OpenFile
  PROVE  IInv'
<1>1. TypeOK /\ Paging /\ Reading /\ Holding /\ Flowing /\ Reporting /\ Begun
  BY DEF IInv
<1>2. /\ pc = "open" /\ pc' = "read" /\ queue' = << >> /\ again'
      /\ UNCHANGED <<file, pressure, pos, dataLen, offset, cache, cap, wrote>>
      /\ UNCHANGED <<len, writeLen, current, ret, wire, inflight, reset, unopened, misread>>
  BY DEF OpenFile, request, page, loops, socket, faults
<1>3. TypeOK'
  <2>1. << >> \in Seq(Nat) /\ Len(<< >>) <= Size
    BY EmptySeq, Sizes
  <2> QED
    BY <1>1, <1>2, <2>1 DEF TypeOK, OpenFile
<1>4. Paging' /\ Holding'
  BY <1>1, <1>2 DEF Paging, Holding, Ended
<1>5. Reading'
  <2>1. offset = 0 /\ 0 = 0 * Cache /\ 0 \in Nat
    BY <1>1, <1>2, Sizes DEF Paging
  <2> QED
    BY <1>1, <1>2, <2>1 DEF Reading, Sending
<1>6. Flowing'
  <2>1. Held' = << >> /\ Held = << >> /\ pc \in Sending
    BY <1>2 DEF Held, Sending
  <2> QED
    BY <1>1, <1>2, <2>1, StillFlowing
<1>7. Reporting'
  BY <1>1, <1>2 DEF Reporting, ReportIsTrue, Ended
<1>8. Begun'
  BY <1>1, <1>2, StillBegun
<1> QED
  BY <1>3, <1>4, <1>5, <1>6, <1>7, <1>8 DEF IInv

LEMMA ReadFileKeeps ==
  ASSUME IInv, NEW n \in 0 .. Cache, ReadFile(n)
  PROVE  IInv'
<1>1. TypeOK /\ Paging /\ Reading /\ Holding /\ Flowing /\ Reporting /\ Begun
  BY DEF IInv
<1>2. /\ pc = "read" /\ pc' = "write" /\ again
      /\ cache' = Span(PageLen + offset, PageLen + offset + n)
      /\ offset' = offset + n /\ again' = (n = Cache)
      /\ len' = n /\ writeLen' = n
      /\ n <= Lesser(Cache, file - offset)
      /\ misread' = (misread \/ n < Lesser(Cache, file - offset))
      /\ UNCHANGED <<file, pressure, pos, dataLen, cap, queue, wrote>>
      /\ UNCHANGED <<current, ret, wire, inflight, reset, unopened>>
  BY DEF ReadFile, MoreToRead, request, page, buffer, socket
<1>3. /\ offset \in Nat /\ file \in Nat /\ offset <= file
      /\ n \in Nat /\ n <= Cache /\ n <= file - offset
      /\ misread' \/ n = Cache \/ n = file - offset
      /\ misread => misread'
  <2>1. offset \in Nat /\ file \in Nat /\ offset <= file
    BY <1>1, <1>2, Lengths DEF Reading, Sending
  <2>2. Cache \in Nat
    BY Sizes
  <2>3. n \in Nat /\ n <= Cache /\ n <= file - offset
    BY <1>2, <2>1, <2>2 DEF Lesser
  <2>4. n = Cache \/ n = file - offset \/ n < Lesser(Cache, file - offset)
    BY <2>1, <2>2, <2>3 DEF Lesser
  <2> QED
    BY <1>2, <2>1, <2>3, <2>4
<1>4. PICK q \in Nat : offset = q * Cache
  BY <1>1, <1>2 DEF Reading, Sending
<1>5. /\ cache' = Span(PageLen + offset, PageLen + (offset + n))
      /\ cache' \in Seq(Nat) /\ Len(cache') = n
  <2> DEFINE a == PageLen + offset
             b == PageLen + (offset + n)
  <2>1. a \in Nat /\ b \in Nat /\ a <= b /\ b - a = n /\ PageLen + offset + n = b
    BY <1>3, Sizes
  <2> HIDE DEF a, b
  <2>2. Span(a, b) \in Seq(Nat)
    BY <2>1, SpanNat
  <2>5. Len(Span(a, b)) = b - a
    <3>1. a \in Int /\ b \in Int
      BY <2>1
    <3> QED
      BY <2>1, <3>1, SpanIs
  <2>3. cache' = Span(a, b)
    BY <1>2, <2>1 DEF a
  <2>4. cache' \in Seq(Nat) /\ Len(cache') = n
    BY <2>1, <2>2, <2>3, <2>5
  <2> QED
    BY <2>3, <2>4 DEF a, b
<1>6. offset' \in Nat /\ offset' <= file
  BY <1>2, <1>3
<1>7. TypeOK'
  <2>1. len' \in 0 .. Cache /\ writeLen' \in 0 .. Cache /\ again' \in BOOLEAN
    BY <1>2, <1>3, Sizes
  <2> QED
    BY <1>1, <1>2, <1>3, <1>5, <1>6, <2>1 DEF TypeOK
<1>8. Paging' /\ Holding'
  BY <1>1, <1>2, <1>5 DEF Paging, Holding, Ended
<1>9. Reading'
  <2>1. again' => offset' = (q + 1) * Cache /\ q + 1 \in Nat
    BY <1>2, <1>3, <1>4, OneMoreCache
  <2>2. ~again' => misread' \/ offset' = file
    <3> SUFFICES ASSUME n # Cache PROVE misread' \/ offset' = file
      BY <1>2
    <3> QED
      BY <1>2, <1>3
  <2>3. writeLen' = 0 => offset' % Cache = 0 /\ (misread' \/ offset' = file)
    <3> SUFFICES ASSUME n = 0 PROVE offset' % Cache = 0 /\ (misread' \/ offset' = file)
      BY <1>2
    <3>1. offset' = offset /\ (misread' \/ offset' = file)
      BY <1>2, <1>3, Sizes
    <3> QED
      BY <1>3, <1>4, <3>1, CachesOnly
  <2> QED
    BY <1>2, <1>3, <1>6, <2>1, <2>2, <2>3 DEF Reading, Sending
<1>10. Flowing'
  <2>1. wire \in Seq(Int) /\ Held' = cache'
    BY <1>1, <1>2, HeldType DEF Held
  <2>2. wire \o << >> = wire
    BY <2>1, ConcatEmptySeq
  <2>3. Written(wire, offset)
    BY <1>1, <1>2, <2>2 DEF Flowing, Sending, Held
  <2>4. Written(wire \o cache', offset + n)
    BY <1>3, <1>5, <2>1, <2>3, WrittenMore
  <2> QED
    BY <1>2, <2>1, <2>4 DEF Flowing, Written
<1>11. Reporting'
  BY <1>1, <1>2, <1>3 DEF Reporting, ReportIsTrue, Ended
<1>12. Begun'
  BY <1>1, <1>2, StillBegun
<1> QED
  BY <1>7, <1>8, <1>9, <1>10, <1>11, <1>12 DEF IInv

LEMMA EndFileKeeps ==
  ASSUME IInv, EndFile
  PROVE  IInv'
<1>1. TypeOK /\ Paging /\ Reading /\ Holding /\ Flowing /\ Reporting /\ Begun
  BY DEF IInv
<1>2. /\ pc = "read" /\ pc' = "finish" /\ ret' = 1 /\ ~again
      /\ UNCHANGED <<file, pressure, pos, dataLen, offset, cache, again, cap, queue, wrote>>
      /\ UNCHANGED <<len, writeLen, current, wire, inflight, reset, unopened, misread>>
  BY DEF EndFile, request, page, reading, buffer, loops, socket, faults
<1>3. TypeOK'
  BY <1>1, <1>2 DEF TypeOK
<1>4. Paging' /\ Reading' /\ Holding'
  BY <1>1, <1>2 DEF Paging, Reading, Holding, Sending, Ended
<1>5. Flowing'
  BY <1>2 DEF Flowing, Sending
<1>6. Reporting'
  <2>1. file \in Nat /\ offset \in Nat /\ (misread \/ offset = file)
    BY <1>1, <1>2, Lengths DEF Reading, Sending
  <2>2. FileLen' = FileLen /\ FileLen = file
    BY <1>2, <2>1 DEF FileLen
  <2>3. wire \in Seq(Int) /\ Held = << >>
    BY <1>1, <1>2, HeldType DEF Held
  <2>4. wire \o << >> = wire
    BY <2>3, ConcatEmptySeq
  <2>5. Written(wire, offset)
    BY <1>1, <1>2, <2>3, <2>4 DEF Flowing, Sending
  <2>6. Whole(wire, offset)
    BY <2>1, <2>3, <2>5, WrittenWhole
  <2>7. Whole(wire, offset)'
    BY <1>2, <2>6 DEF Whole
  <2> QED
    BY <1>2, <2>1, <2>2, <2>7 DEF Reporting, ReportIsTrue, Ended
<1>7. Begun'
  BY <1>1, <1>2, StillBegun
<1> QED
  BY <1>3, <1>4, <1>5, <1>6, <1>7 DEF IInv

(* The out buffer is empty and holds a whole cache, so it takes all. *)
LEMMA WriteOutKeeps ==
  ASSUME IInv, WriteOut
  PROVE  IInv'
<1> DEFINE d == SubSeq(cache, 1, writeLen)
<1>1. TypeOK /\ Paging /\ Reading /\ Holding /\ Flowing /\ Reporting /\ Begun
  BY DEF IInv
<1>2. /\ pc = "write" /\ pc' = "buff" /\ writeLen' = wrote'.size
      /\ Out!PutRefused(d) \/ Out!Put(d)
      /\ UNCHANGED <<file, pressure, pos, dataLen, offset, cache, again>>
      /\ UNCHANGED <<len, current, ret, wire, inflight, reset, unopened, misread>>
  BY DEF WriteOut, request, page, reading, socket, faults
<1>3. /\ queue = << >> /\ current = << >> /\ len = Len(cache) /\ writeLen = Len(cache)
      /\ cap = Size /\ cache \in Seq(Nat) /\ Len(cache) \in Nat /\ Len(cache) <= Cache
  BY <1>1, <1>2, Lengths DEF Holding, TypeOK, Ended
<1>4. d = cache
  BY <1>3, SubSeqFull
<1>5. Len(queue) = 0
  BY <1>3, EmptySeq
<1>6. ~Out!PutRefused(d)
  BY <1>3, <1>5, Sizes DEF Out!PutRefused
<1> HIDE DEF d
<1>7. /\ queue' = cache /\ cap' = Size
      /\ wrote' = Out!Answer(1, Len(cache), << >>)
  <2>1. Out!Put(d)
    BY <1>2, <1>6
  <2>2. Out!Lesser(cap - Len(queue), Len(d)) = Len(cache)
    BY <1>3, <1>4, <1>5, Sizes DEF Out!Lesser
  <2>3. queue' = queue \o SubSeq(d, 1, Len(cache)) /\ cap' = cap
        /\ wrote' = Out!Answer(1, Len(cache), << >>)
    BY <2>1, <2>2 DEF Out!Put
  <2>4. SubSeq(d, 1, Len(cache)) = cache
    BY <1>3, <1>4, SubSeqFull
  <2>5. << >> \o cache = cache
    BY <1>3, ConcatEmptySeq
  <2> QED
    BY <1>3, <2>3, <2>4, <2>5
<1>8. writeLen' = Len(cache)
  BY <1>2, <1>7 DEF Out!Answer
<1>9. TypeOK'
  <2>1. wrote' \in [ret : {-1, 0, 1}, size : Nat, data : Seq(Nat)]
    BY <1>3, <1>7, EmptySeq DEF Out!Answer
  <2>2. queue' \in Seq(Nat) /\ Len(queue') <= Size /\ writeLen' \in 0 .. Cache
    BY <1>3, <1>7, <1>8, Sizes
  <2> QED
    BY <1>1, <1>2, <1>7, <2>1, <2>2 DEF TypeOK
<1>10. Paging' /\ Holding'
  BY <1>1, <1>2, <1>3, <1>7, <1>8 DEF Paging, Holding, Ended
<1>11. Reading'
  BY <1>1, <1>2, <1>3, <1>8 DEF Reading, Sending
<1>12. Flowing'
  <2>1. Held' = Held /\ pc \in Sending
    BY <1>2 DEF Held, Sending
  <2> QED
    BY <1>1, <1>2, <2>1, StillFlowing
<1>13. Reporting'
  BY <1>1, <1>2 DEF Reporting, ReportIsTrue, Ended
<1>14. Begun'
  BY <1>1, <1>2, StillBegun
<1> QED
  BY <1>9, <1>10, <1>11, <1>12, <1>13, <1>14 DEF IInv

(* The cache is empty only when the file has ended with a full one. *)
LEMMA Buff2SockRefusesKeeps ==
  ASSUME IInv, Buff2SockRefuses
  PROVE  IInv'
<1>1. TypeOK /\ Paging /\ Reading /\ Holding /\ Flowing /\ Reporting /\ Begun
  BY DEF IInv
<1>2. /\ pc = "buff" /\ pc' = "finish" /\ ret' = -1 /\ writeLen = 0
      /\ UNCHANGED <<file, pressure, pos, dataLen, offset, cache, again, cap, queue, wrote>>
      /\ UNCHANGED <<len, writeLen, current, wire, inflight, reset, unopened, misread>>
  BY DEF Buff2SockRefuses, request, page, reading, buffer, loops, socket, faults
<1>3. cache = << >> /\ queue = << >>
  <2>1. cache \in Seq(Nat) /\ Len(cache) = 0
    BY <1>1, <1>2 DEF Holding, TypeOK
  <2>2. cache = << >>
    BY <2>1, EmptySeq
  <2> QED
    BY <1>1, <1>2, <2>2 DEF Holding
<1>4. TypeOK'
  BY <1>1, <1>2 DEF TypeOK
<1>5. Paging' /\ Reading' /\ Holding'
  BY <1>1, <1>2, <1>3 DEF Paging, Reading, Holding, Sending, Ended
<1>6. Flowing'
  BY <1>2 DEF Flowing, Sending
<1>7. Reporting'
  <2>1. /\ file \in Nat /\ offset \in Nat
        /\ offset % Cache = 0 /\ (misread \/ offset = file)
    BY <1>1, <1>2, Lengths DEF Reading, Sending
  <2>2. FileLen' = FileLen /\ FileLen = file
    BY <1>2, <2>1 DEF FileLen
  <2>3. wire \in Seq(Int) /\ Held = << >>
    BY <1>1, <1>2, <1>3, HeldType DEF Held
  <2>4. wire \o << >> = wire
    BY <2>3, ConcatEmptySeq
  <2>5. Written(wire, offset)
    BY <1>1, <1>2, <2>3, <2>4 DEF Flowing, Sending
  <2>6. Whole(wire, offset)
    BY <2>1, <2>3, <2>5, WrittenWhole
  <2>7. Whole(wire, offset)' /\ offset' % Cache = 0
    BY <1>2, <2>1, <2>6 DEF Whole
  <2> QED
    BY <1>2, <2>1, <2>2, <2>7 DEF Reporting, ReportIsTrue, Ended
<1>8. Begun'
  BY <1>1, <1>2, StillBegun
<1> QED
  BY <1>4, <1>5, <1>6, <1>7, <1>8 DEF IInv

(* DN_Buff2Sock takes out of the buffer all that was put in. *)
LEMMA AllTaken ==
  ASSUME IInv, Buff2Sock
  PROVE  /\ queue' = << >> /\ cap' = Size /\ current' = cache
         /\ wrote' = Out!Answer(1, Len(cache), cache)
<1>1. TypeOK /\ Paging /\ Reading /\ Holding /\ Flowing /\ Reporting /\ Begun
  BY DEF IInv
<1>2. /\ pc = "buff" /\ pc' = "send" /\ Out!Get(writeLen) /\ current' = wrote'.data
      /\ UNCHANGED <<file, pressure, pos, dataLen, offset, cache, again>>
      /\ UNCHANGED <<len, writeLen, ret, wire, inflight, reset, unopened, misread>>
  BY DEF Buff2Sock, Asks, request, page, reading, socket, faults
<1>3. /\ queue = cache /\ len = Len(cache) /\ writeLen = Len(cache)
      /\ cap = Size /\ cache \in Seq(Nat) /\ Len(cache) \in Nat
  BY <1>1, <1>2, Lengths DEF Holding, TypeOK
<1>4. /\ queue' = << >> /\ cap' = Size
      /\ wrote' = Out!Answer(1, Len(cache), cache)
  <2>1. Out!Lesser(Len(queue), writeLen) = Len(cache)
    BY <1>3 DEF Out!Lesser
  <2>2. /\ queue' = SubSeq(cache, Len(cache) + 1, Len(cache)) /\ cap' = cap
        /\ wrote' = Out!Answer(1, Len(cache), SubSeq(cache, 1, Len(cache)))
    BY <1>2, <1>3, <2>1 DEF Out!Get
  <2>3. SubSeq(cache, 1, Len(cache)) = cache
    BY <1>3, SubSeqFull
  <2>4. SubSeq(cache, Len(cache) + 1, Len(cache)) = << >>
    BY <1>3, SubSeqEmpty
  <2> QED
    BY <1>3, <2>2, <2>3, <2>4
<1>5. current' = cache
  BY <1>2, <1>4 DEF Out!Answer
<1> QED
  BY <1>4, <1>5

LEMMA Buff2SockKeeps ==
  ASSUME IInv, Buff2Sock
  PROVE  IInv'
<1>1. TypeOK /\ Paging /\ Reading /\ Holding /\ Flowing /\ Reporting /\ Begun
  BY DEF IInv
<1>2. /\ pc = "buff" /\ pc' = "send" /\ Out!Get(writeLen) /\ current' = wrote'.data
      /\ UNCHANGED <<file, pressure, pos, dataLen, offset, cache, again>>
      /\ UNCHANGED <<len, writeLen, ret, wire, inflight, reset, unopened, misread>>
  BY DEF Buff2Sock, Asks, request, page, reading, socket, faults
<1>3. /\ queue = cache /\ len = Len(cache) /\ writeLen = Len(cache)
      /\ cap = Size /\ cache \in Seq(Nat) /\ Len(cache) \in Nat
  BY <1>1, <1>2, Lengths DEF Holding, TypeOK
<1>4. /\ queue' = << >> /\ cap' = Size
      /\ wrote' = Out!Answer(1, Len(cache), cache)
  BY AllTaken
<1>5. current' = cache
  BY AllTaken
<1>6. TypeOK'
  <2>1. wrote' \in [ret : {-1, 0, 1}, size : Nat, data : Seq(Nat)]
    BY <1>3, <1>4 DEF Out!Answer
  <2>2. queue' \in Seq(Nat) /\ Len(queue') <= Size /\ current' \in Seq(Nat)
    BY <1>3, <1>4, <1>5, EmptySeq, Sizes
  <2> QED
    BY <1>1, <1>2, <1>4, <2>1, <2>2 DEF TypeOK
<1>7. Paging' /\ Holding'
  BY <1>1, <1>2, <1>3, <1>4 DEF Paging, Holding, Ended
<1>8. Reading'
  BY <1>1, <1>2 DEF Reading, Sending
<1>9. Flowing'
  <2>1. Held' = Held /\ pc \in Sending
    BY <1>2, <1>5 DEF Held, Sending
  <2> QED
    BY <1>1, <1>2, <2>1, StillFlowing
<1>10. Reporting'
  BY <1>1, <1>2 DEF Reporting, ReportIsTrue, Ended
<1>11. Begun'
  BY <1>1, <1>2, StillBegun
<1> QED
  BY <1>6, <1>7, <1>8, <1>9, <1>10, <1>11 DEF IInv

LEMMA SendSomeKeeps ==
  ASSUME IInv, NEW n \in Int, SendSome(n)
  PROVE  IInv'
<1>1. TypeOK /\ Paging /\ Reading /\ Holding /\ Flowing /\ Reporting /\ Begun
  BY DEF IInv
<1>2. /\ pc = "send" /\ Send(current, n)
      /\ current' = SubSeq(current, n + 1, Len(current))
      /\ UNCHANGED <<file, pressure, pos, dataLen, offset, cache, again, cap, queue, wrote>>
      /\ UNCHANGED <<ret, reset, unopened, misread>>
  BY DEF SendSome, Rest, request, page, reading, buffer, faults
<1>3. /\ len = Len(cache) /\ writeLen = Len(cache) /\ Len(cache) \in Nat
      /\ file \in Nat /\ offset \in Nat /\ offset <= file /\ FileLen = file
      /\ current \in Seq(Nat) /\ current \in Seq(Int) /\ wire \in Seq(Int)
  BY <1>1, <1>2, HeldType, Lengths DEF Holding, Reading, Sending, FileLen, TypeOK
<1>4. \/ current' # << >> /\ pc' = "send" /\ len' = len /\ writeLen' = writeLen
      \/ current' = << >> /\ pc' = "read" /\ len' = 0 /\ writeLen' = 0
  <2>1. len - writeLen = 0
    BY <1>3
  <2> QED
    BY <1>2, <2>1 DEF SendSome
<1>5. /\ n \in 1 .. Len(current)
      /\ wire' = wire \o SubSeq(current, 1, n)
      /\ wire' \in Seq(Int)
      /\ inflight' \in 0 .. Window
      /\ inflight' <= Len(wire')
  <2>1. inflight <= Len(wire)
    BY <1>1 DEF Paging
  <2> QED
    BY <1>1, <1>2, <1>3, <2>1, Sends
<1>6. current' \in Seq(Nat) /\ current' \in Seq(Int)
  <2>1. n \in 0 .. Len(current)
    BY <1>5
  <2> QED
    BY <1>2, <1>3, <2>1, Split
<1>7. wire' \o current' = wire \o current
  <2>1. n \in 0 .. Len(current)
    BY <1>5
  <2>2. (wire \o SubSeq(current, 1, n)) \o SubSeq(current, n + 1, Len(current))
          = wire \o current
    BY <1>3, <2>1, MoveOn
  <2> QED
    BY <1>2, <1>5, <2>2
<1>8. Held = current /\ Held' = current' /\ pc' \in {"send", "read"}
  BY <1>2, <1>4 DEF Held
<1>9. Written(wire' \o current', offset)
  BY <1>1, <1>2, <1>7, <1>8 DEF Flowing, Sending
<1>10. TypeOK'
  <2>1. len' \in 0 .. Cache /\ writeLen' \in 0 .. Cache
    BY <1>1, <1>4, Sizes DEF TypeOK
  <2> QED
    BY <1>1, <1>2, <1>5, <1>6, <1>8, <2>1 DEF TypeOK
<1>11. Paging' /\ Holding'
  BY <1>1, <1>2, <1>3, <1>4, <1>5 DEF Paging, Holding, Ended
<1>12. Reading'
  BY <1>1, <1>2, <1>8 DEF Reading, Sending
<1>13. Flowing'
  BY <1>2, <1>8, <1>9 DEF Flowing, Written
<1>14. Reporting'
  BY <1>1, <1>2, <1>8 DEF Reporting, ReportIsTrue, Ended
<1>15. Begun'
  <2> SUFFICES ASSUME ~pressure PROVE Begins(wire', Reply')
    BY <1>2 DEF Begun
  <2>1. Begins(wire', Reply)
    BY <1>3, <1>5, <1>6, <1>9, WrittenBegins
  <2> QED
    BY <1>2, <2>1 DEF Reply, FileLen
<1> QED
  BY <1>10, <1>11, <1>12, <1>13, <1>14, <1>15 DEF IInv

LEMMA ClientKeeps ==
  ASSUME IInv, Client
  PROVE  IInv'
<1>1. TypeOK /\ Paging /\ Reading /\ Holding /\ Flowing /\ Reporting /\ Begun
  BY DEF IInv
<1>2. /\ inflight' \in 0 .. Window /\ inflight' <= inflight
      /\ reset' \in {reset, TRUE}
      /\ UNCHANGED <<file, pressure, pos, dataLen, offset, cache, again, cap, queue, wrote>>
      /\ UNCHANGED <<pc, len, writeLen, current, ret, wire, unopened, misread>>
  <2>1. inflight \in Nat /\ inflight <= Window /\ Window \in Nat
    BY <1>1, Lengths, Sizes
  <2>2. CASE \E n \in 1 .. Window : PeerRead(n)
    BY <2>1, <2>2 DEF PeerRead, request, page, reading, buffer, loops, faults
  <2>3. CASE PeerReset
    BY <2>1, <2>3 DEF PeerReset, request, page, reading, buffer, loops
  <2> QED
    BY <2>2, <2>3 DEF Client
<1>3. TypeOK'
  BY <1>1, <1>2 DEF TypeOK
<1>4. Paging'
  <2>1. inflight' <= Len(wire)
    BY <1>1, <1>2, Lengths DEF Paging
  <2> QED
    BY <1>1, <1>2, <2>1 DEF Paging
<1>5. Reading' /\ Holding'
  BY <1>1, <1>2 DEF Reading, Holding
<1>6. Flowing'
  BY <1>1, <1>2 DEF Flowing, Written, Held
<1>7. Reporting'
  <2>1. FileLen' = FileLen /\ (Whole(wire, offset) => Whole(wire, offset)')
    BY <1>2 DEF Whole, FileLen
  <2>2. reset => reset'
    BY <1>2
  <2>3. ReportIsTrue'
    BY <1>1, <1>2, <2>1, <2>2 DEF Reporting, ReportIsTrue
  <2> QED
    BY <1>1, <1>2, <2>3 DEF Reporting
<1>8. Begun'
  BY <1>1, <1>2, StillBegun
<1> QED
  BY <1>3, <1>4, <1>5, <1>6, <1>7, <1>8 DEF IInv

LEMMA StutterKeeps ==
  ASSUME IInv, UNCHANGED vars
  PROVE  IInv'
<1>1. /\ UNCHANGED <<file, pressure, pc, pos, dataLen, offset, cache, again, cap, queue, wrote>>
      /\ UNCHANGED <<len, writeLen, current, ret, wire, inflight, reset, unopened, misread>>
  BY DEF vars, request, page, reading, buffer, loops, socket, faults
<1>2. TypeOK'
  BY <1>1 DEF IInv, TypeOK
<1>3. Paging' /\ Reading' /\ Holding'
  BY <1>1 DEF IInv, Paging, Reading, Holding
<1>4. Flowing'
  BY <1>1 DEF IInv, Flowing, Written, Held
<1>5. Reporting'
  BY <1>1 DEF IInv, Reporting, ReportIsTrue, Whole, FileLen
<1>6. Begun'
  BY <1>1, StillBegun DEF IInv
<1> QED
  BY <1>2, <1>3, <1>4, <1>5, <1>6 DEF IInv

LEMMA Inductive == IInv /\ [Next]_vars => IInv'
<1> SUFFICES ASSUME IInv, [Next]_vars PROVE IInv'
  OBVIOUS
<1>1. \A n \in 1 .. Window : n \in Int
  BY Sizes
<1>2. CASE \E n \in 1 .. Window : SendPage(n)
  BY <1>1, <1>2, SendPageKeeps
<1>3. CASE \E n \in 1 .. Window : SendSome(n)
  BY <1>1, <1>3, SendSomeKeeps
<1>4. CASE PageAgain
  BY <1>4, PageAgainKeeps
<1>5. CASE PageFails \/ OpenFails \/ SendFails
  BY <1>5, FailureKeeps
<1>6. CASE OpenFile
  BY <1>6, OpenFileKeeps
<1>7. CASE \E n \in 0 .. Cache : ReadFile(n)
  BY <1>7, ReadFileKeeps
<1>8. CASE EndFile
  BY <1>8, EndFileKeeps
<1>9. CASE WriteOut
  BY <1>9, WriteOutKeeps
<1>10. CASE Buff2SockRefuses
  BY <1>10, Buff2SockRefusesKeeps
<1>11. CASE Buff2Sock
  BY <1>11, Buff2SockKeeps
<1>12. CASE SendAgain
  BY <1>12, StutterKeeps DEF SendAgain
<1>13. CASE FinishHttp
  BY <1>13, FinishHttpKeeps
<1>14. CASE Client
  BY <1>14, ClientKeeps
<1>15. CASE UNCHANGED vars
  BY <1>15, StutterKeeps
<1> QED
  BY <1>2, <1>3, <1>4, <1>5, <1>6, <1>7, <1>8, <1>9, <1>10, <1>11, <1>12, <1>13, <1>14,
     <1>15 DEF Next, Server

(* The strengthened invariant: what the cache, the out buffer and current  *)
(* hold wherever the server is, and what the client has got so far         *)
(* (dn_response.c:166, dn_file.c:73, dn_io.c:167).                         *)
THEOREM Invariance == Spec => []IInv
<1>1. IInv /\ [Next]_vars => IInv'
  BY Inductive
<1> QED
  BY Started, <1>1, PTL DEF Spec

-----------------------------------------------------------------------------
(* What follows.                                                           *)

(* Every value stays in its type, and no buffer or window is overrun, for  *)
(* any sizes that pass the assumptions.                                    *)
THEOREM TypeCorrect == Spec => []TypeOK
<1>1. IInv => TypeOK
  BY DEF IInv
<1> QED
  BY Invariance, <1>1, PTL

(* No piece is put into the out buffer before the last one has left it     *)
(* (dn_file.c, dn_buffer.c:205).                                           *)
THEOREM OutBufferDrained == Spec => []OutDrained
<1>1. IInv => OutDrained
  BY DEF IInv, Holding, OutDrained
<1> QED
  BY Invariance, <1>1, PTL

(* DN_SendFile and DN_ResponsePage report what happened, but for a file    *)
(* that ends with a full cache (dn_file.c).                                *)
THEOREM ReportTrue == Spec => []ReportIsTrue
<1>1. IInv => ReportIsTrue
  BY DEF IInv, Reporting
<1> QED
  BY Invariance, <1>1, PTL

(* No byte is lost, doubled or put out of order between the file and the   *)
(* socket, for every length of the file and every way send cuts it up.     *)
THEOREM BytesConserved == Spec => []Conserved
<1>1. IInv => Conserved
  <2> SUFFICES ASSUME IInv PROVE Conserved
    OBVIOUS
  <2>1. TypeOK /\ Paging /\ Holding /\ Flowing
    BY DEF IInv
  <2>2. /\ wire \in Seq(Int) /\ Held \in Seq(Int) /\ current \in Seq(Int)
        /\ cache \in Seq(Int) /\ << >> \in Seq(Int)
    BY <2>1, HeldType, EmptySeq
  <2>3. pc \in Sending => wire \o current \o queue \o Owed = wire \o Held
    <3>1. wire \o << >> = wire
      BY <2>2, ConcatEmptySeq
    <3>2. CASE pc \in {"open", "read"}
      <4>1. current = << >> /\ queue = << >> /\ Owed = << >> /\ Held = << >>
        BY <2>1, <3>2 DEF Holding, Ended, Owed, Held
      <4> QED
        BY <3>1, <4>1
    <3>3. CASE pc = "write"
      <4>1. current = << >> /\ queue = << >> /\ writeLen = Len(cache) /\ Held = cache
        BY <2>1, <3>3 DEF Holding, Ended, Held
      <4>2. Owed = cache
        <5>1. SubSeq(cache, 1, Len(cache)) = cache
          BY <2>2, SubSeqFull
        <5> QED
          BY <3>3, <4>1, <5>1 DEF Owed
      <4> QED
        BY <3>1, <4>1, <4>2
    <3>4. CASE pc = "buff"
      <4>1. current = << >> /\ queue = cache /\ Owed = << >> /\ Held = cache
        BY <2>1, <3>4 DEF Holding, Ended, Owed, Held
      <4>2. wire \o cache \in Seq(Int)
        BY <2>2, ConcatProperties
      <4>3. (wire \o cache) \o << >> = wire \o cache
        BY <4>2, ConcatEmptySeq
      <4> QED
        BY <3>1, <4>1, <4>3
    <3>5. CASE pc = "send"
      <4>1. queue = << >> /\ Owed = << >> /\ Held = current
        BY <2>1, <3>5 DEF Holding, Ended, Owed, Held
      <4>2. wire \o current \in Seq(Int)
        BY <2>2, ConcatProperties
      <4>3. (wire \o current) \o << >> = wire \o current
        BY <4>2, ConcatEmptySeq
      <4> QED
        BY <4>1, <4>3
    <3> QED
      BY <3>2, <3>3, <3>4, <3>5 DEF Sending
  <2>4. pc \in Sending => Whole(wire \o Held, offset)
    <3>1. wire \o Held \in Seq(Int) /\ offset \in Nat
      BY <2>1, <2>2, ConcatProperties, Lengths
    <3> QED
      BY <2>1, <3>1, WrittenWhole DEF Flowing
  <2>5. pc \in Sending => Whole(wire \o current \o queue \o Owed, offset)
    BY <2>3, <2>4
  <2> QED
    BY <2>1, <2>5 DEF Conserved, Paging, Sending
<1> QED
  BY Invariance, <1>1, PTL

(* A step of the server or of the client is a step of Delivery: the client *)
(* gets a beginning of the page and the file, and all of it unless it has  *)
(* reset the connection or fopen or fread has failed.                      *)
LEMMA DeliveryStep ==
  ASSUME IInv, IInv', [Next]_vars
  PROVE  [pressure \/ Service!Next]_<<wire, reset, unopened, misread, pc>>
<1> SUFFICES ASSUME ~pressure, ~UNCHANGED <<wire, reset, unopened, misread, pc>>
             PROVE  Service!Next
  OBVIOUS
<1>1. TypeOK /\ Paging /\ Reporting /\ TypeOK' /\ Begun'
  BY DEF IInv
<1>2. wire \in Seq(Int) /\ wire' \in Seq(Int)
  BY <1>1 DEF TypeOK
<1>3. UNCHANGED <<file, pressure>>
  BY DEF Next, Server, Client, vars, request, SendPage, SendSome, PageAgain, PageFails,
         OpenFile, OpenFails, ReadFile, EndFile, WriteOut, Buff2SockRefuses, Buff2Sock,
         SendAgain, SendFails, FinishHttp, PeerRead, PeerReset
<1>4. Reply' = Reply
  BY <1>3 DEF Reply, FileLen
<1>5. ASSUME NEW d \in Seq(Int), NEW n \in Int, Send(d, n),
             UNCHANGED <<reset, unopened, misread>>, pc # "closed", pc' # "closed"
      PROVE  Service!Next
  <2>1. Begins(wire, wire')
    BY <1>1, <1>5, Sends DEF Paging
  <2>2. Begins(wire', Reply)
    BY <1>1, <1>3, <1>4 DEF Begun
  <2> QED
    BY <1>4, <1>5, <2>1, <2>2 DEF Service!Next, Service!Deliver, Service!Begins, Begins
<1>6. ASSUME UNCHANGED <<wire, reset, unopened, misread>>, pc # "closed", pc' # "closed"
      PROVE  Service!Next
  <2>1. Begins(wire, wire)
    BY <1>2, BeginsItself
  <2>2. Begins(wire, Reply)
    BY <1>1, <1>3, <1>4, <1>6 DEF Begun
  <2> QED
    BY <1>4, <1>6, <2>1, <2>2 DEF Service!Next, Service!Deliver, Service!Begins, Begins
<1>7. \A n \in 1 .. Window : n \in Int
  BY Sizes
<1>8. ASSUME NEW n \in 1 .. Window, SendPage(n)
      PROVE  Service!Next
  <2>1. Send(PageBytes, n) /\ pc # "closed" /\ pc' # "closed" /\ UNCHANGED <<reset, unopened, misread>>
    BY <1>8 DEF SendPage, faults
  <2>2. PageBytes \in Seq(Int)
    <3>1. pos \in Int /\ PageLen \in Int /\ pos <= PageLen /\ pos + dataLen = PageLen
      BY <1>1, Lengths, Sizes DEF Paging
    <3>2. Span(pos, PageLen) \in Seq(Int)
      BY <3>1, SpanIs
    <3> QED
      BY <3>1, <3>2 DEF PageBytes
  <2> QED
    BY <1>5, <1>7, <2>1, <2>2
<1>9. ASSUME NEW n \in 1 .. Window, SendSome(n)
      PROVE  Service!Next
  <2>1. Send(current, n) /\ pc # "closed" /\ pc' # "closed" /\ UNCHANGED <<reset, unopened, misread>>
    BY <1>9 DEF SendSome, faults
  <2>2. current \in Seq(Int)
    BY <1>1, HeldType
  <2> QED
    BY <1>5, <1>7, <2>1, <2>2
<1>10. CASE OpenFails
  BY <1>4, <1>10 DEF OpenFails, socket, Service!Next, Service!Fail
<1>11. CASE PeerReset
  BY <1>4, <1>11 DEF PeerReset, Service!Next, Service!Fail
<1>12. CASE FinishHttp
  <2>1. /\ pc = "finish" /\ pc' = "closed" /\ ret \in {1, -1}
        /\ UNCHANGED <<wire, reset, unopened, misread>>
    BY <1>1, <1>12 DEF FinishHttp, socket, faults, Reporting, Ended, TypeOK
  <2>2. wire = Reply \/ reset \/ unopened \/ misread
    BY <1>1, <2>1 DEF Reporting, ReportIsTrue, Whole, Reply
  <2>3. /\ (pc' = "closed") = TRUE
        /\ (reset' \/ unopened' \/ misread') = (reset \/ unopened \/ misread)
    BY <2>1
  <2>4. wire' = wire
    BY <2>1
  <2>5. Service!Close
    BY <1>4, <2>2, <2>3, <2>4 DEF Service!Close
  <2> QED
    BY <2>5 DEF Service!Next
<1>16. ASSUME NEW n \in 0 .. Cache, ReadFile(n)
       PROVE  Service!Next
  <2>1. /\ pc = "read" /\ pc' = "write" /\ UNCHANGED <<wire, reset, unopened>>
        /\ misread' \in BOOLEAN /\ (misread => misread')
    BY <1>1, <1>16 DEF ReadFile, socket, TypeOK
  <2>2. CASE misread' = misread
    BY <1>6, <2>1, <2>2
  <2>3. CASE misread' # misread
    <3>1. (reset' \/ unopened' \/ misread') = TRUE /\ (pc' = "closed") = (pc = "closed")
      BY <1>1, <2>1, <2>3 DEF TypeOK
    <3> QED
      BY <1>4, <2>1, <3>1 DEF Service!Next, Service!Fail
  <2> QED
    BY <2>2, <2>3
<1>13. CASE PageAgain \/ PageFails \/ OpenFile \/ EndFile
  <2>1. pc # "closed" /\ pc' # "closed" /\ UNCHANGED <<wire, reset, unopened, misread>>
    BY <1>13 DEF PageAgain, PageFails, OpenFile, EndFile, socket, faults
  <2> QED
    BY <1>6, <2>1
<1>14. CASE WriteOut \/ Buff2SockRefuses \/ Buff2Sock \/ SendFails
  <2>1. pc # "closed" /\ pc' # "closed" /\ UNCHANGED <<wire, reset, unopened, misread>>
    BY <1>14 DEF WriteOut, Buff2SockRefuses, Buff2Sock, SendFails, socket, faults
  <2> QED
    BY <1>6, <2>1
<1>15. CASE SendAgain \/ UNCHANGED vars \/ \E n \in 1 .. Window : PeerRead(n)
  <2>1. UNCHANGED <<wire, reset, unopened, misread, pc>>
    BY <1>15 DEF SendAgain, PeerRead, vars, socket, faults
  <2> QED
    BY <2>1
<1> QED
  BY <1>8, <1>9, <1>10, <1>11, <1>12, <1>13, <1>14, <1>15, <1>16 DEF Next, Server, Client

(* The page and the file reach the client in order, and the connection is  *)
(* closed early only by a failure, unless the kernel has run out of memory *)
(* (dn_response.c:159, dn_file.c:48).                                      *)
THEOREM Delivers == Spec => ImplementsDelivery
<1>1. Init => pressure \/ Service!Init
  BY DEF Init, Service!Init
<1>2. IInv /\ IInv' /\ [Next]_vars
        => [pressure \/ Service!Next]_<<wire, reset, unopened, misread, pc>>
  BY DeliveryStep
<1> QED
  BY Invariance, <1>1, <1>2, PTL DEF Spec, ImplementsDelivery

-----------------------------------------------------------------------------
(* How long a reply can take: the steps the server has before it at most,  *)
(* the rounds on EAGAIN left out.                                          *)

(* Bytes that are not on the connection yet. *)
Unsent ==
  CASE pc = "page" -> PageLen - pos + FileLen
    [] pc \in Sending -> FileLen - offset + Len(Held)
    [] pc \in Ended -> 0

(* The places that a piece passes come in this order. *)
Stage ==
  CASE pc = "page" -> 7
    [] pc = "open" -> 6
    [] pc = "read" -> 5
    [] pc = "write" -> 4
    [] pc = "buff" -> 3
    [] pc = "send" -> 2
    [] pc = "finish" -> 1
    [] pc = "closed" -> 0

StepsLeft == 4 * Unsent + Stage

Allowance == StepsLeft = 4 * (PageLen + FileLen) + 7

(* Every step of the server uses some of it up but for a page that memory  *)
(* was short for; nothing the client does adds to it.                      *)
ReplyGoesOn ==
  /\ Server => StepsLeft' < StepsLeft \/ (pressure /\ PageAgain)
  /\ Client => StepsLeft' = StepsLeft

Places ==
  /\ pc = "page"   => Stage = 7 /\ Unsent = PageLen - pos + FileLen
  /\ pc = "open"   => Stage = 6 /\ Unsent = FileLen - offset
  /\ pc = "read"   => Stage = 5 /\ Unsent = FileLen - offset
  /\ pc = "write"  => Stage = 4 /\ Unsent = FileLen - offset + Len(cache)
  /\ pc = "buff"   => Stage = 3 /\ Unsent = FileLen - offset + Len(cache)
  /\ pc = "send"   => Stage = 2 /\ Unsent = FileLen - offset + Len(current)
  /\ pc = "finish" => Stage = 1 /\ Unsent = 0
  /\ pc = "closed" => Stage = 0 /\ Unsent = 0

Counts ==
  /\ Unsent \in Nat /\ Stage \in 0 .. 7 /\ StepsLeft \in Nat
  /\ FileLen \in Nat /\ offset \in Nat /\ Len(cache) \in Nat /\ Len(current) \in Nat

LEMMA PlacesAre == IInv => Places
<1> SUFFICES ASSUME IInv PROVE Places
  OBVIOUS
<1>1. Len(<< >>) = 0
  BY EmptySeq
<1>2. FileLen \in Nat /\ offset \in Nat
  BY Lengths DEF IInv
<1>3. FileLen - offset + 0 = FileLen - offset
  BY <1>2
<1> QED
  BY <1>1, <1>3 DEF Places, Unsent, Stage, Sending, Ended, Held

LEMMA CountsAre == IInv => Counts
<1> SUFFICES ASSUME IInv PROVE Counts
  OBVIOUS
<1>1. TypeOK /\ Reading
  BY DEF IInv
<1>2. /\ FileLen \in Nat /\ offset \in Nat /\ Len(cache) \in Nat
      /\ pos \in Int /\ pos <= PageLen /\ PageLen \in Nat
  BY <1>1, Lengths, Sizes
<1>3. Len(current) \in Nat
  <2>1. current \in Seq(Int)
    BY <1>1, HeldType
  <2> QED
    BY <2>1, LenProperties
<1>4. pc \in Sending => offset <= FileLen
  BY <1>1 DEF Reading, FileLen
<1>5. pc \in {"page", "open", "read", "write", "buff", "send", "finish", "closed"}
  BY <1>1 DEF TypeOK
<1>6. Unsent \in Nat /\ Stage \in 0 .. 7
  BY <1>2, <1>3, <1>4, <1>5, PlacesAre DEF Places, Sending
<1> QED
  BY <1>2, <1>3, <1>6 DEF StepsLeft, Counts

(* Both hold at each end of a step. *)
LEMMA BothEnds == ASSUME IInv, IInv' PROVE Places /\ Places' /\ Counts /\ Counts'
  BY PlacesAre, CountsAre, PTL

LEMMA Lefts ==
  StepsLeft = 4 * Unsent + Stage /\ StepsLeft' = 4 * Unsent' + Stage'
  BY DEF StepsLeft

(* A failure ends the reply, and so does the end of it. *)
LEMMA EndsGoOn ==
  ASSUME IInv, IInv', Stage > Stage', pc' \in Ended
  PROVE  StepsLeft' < StepsLeft
<1>1. Unsent' = 0
  BY BothEnds DEF Places, Ended
<1>2. Unsent \in Nat /\ Stage \in 0 .. 7 /\ Stage' \in 0 .. 7
  BY BothEnds DEF Counts
<1> QED
  <2>1. \A a \in 0 .. 7 : 4 * 0 + a = a
    OBVIOUS
  <2>2. StepsLeft' = 4 * 0 + Stage'
    BY <1>1, Lefts
  <2>3. \A u \in Nat, a \in 0 .. 7, b \in 0 .. 7 : a > b => b < 4 * u + a
    OBVIOUS
  <2> QED
    BY <1>2, <2>1, <2>2, <2>3, Lefts

LEMMA PageGoesOn ==
  ASSUME IInv, IInv', NEW n \in 1 .. Window, SendPage(n)
  PROVE  StepsLeft' < StepsLeft
<1>1. /\ pc = "page" /\ pos' = pos + n /\ pc' \in {"page", "open", "finish"}
      /\ offset' = offset /\ file' = file /\ offset = 0
  BY DEF SendPage, Advance, reading, request, IInv, Paging
<1>2. n \in Nat /\ n >= 1
  BY Sizes
<1>3. pos \in Int /\ pos' \in Int /\ PageLen \in Nat /\ FileLen' = FileLen
  BY <1>1, <1>2, Lengths, Sizes DEF FileLen, IInv
<1>4. Unsent = PageLen - pos + FileLen /\ Stage = 7
  BY <1>1, BothEnds DEF Places
<1>5. CASE pc' = "page"
  <2>1. Unsent' = PageLen - pos' + FileLen' /\ Stage' = 7
    BY <1>5, BothEnds DEF Places
  <2> QED
    <3>1. Unsent' = Unsent - n /\ Unsent \in Nat /\ Stage' = Stage
      BY <1>1, <1>2, <1>3, <1>4, <2>1, BothEnds DEF Counts
    <3> QED
      BY <1>2, <1>4, <3>1, Lefts
<1>6. CASE pc' = "open"
  <2>1. Unsent' = FileLen' - offset' /\ Stage' = 6
    BY <1>6, BothEnds DEF Places
  <2>2. pos <= PageLen
    BY Lengths DEF IInv
  <2>3. Unsent' = FileLen /\ FileLen \in Nat /\ PageLen - pos \in Nat
    BY <1>1, <1>3, <2>1, <2>2, BothEnds DEF Counts
  <2>4. \A p, l \in Nat : 4 * l + 6 < 4 * (p + l) + 7
    OBVIOUS
  <2>5. StepsLeft = 4 * ((PageLen - pos) + FileLen) + 7 /\ StepsLeft' = 4 * FileLen + 6
    BY <1>3, <1>4, <2>1, <2>3, Lefts
  <2> QED
    BY <2>3, <2>4, <2>5
<1>7. CASE pc' = "finish"
  <2>1. Stage' = 1
    BY <1>7, BothEnds DEF Places
  <2> QED
    BY <1>4, <1>7, <2>1, EndsGoOn DEF Ended
<1> QED
  BY <1>1, <1>5, <1>6, <1>7

LEMMA FileGoesOn ==
  ASSUME IInv, IInv', OpenFile \/ (\E n \in 0 .. Cache : ReadFile(n)) \/ WriteOut \/ Buff2Sock
  PROVE  StepsLeft' < StepsLeft
<1>1. FileLen' = FileLen
  BY DEF OpenFile, ReadFile, WriteOut, Buff2Sock, request, FileLen
<1>2. /\ FileLen \in Nat /\ offset \in Nat /\ Len(cache) \in Nat
      /\ offset' \in Nat /\ Unsent \in Nat
  BY BothEnds DEF Counts
<1>3. Unsent' = Unsent /\ Stage' = Stage - 1 => StepsLeft' < StepsLeft
  <2>1. \A u \in Nat, s \in 0 .. 7 : 4 * u + (s - 1) < 4 * u + s
    OBVIOUS
  <2>2. Unsent \in Nat /\ Stage \in 0 .. 7
    BY BothEnds DEF Counts
  <2> QED
    BY <2>1, <2>2, Lefts
<1>4. CASE OpenFile
  <2>1. pc = "open" /\ pc' = "read" /\ offset' = offset
    BY <1>4 DEF OpenFile
  <2>2. Unsent = FileLen - offset /\ Stage = 6
    BY <2>1, BothEnds DEF Places
  <2>3. Unsent' = FileLen' - offset' /\ Stage' = 5
    BY <2>1, BothEnds DEF Places
  <2> QED
    BY <1>1, <1>3, <2>1, <2>2, <2>3
<1>5. CASE \E n \in 0 .. Cache : ReadFile(n)
  <2>1. pc = "read" /\ pc' = "write" /\ offset' = offset + len'
    BY <1>5 DEF ReadFile
  <2>2. len' = Len(cache')
    BY <2>1 DEF IInv, Holding
  <2>3. Unsent = FileLen - offset /\ Stage = 5
    BY <2>1, BothEnds DEF Places
  <2>4. Unsent' = FileLen' - offset' + Len(cache') /\ Stage' = 4
    BY <2>1, BothEnds DEF Places
  <2>5. Len(cache') \in Nat
    BY BothEnds DEF Counts
  <2> QED
    BY <1>1, <1>2, <1>3, <2>1, <2>2, <2>3, <2>4, <2>5
<1>6. CASE WriteOut
  <2>1. pc = "write" /\ pc' = "buff" /\ offset' = offset /\ cache' = cache
    BY <1>6 DEF WriteOut, reading
  <2>2. Unsent = FileLen - offset + Len(cache) /\ Stage = 4
    BY <2>1, BothEnds DEF Places
  <2>3. Unsent' = FileLen' - offset' + Len(cache') /\ Stage' = 3
    BY <2>1, BothEnds DEF Places
  <2> QED
    BY <1>1, <1>3, <2>1, <2>2, <2>3
<1>7. CASE Buff2Sock
  <2>1. pc = "buff" /\ pc' = "send" /\ offset' = offset /\ current' = cache
    BY <1>7, AllTaken DEF Buff2Sock, reading
  <2>2. Unsent = FileLen - offset + Len(cache) /\ Stage = 3
    BY <2>1, BothEnds DEF Places
  <2>3. Unsent' = FileLen' - offset' + Len(current') /\ Stage' = 2
    BY <2>1, BothEnds DEF Places
  <2> QED
    BY <1>1, <1>3, <2>1, <2>2, <2>3
<1> QED
  BY <1>4, <1>5, <1>6, <1>7

LEMMA SendGoesOn ==
  ASSUME IInv, IInv', NEW n \in 1 .. Window, SendSome(n)
  PROVE  StepsLeft' < StepsLeft
<1>1. /\ pc = "send" /\ Send(current, n) /\ offset' = offset /\ file' = file
      /\ current' = SubSeq(current, n + 1, Len(current))
      /\ len = Len(cache) /\ writeLen = Len(cache)
  BY DEF SendSome, Rest, reading, request, IInv, Holding
<1>2. n \in Int /\ n >= 1
  BY Sizes
<1>3. current \in Seq(Int) /\ Len(current) \in Nat /\ offset \in Nat /\ FileLen \in Nat
  BY BothEnds, HeldType DEF Counts, IInv
<1>4. n \in 1 .. Len(current)
  <2>1. TypeOK /\ inflight <= Len(wire)
    BY DEF IInv, Paging
  <2> QED
    BY <1>1, <1>2, <1>3, <2>1, Sends
<1>5. Len(current') = Len(current) - n
  <2>1. n \in 0 .. Len(current)
    BY <1>4
  <2> QED
    BY <1>1, <1>3, <2>1, Split
<1>6. FileLen' = FileLen
  BY <1>1 DEF FileLen
<1>7. Unsent = FileLen - offset + Len(current) /\ Stage = 2
  BY <1>1, BothEnds DEF Places
<1>8. CASE current' # << >>
  <2>1. pc' = "send"
    BY <1>1, <1>8 DEF SendSome
  <2>2. Unsent' = FileLen' - offset' + Len(current') /\ Stage' = 2
    BY <2>1, BothEnds DEF Places
  <2> QED
    BY <1>1, <1>2, <1>3, <1>5, <1>6, <1>7, <2>2, Lefts
<1>9. CASE current' = << >>
  <2>1. pc' = "read"
    <3>1. len - writeLen = 0
      BY <1>1, BothEnds DEF Counts
    <3> QED
      BY <1>9, <3>1 DEF SendSome
  <2>2. Unsent' = FileLen' - offset' /\ Stage' = 5
    BY <2>1, BothEnds DEF Places
  <2> QED
    BY <1>1, <1>2, <1>3, <1>4, <1>6, <1>7, <2>2, Lefts
<1> QED
  BY <1>8, <1>9

(* Without pressure there is room for the page, which fits in the socket   *)
(* buffer.                                                                 *)
LEMMA RoomForPage == ASSUME IInv, PageAgain PROVE pressure
<1>1. Len(wire) < PageLen /\ (pressure \/ inflight = Window)
  BY DEF PageAgain, Refused, RefusalBound
<1>2. inflight <= Len(wire)
  BY DEF IInv, Paging
<1> QED
  BY <1>1, <1>2, Lengths, Sizes DEF IInv

LEMMA ReplyStep == ASSUME IInv, IInv', [Next]_vars PROVE [ReplyGoesOn]_vars
<1> SUFFICES ASSUME ~UNCHANGED vars PROVE ReplyGoesOn
  OBVIOUS
<1>1. ASSUME PageFails \/ OpenFails \/ EndFile \/ Buff2SockRefuses \/ SendFails \/ FinishHttp
      PROVE  StepsLeft' < StepsLeft
  <2>1. \/ pc \in {"page", "open", "read", "buff", "send"} /\ pc' = "finish"
        \/ pc = "finish" /\ pc' = "closed"
    BY <1>1 DEF PageFails, OpenFails, EndFile, Buff2SockRefuses, SendFails, FinishHttp
  <2>2. /\ pc' = "finish" => Stage' = 1
        /\ pc' = "closed" => Stage' = 0
    BY BothEnds DEF Places
  <2>3. Stage > Stage'
    BY <2>1, <2>2, BothEnds DEF Places
  <2> QED
    BY <2>1, <2>3, EndsGoOn DEF Ended
<1>2. Server => StepsLeft' < StepsLeft \/ (pressure /\ PageAgain)
  BY <1>1, PageGoesOn, FileGoesOn, SendGoesOn, RoomForPage DEF Server, SendAgain
<1>3. ASSUME Client PROVE StepsLeft' = StepsLeft
  BY <1>3 DEF Client, PeerRead, PeerReset, request, page, reading, loops, StepsLeft, Unsent, Stage,
     FileLen, Held
<1> QED
  BY <1>2, <1>3 DEF ReplyGoesOn

(* A reply is over after at most 4 * (PageLen + FileLen) + 7 steps of the  *)
(* server, the rounds of DN_Buff2Sock on EAGAIN left out: whatever part of *)
(* it send takes, a step brings the end nearer.  The one exception is a    *)
(* page the kernel had no memory for, whose position goes back.  So Sent   *)
(* needs no more than that the server is scheduled and the client reads.   *)
THEOREM ReplyIsBounded ==
  Spec => Allowance /\ [](StepsLeft \in Nat) /\ [][ReplyGoesOn]_vars
<1>1. Init => Allowance
  <2> SUFFICES ASSUME Init PROVE Allowance
    OBVIOUS
  <2>1. pc = "page" /\ pos = 0 /\ PageLen - 0 + FileLen = PageLen + FileLen
    BY Started, CountsAre, Sizes DEF Counts, Init
  <2> QED
    BY <2>1, PlacesAre, Started DEF Places, Allowance, StepsLeft
<1>2. IInv => StepsLeft \in Nat
  BY CountsAre DEF Counts
<1>3. IInv /\ [Next]_vars => IInv' /\ [ReplyGoesOn]_vars
  BY Inductive, ReplyStep
<1> QED
  BY <1>1, <1>2, <1>3, Started, PTL DEF Spec
=============================================================================
