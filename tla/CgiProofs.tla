----------------------------- MODULE CgiProofs -----------------------------
(***************************************************************************)
(* Proofs that module Cgi keeps its invariants and implements Delivery,    *)
(* for bodies, outputs, buffers and pipes of any size and for every        *)
(* program.                                                                *)
(***************************************************************************)
EXTENDS Cgi, StreamLemmas

Fresh == {"begin", "length", "page", "pipeIn", "pipeOut", "fork"}
Working == {"take", "write", "more", "read", "relay", "wait"}
Over == {"finish", "closed", "dead"}

(* Where the server is, what the program, the descriptors and str can be.  *)
Stages ==
  /\ pc \in Fresh => program = "none"
  /\ pc \in Working => /\ program \notin {"none", "reaped"}
                       /\ ptr = "own"
                       /\ fds = {"cgiIn[1]", "cgiOut[0]"}
  /\ pc \notin Over => ret = 1
  /\ pc \in {"begin", "length", "page", "pipeIn"} => fds = {}
  /\ pc = "pipeOut" => fds = {"cgiIn[0]", "cgiIn[1]"}
  /\ pc = "fork" => fds = {"cgiIn[0]", "cgiIn[1]", "cgiOut[0]", "cgiOut[1]"}
  /\ ptr = "interior" => request.method = "POST" /\ program = "none"
  /\ pc = "length" => request.method = "POST"
  /\ pc = "wait" => program \in {"quiet", "quietReads", "exited"}
  /\ program = "writes" => produced < Output
  /\ program = "reaped" => pc \in {"finish", "closed"} /\ ret = 1
  /\ pc \in {"finish", "closed"} /\ ret = 1 => program = "reaped"
  /\ pc \in {"finish", "closed"} /\ program = "none" =>
       fds = {} \/ (Failures /\ "cgiIn[0]" \in fds)
  /\ pc = "finish" /\ program # "none" => fds = {"cgiIn[1]", "cgiOut[0]"}
  /\ pc = "closed" /\ program # "none" => fds = {}
  /\ DiesOnly

(* The body: what the program has been fed, what str still owes it, what   *)
(* waits in the in buffer and in the socket.  The rest of a str that was   *)
(* cut short is missing, and the program has gone then.                    *)
Fed == input \o inPipe
Owed == IF pc = "write" THEN str ELSE << >>
Early == Span(0, request.early)
Late == Span(request.early + lost, arrived)

Body ==
  /\ request.early + lost <= arrived
  /\ Len(ring) <= Buf
  /\ pc \in Fresh => input = << >> /\ inPipe = << >> /\ ring = Early /\ sock = Late
  /\ pc \in {"write", "more"} => ring = << >>
  /\ pc \in Working /\ ~Gone => ((Fed \o Owed) \o ring) \o sock = Kept
  /\ Begins(Fed, Kept)

(* The output: what has been sent, what is being relayed, what the pipe    *)
(* holds.                                                                  *)
Relaying == IF pc = "relay" THEN str ELSE << >>
Reply == Span(0, PageLen + produced)
Completed == pc = "wait" \/ (pc \in {"finish", "closed"} /\ ret = 1)

Outcome ==
  /\ pc \in {"begin", "page"} => wire = << >>
  /\ pc \in {"length", "pipeIn", "pipeOut", "fork"} => wire = Span(0, PageLen)
  /\ program = "none" => produced = 0 /\ outPipe = << >>
  /\ pc \in Working => (wire \o Relaying) \o outPipe = Reply
  /\ Completed => wire = Reply
  /\ Begins(wire, Reply)

IInv == TypeOK /\ Stages /\ Body /\ Outcome

-----------------------------------------------------------------------------
LEMMA Sizes ==
  /\ PageLen \in Nat /\ PageLen > 0 /\ Buf \in Nat /\ Buf > 0
  /\ PipeCap \in Nat /\ PipeCap > 0 /\ Output \in Nat /\ Output > 0
<1>1. PageLen \in Nat \ {0} /\ Buf \in Nat \ {0} /\ PipeCap \in Nat \ {0} /\ Output \in Nat \ {0}
  BY SizesAssumption
<1> QED
  BY <1>1

LEMMA RequestIs ==
  ASSUME request \in Requests
  PROVE  /\ request.early \in Nat /\ request.body \in Nat /\ request.early <= request.body
         /\ request.early <= Buf
         /\ request.length # None => request.length \in Int /\ LengthRead \in Int
         /\ request.full \in BOOLEAN
<1>1. /\ request.early \in Nat /\ request.body \in Nat /\ request.early <= request.body
      /\ request.early <= Buf
      /\ request.length \in Int \cup {None} /\ request.full \in BOOLEAN
  BY RequestsAssumption
<1> QED
  BY <1>1 DEF LengthRead

LEMMA Strings ==
  ASSUME TypeOK
  PROVE  /\ str \in Seq(Nat) /\ ring \in Seq(Nat) /\ sock \in Seq(Nat)
         /\ inPipe \in Seq(Nat) /\ outPipe \in Seq(Nat)
         /\ input \in Seq(Nat) /\ wire \in Seq(Nat)
         /\ << >> \in Seq(Nat)
         /\ Fed \in Seq(Nat) /\ Owed \in Seq(Nat) /\ Relaying \in Seq(Nat)
<1>1. /\ str \in Seq(Nat) /\ ring \in Seq(Nat) /\ sock \in Seq(Nat)
      /\ inPipe \in Seq(Nat) /\ outPipe \in Seq(Nat)
      /\ input \in Seq(Nat) /\ wire \in Seq(Nat)
  BY DEF TypeOK
<1>2. << >> \in Seq(Nat)
  BY EmptySeq
<1>3. Fed \in Seq(Nat)
  BY <1>1, ConcatProperties DEF Fed
<1> QED
  BY <1>1, <1>2, <1>3 DEF Owed, Relaying

LEMMA Counts ==
  ASSUME TypeOK
  PROVE  /\ arrived \in Nat /\ lost \in Nat /\ produced \in Nat
         /\ arrived <= request.body
         /\ request.early \in Nat /\ request.body \in Nat /\ request.early <= request.body
         /\ Len(str) \in Nat /\ Len(ring) \in Nat /\ Len(sock) \in Nat
         /\ Len(inPipe) \in Nat /\ Len(outPipe) \in Nat
         /\ Len(inPipe) <= PipeCap /\ Len(outPipe) <= PipeCap /\ Len(str) <= Buf
<1>1. request \in Requests
  BY DEF TypeOK
<1>2. request.early \in Nat /\ request.body \in Nat /\ request.early <= request.body
  BY <1>1, RequestIs
<1>3. /\ Len(str) \in Nat /\ Len(ring) \in Nat /\ Len(sock) \in Nat
      /\ Len(inPipe) \in Nat /\ Len(outPipe) \in Nat
  BY Strings, LenProperties
<1>4. arrived \in 0 .. request.body /\ lost \in Nat /\ produced \in 0 .. Output
  BY DEF TypeOK
<1> QED
  BY <1>2, <1>3, <1>4, Sizes DEF TypeOK

(* The parts of the body. *)
LEMMA Parts ==
  ASSUME TypeOK, Body
  PROVE  /\ Early \in Seq(Nat) /\ Late \in Seq(Nat) /\ Kept \in Seq(Nat)
         /\ Kept = Early \o Late
         /\ Len(Early) = request.early
         /\ Len(Late) = arrived - (request.early + lost)
<1>1. /\ arrived \in Nat /\ lost \in Nat /\ request.early \in Nat
      /\ request.early + lost \in Nat /\ request.early + lost <= arrived
  BY Counts DEF Body
<1>2. Early \in Seq(Nat) /\ Len(Early) = request.early
  BY <1>1, SpanFromStart DEF Early
<1>3. Late \in Seq(Nat)
  BY SMTT(30), <1>1, SpanNat DEF Late
<1>4. Len(Late) = arrived - (request.early + lost)
  <2>1. request.early + lost \in Int /\ arrived \in Int
    BY <1>1
  <2> QED
    BY <1>1, <2>1, SpanIs DEF Late
<1>5. Kept = Early \o Late
  BY DEF Kept, Early, Late
<1>6. Kept \in Seq(Nat)
  BY <1>2, <1>3, <1>5, ConcatProperties
<1> QED
  BY <1>2, <1>3, <1>4, <1>5, <1>6

LEMMA ReplyIs ==
  ASSUME TypeOK
  PROVE  Reply \in Seq(Nat) /\ PageLen + produced \in Nat
<1>1. PageLen + produced \in Nat
  BY Counts, Sizes
<1> QED
  BY <1>1, SpanFromStart DEF Reply

LEMMA Started == Init => IInv
<1> SUFFICES ASSUME Init PROVE IInv
  OBVIOUS
<1>1. << >> \in Seq(Nat) /\ Len(<< >>) = 0 /\ << >> \o << >> = << >>
  BY EmptySeq, ConcatEmptySeq
<1>2. /\ request.early \in Nat /\ request.body \in Nat /\ request.early <= request.body
      /\ request.early <= Buf
  BY RequestIs DEF Init
<1>3. Early \in Seq(Nat) /\ Len(Early) = request.early
  BY <1>2, SpanFromStart DEF Early
<1>4. TypeOK
  <2>1. /\ str \in Seq(Nat) /\ ring \in Seq(Nat) /\ sock \in Seq(Nat)
        /\ inPipe \in Seq(Nat) /\ outPipe \in Seq(Nat)
        /\ input \in Seq(Nat) /\ wire \in Seq(Nat)
        /\ Len(str) <= Buf /\ Len(inPipe) <= PipeCap /\ Len(outPipe) <= PipeCap
    BY <1>1, <1>3, Sizes DEF Init, Early
  <2>2. arrived \in 0 .. request.body /\ produced \in 0 .. Output
    BY <1>2, Sizes DEF Init
  <2>3. /\ request \in Requests /\ habit \in {"any", "length"} /\ pc = "begin" /\ ret = 1
        /\ contentLen \in Int /\ ptr = "null" /\ fds = {} /\ lost \in Nat
        /\ part = FALSE /\ program = "none" /\ peer = "alive"
    BY DEF Init
  <2>4. ret \in {-1, 0, 1, Character} /\ part \in BOOLEAN
    BY <2>3
  <2> QED
    BY SMTT(30), <2>1, <2>2, <2>3, <2>4 DEF TypeOK
<1>5. Stages
  BY DEF Init, Stages, DiesOnly, Fresh, Working, Over
<1>6. Late = << >>
  <2>1. request.early + lost = request.early /\ arrived = request.early
    BY <1>2 DEF Init
  <2> QED
    BY <1>2, <2>1, SpanEmpty DEF Late
<1>7. Kept = Early
  <2>1. Early \o << >> = Early
    BY <1>3, ConcatEmptySeq
  <2> QED
    BY <1>6, <2>1 DEF Kept, Early, Late
<1>8. Body
  <2>1. Begins(<< >>, << >> \o Early)
    BY <1>1, <1>3, BeginsConcat
  <2>2. << >> \o Early = Early
    BY <1>3, ConcatEmptySeq
  <2>3. Begins(Fed, Kept)
    BY <1>1, <1>7, <2>1, <2>2 DEF Init, Fed
  <2>4. request.early + lost <= arrived /\ Len(ring) <= Buf
    BY <1>2, <1>3 DEF Init, Early
  <2> QED
    BY <1>6, <2>3, <2>4 DEF Init, Body, Early, Working
<1>9. Outcome
  <2>1. Reply \in Seq(Nat)
    BY <1>4, ReplyIs
  <2>2. Begins(<< >>, << >> \o Reply) /\ << >> \o Reply = Reply
    BY <1>1, <2>1, BeginsConcat, ConcatEmptySeq
  <2>3. Begins(wire, Reply)
    BY <2>2 DEF Init
  <2> QED
    BY <2>3 DEF Init, Outcome, Working, Completed
<1> QED
  BY <1>4, <1>5, <1>8, <1>9 DEF IInv

-----------------------------------------------------------------------------
(* What a step that leaves the body, or the output, alone does to them.    *)

LEMMA BodyStill ==
  ASSUME Body,
         UNCHANGED <<request, input, inPipe, ring, sock, arrived, lost>>,
         pc' \in Fresh => pc \in Fresh,
         pc' \in Working => pc \in Working /\ (Owed' = Owed \/ Gone'),
         Gone => Gone',
         pc' \in {"write", "more"} => pc \in {"write", "more"}
  PROVE  Body'
<1>1. Fed' = Fed /\ Kept' = Kept /\ Early' = Early /\ Late' = Late
  BY DEF Fed, Kept, Early, Late
<1> QED
  BY <1>1 DEF Body

LEMMA OutcomeStill ==
  ASSUME Outcome,
         UNCHANGED <<wire, outPipe, produced>>,
         program' = "none" => program = "none",
         pc' \in {"begin", "page"} => pc \in {"begin", "page"},
         pc' \in {"length", "pipeIn", "pipeOut", "fork"} =>
           pc \in {"length", "pipeIn", "pipeOut", "fork"},
         pc' \in Working => pc \in Working /\ Relaying' = Relaying,
         Completed' => Completed
  PROVE  Outcome'
<1>1. Reply' = Reply
  BY DEF Reply
<1> QED
  BY <1>1 DEF Outcome

-----------------------------------------------------------------------------
(* The steps that move no bytes.                                           *)

LEMMA ServerQuietKeeps ==
  ASSUME IInv,
         \/ BeginPost \/ BeginPostNoMark \/ ReadNull \/ WriteBodyFails \/ WriteBodyCut
         \/ BodyWritten \/ RelayFails
  PROVE  IInv'
<1>1. TypeOK /\ Stages /\ Body /\ Outcome
  BY DEF IInv
<1>2. /\ UNCHANGED <<request, habit, fds, ring, sock, arrived, lost, inPipe, outPipe, part>>
      /\ UNCHANGED <<program, input, produced, wire, peer>>
      /\ \/ /\ pc = "begin" /\ pc' = "page" /\ request.method = "POST" /\ request.length # None
            /\ contentLen' = LengthRead /\ ptr' = "interior" /\ ret' = ret /\ str' = str
         \/ /\ pc = "begin" /\ pc' \in {"finish", "dead"}
            /\ request.method = "POST" /\ request.length # None
            /\ contentLen' = LengthRead /\ ret' = 48 /\ UNCHANGED <<ptr, str>>
         \/ pc = "length" /\ pc' = "dead" /\ UNCHANGED <<ret, contentLen, ptr, str>>
         \/ /\ pc = "write" /\ pc' = "write" /\ Gone /\ str' = << >>
            /\ UNCHANGED <<ret, contentLen, ptr>>
         \/ /\ pc = "write" /\ str = << >> /\ pc' \in {"more", "read"}
            /\ UNCHANGED <<ret, contentLen, ptr, str>>
         \/ /\ pc \in {"write", "relay"} /\ pc' = "finish" /\ ret' = -1
            /\ UNCHANGED <<contentLen, ptr, str>>
  <2>1. CASE BeginPost
    BY <2>1 DEF BeginPost, given, body, pipes, child, client
  <2>6. CASE BeginPostNoMark
    BY <2>6 DEF BeginPostNoMark, Character, given, body, pipes, child, client
  <2>7. CASE WriteBodyCut
    BY <2>7 DEF WriteBodyCut, InputRead, given, body, pipes, child, client
  <2>2. CASE ReadNull
    BY <2>2 DEF ReadNull, given, body, pipes, child, client
  <2>3. CASE WriteBodyFails
    BY <2>3 DEF WriteBodyFails, Return, given, body, pipes, child, client
  <2>4. CASE BodyWritten
    BY <2>4 DEF BodyWritten, given, body, pipes, child, client
  <2>5. CASE RelayFails
    BY <2>5 DEF RelayFails, Return, given, body, pipes, child, client
  <2> QED
    BY <2>1, <2>2, <2>3, <2>4, <2>5, <2>6, <2>7
<1>3. request.length # None => LengthRead \in Int
  BY <1>1, RequestIs DEF TypeOK
<1>4. TypeOK'
  <2>1. contentLen' \in Int /\ ret' \in {-1, 0, 1, Character}
    BY <1>1, <1>2, <1>3 DEF TypeOK, Character
  <2>2. str' \in Seq(Nat) /\ Len(str') <= Buf
    <3>1. str' \in {str, << >>}
      BY <1>2
    <3>2. << >> \in Seq(Nat) /\ Len(<< >>) <= Buf
      BY EmptySeq, Sizes
    <3>3. str \in Seq(Nat) /\ Len(str) <= Buf
      BY <1>1 DEF TypeOK
    <3> QED
      BY <3>1, <3>2, <3>3
  <2>3. ptr' \in {"null", "interior", "own"}
    BY <1>1, <1>2 DEF TypeOK
  <2> QED
    BY <1>1, <1>2, <2>1, <2>2, <2>3 DEF TypeOK
<1>5. Stages'
  BY <1>1, <1>2 DEF Stages, DiesOnly, Fresh, Working, Over
<1>6. Body'
  <2>1. /\ pc' \in Fresh => pc \in Fresh
        /\ pc' \in Working => pc \in Working /\ (Owed' = Owed \/ Gone')
        /\ Gone => Gone'
        /\ pc' \in {"write", "more"} => pc \in {"write", "more"}
    BY <1>2 DEF Fresh, Working, Owed, Gone
  <2> QED
    BY <1>1, <1>2, <2>1, BodyStill
<1>7. Outcome'
  <2>1. /\ pc' \in {"begin", "page"} => pc \in {"begin", "page"}
        /\ pc' \in {"length", "pipeIn", "pipeOut", "fork"} =>
             pc \in {"length", "pipeIn", "pipeOut", "fork"}
        /\ pc' \in Working => pc \in Working /\ Relaying' = Relaying
        /\ Completed' => Completed
    BY <1>2 DEF Working, Relaying, Completed
  <2> QED
    BY <1>1, <1>2, <2>1, OutcomeStill
<1> QED
  BY <1>4, <1>5, <1>6, <1>7 DEF IInv

LEMMA CallsKeep ==
  ASSUME IInv,
         \/ Pipe("pipeIn", "pipeOut", {"cgiIn[0]", "cgiIn[1]"})
         \/ Pipe("pipeOut", "fork", {"cgiOut[0]", "cgiOut[1]"})
         \/ PipeFails \/ MallocFails
  PROVE  IInv'
<1>1. TypeOK /\ Stages /\ Body /\ Outcome
  BY DEF IInv
<1>2. /\ UNCHANGED <<request, habit, contentLen, ptr, str, ring, sock, arrived, lost>>
      /\ UNCHANGED <<inPipe, outPipe, part, program, input, produced, wire, peer>>
      /\ \/ /\ pc = "pipeIn" /\ pc' = "pipeOut" /\ ret' = ret
            /\ fds' = fds \cup {"cgiIn[0]", "cgiIn[1]"}
         \/ /\ pc = "pipeOut" /\ pc' = "fork" /\ ret' = ret
            /\ fds' = fds \cup {"cgiOut[0]", "cgiOut[1]"}
         \/ /\ Failures /\ pc \in {"pipeIn", "pipeOut", "fork"} /\ pc' = "finish"
            /\ ret' = -1 /\ fds' = fds
         \/ /\ Failures /\ pc \in {"take", "more", "read", "relay"} /\ pc' = "dead"
            /\ ret' = ret /\ fds' = fds
  <2>1. CASE Pipe("pipeIn", "pipeOut", {"cgiIn[0]", "cgiIn[1]"})
    BY <2>1 DEF Pipe, given, body, pipes, child, client
  <2>2. CASE Pipe("pipeOut", "fork", {"cgiOut[0]", "cgiOut[1]"})
    BY <2>2 DEF Pipe, given, body, pipes, child, client
  <2>3. CASE PipeFails
    BY <2>3 DEF PipeFails, Return, given, body, pipes, child, client
  <2>4. CASE MallocFails
    BY <2>4 DEF MallocFails, given, body, pipes, child, client
  <2> QED
    BY <2>1, <2>2, <2>3, <2>4
<1>3. fds' \subseteq {"cgiIn[0]", "cgiIn[1]", "cgiOut[0]", "cgiOut[1]"}
  BY <1>1, <1>2 DEF TypeOK
<1>4. TypeOK'
  BY <1>1, <1>2, <1>3 DEF TypeOK
<1>5. Stages'
  BY <1>1, <1>2 DEF Stages, DiesOnly, Fresh, Working, Over
<1>6. Body'
  <2>1. /\ pc' \in Fresh => pc \in Fresh
        /\ pc' \in Working => pc \in Working /\ (Owed' = Owed \/ Gone')
        /\ Gone => Gone'
        /\ pc' \in {"write", "more"} => pc \in {"write", "more"}
    BY <1>2 DEF Fresh, Working, Owed, Gone
  <2> QED
    BY <1>1, <1>2, <2>1, BodyStill
<1>7. Outcome'
  <2>1. /\ pc' \in {"begin", "page"} => pc \in {"begin", "page"}
        /\ pc' \in {"length", "pipeIn", "pipeOut", "fork"} =>
             pc \in {"length", "pipeIn", "pipeOut", "fork"}
        /\ pc' \in Working => pc \in Working /\ Relaying' = Relaying
        /\ Completed' => Completed
    BY <1>2 DEF Working, Relaying, Completed
  <2> QED
    BY <1>1, <1>2, <2>1, OutcomeStill
<1> QED
  BY <1>4, <1>5, <1>6, <1>7 DEF IInv

LEMMA EndKeeps ==
  ASSUME IInv, WaitPid \/ Finish
  PROVE  IInv'
<1>1. TypeOK /\ Stages /\ Body /\ Outcome
  BY DEF IInv
<1>2. /\ UNCHANGED <<request, habit, ret, contentLen, ring, sock, arrived, lost>>
      /\ UNCHANGED <<inPipe, outPipe, part, input, produced, wire, peer>>
      /\ \/ /\ pc = "wait" /\ pc' = "finish" /\ program = "exited" /\ program' = "reaped"
            /\ UNCHANGED <<ptr, str, fds>>
         \/ /\ pc = "finish" /\ program' = program /\ ptr' = "null" /\ str' = << >>
            /\ fds' = fds \ {"cgiOut[0]", "cgiIn[1]"}
            /\ pc' = "closed" \/ (pc' = "dead" /\ ptr = "interior")
  <2>1. CASE WaitPid
    BY <2>1 DEF WaitPid, given, body, pipes, client
  <2>2. CASE Finish
    BY <2>2 DEF Finish, FinishCloses, given, body, pipes, child, client
  <2> QED
    BY <2>1, <2>2
<1>3. << >> \in Seq(Nat) /\ Len(<< >>) <= Buf
  BY EmptySeq, Sizes
<1>4. TypeOK'
  <2>1. str' \in Seq(Nat) /\ Len(str') <= Buf
    BY <1>1, <1>2, <1>3 DEF TypeOK
  <2>2. fds' \subseteq {"cgiIn[0]", "cgiIn[1]", "cgiOut[0]", "cgiOut[1]"}
    BY <1>1, <1>2 DEF TypeOK
  <2> QED
    BY SMTT(30), <1>1, <1>2, <2>1, <2>2 DEF TypeOK
<1>5. Stages'
  <2>1. CASE pc = "wait"
    BY <1>1, <1>2, <2>1 DEF Stages, DiesOnly, Fresh, Working, Over
  <2>2. CASE pc = "finish"
    BY <1>1, <1>2, <2>2 DEF Stages, DiesOnly, Fresh, Working, Over
  <2> QED
    BY <1>2, <2>1, <2>2
<1>6. Body'
  <2>1. /\ pc' \notin Fresh /\ pc' \notin Working /\ pc' \notin {"write", "more"}
        /\ Gone => Gone'
    BY <1>2 DEF Fresh, Working, Gone
  <2> QED
    BY <1>1, <1>2, <2>1, BodyStill
<1>7. Outcome'
  <2>1. /\ program' = "none" => program = "none"
        /\ pc' \notin {"begin", "page", "length", "pipeIn", "pipeOut", "fork"}
        /\ pc' \notin Working
        /\ Completed' => Completed
    BY <1>2 DEF Working, Completed
  <2> QED
    BY <1>1, <1>2, <2>1, OutcomeStill
<1> QED
  BY <1>4, <1>5, <1>6, <1>7 DEF IInv

(* What the program decides, and what becomes of the client. *)
LEMMA OthersKeep ==
  ASSUME IInv,
         \/ \E op \in {"reads", "writes", "quiet", "exited"} : Chooses(op)
         \/ \E op \in {"quietReads", "exited"} : ChoosesQuiet(op)
         \/ WriteRefused \/ ClientFin \/ ClientResets
         \/ UNCHANGED vars
  PROVE  IInv'
<1>1. TypeOK /\ Stages /\ Body /\ Outcome
  BY DEF IInv
<1>2. /\ UNCHANGED <<request, habit, pc, ret, contentLen, ptr, str, fds, ring, sock>>
      /\ UNCHANGED <<arrived, lost, inPipe, outPipe, part, input, produced, wire>>
      /\ peer' \in {"alive", "fin", "rst", "gone"}
      /\ \/ program' = program
         \/ /\ program = "runs" /\ program' \in {"reads", "writes", "quiet", "exited"}
            /\ program' = "writes" => produced < Output
         \/ program = "writes" /\ program' = "runs"
         \/ program = "quiet" /\ program' \in {"quietReads", "exited"}
  <2>0. peer \in {"alive", "fin", "rst", "gone"}
    BY <1>1 DEF TypeOK
  <2>1. CASE \E op \in {"reads", "writes", "quiet", "exited"} : Chooses(op)
    BY <2>0, <2>1 DEF Chooses, given, server, body, pipes, client
  <2>2. CASE \E op \in {"quietReads", "exited"} : ChoosesQuiet(op)
    BY <2>0, <2>2 DEF ChoosesQuiet, given, server, body, pipes, client
  <2>3. CASE WriteRefused
    BY <2>0, <2>3 DEF WriteRefused, given, server, body, pipes, client
  <2>4. CASE ClientFin
    BY <2>4 DEF ClientFin, given, server, body, pipes, child
  <2>5. CASE ClientResets
    BY <2>5 DEF ClientResets, given, server, body, pipes, child
  <2>6. CASE UNCHANGED vars
    BY <2>0, <2>6 DEF vars, given, server, body, pipes, child, client
  <2> QED
    BY <2>1, <2>2, <2>3, <2>4, <2>5, <2>6
<1>3. TypeOK'
  BY <1>1, <1>2 DEF TypeOK
<1>4. Stages'
  BY <1>1, <1>2 DEF Stages, DiesOnly, Fresh, Working, Over
<1>5. Body'
  <2>1. Owed' = Owed /\ (Gone => Gone')
    BY <1>2 DEF Owed, Gone
  <2> QED
    BY <1>1, <1>2, <2>1, BodyStill
<1>6. Outcome'
  <2>1. Relaying' = Relaying /\ (Completed' <=> Completed) /\ (program' = "none" => program = "none")
    BY <1>2 DEF Relaying, Completed
  <2> QED
    BY <1>1, <1>2, <2>1, OutcomeStill
<1> QED
  BY <1>3, <1>4, <1>5, <1>6 DEF IInv

-----------------------------------------------------------------------------
(* The steps up to vfork.                                                  *)

LEMMA Discards ==
  ASSUME TypeOK, Body, pc \in Fresh, pc' \notin Working,
         sock' = << >>, lost' = lost + Len(sock),
         UNCHANGED <<request, input, inPipe, ring, arrived>>
  PROVE  Body' /\ lost' \in Nat /\ sock' \in Seq(Nat)
<1>1. /\ arrived \in Nat /\ lost \in Nat /\ request.early \in Nat /\ Len(sock) \in Nat
      /\ << >> \in Seq(Nat)
  BY Counts, Strings
<1>2. /\ input = << >> /\ inPipe = << >> /\ ring = Early /\ Len(ring) <= Buf
      /\ Len(sock) = arrived - (request.early + lost)
      /\ Early \in Seq(Nat)
  BY Parts DEF Body
<1>3. lost' \in Nat /\ request.early + lost' = arrived
  BY <1>1, <1>2
<1>4. Late' = << >> /\ Early' = Early
  BY <1>1, <1>3, SpanEmpty DEF Late, Early
<1>5. Kept' = Early
  <2>1. Early \o << >> = Early
    BY <1>2, ConcatEmptySeq
  <2> QED
    BY <1>4, <2>1 DEF Kept, Early, Late
<1>6. Fed' = << >>
  <2>1. << >> \o << >> = << >>
    BY <1>1, ConcatEmptySeq
  <2> QED
    BY <1>2, <2>1 DEF Fed
<1>7. Begins(<< >>, Early)
  <2>1. Begins(<< >>, << >> \o Early) /\ << >> \o Early = Early
    BY <1>1, <1>2, BeginsConcat, ConcatEmptySeq
  <2> QED
    BY <2>1
<1>8. pc' \notin {"write", "more"}
  BY DEF Working
<1>9. request.early + lost' <= arrived
  BY <1>1, <1>3
<1> QED
  BY <1>1, <1>2, <1>3, <1>4, <1>5, <1>6, <1>7, <1>8, <1>9 DEF Body

LEMMA DiscardKeeps ==
  ASSUME IInv, BeginGet \/ DiscardForever
  PROVE  IInv'
<1>1. TypeOK /\ Stages /\ Body /\ Outcome
  BY DEF IInv
<1>2. /\ UNCHANGED <<request, habit, ret, contentLen, ptr, str, fds, ring, arrived>>
      /\ UNCHANGED <<inPipe, outPipe, part, program, input, produced, wire>>
      /\ sock' = << >> /\ lost' = lost + Len(sock)
      /\ pc \in {"begin", "page"} /\ pc' \in {pc, "page"}
      /\ peer' \in {peer, "gone"}
  <2>1. CASE BeginGet
    BY <2>1 DEF BeginGet, DiscardRequest, given, pipes, child
  <2>2. CASE DiscardForever
    BY <2>2 DEF DiscardForever, given, server, pipes, child, client
  <2> QED
    BY <2>1, <2>2
<1>3. Body' /\ lost' \in Nat /\ sock' \in Seq(Nat)
  <2>1. pc \in Fresh /\ pc' \notin Working
    BY <1>2 DEF Fresh, Working
  <2> QED
    BY <1>1, <1>2, <2>1, Discards
<1>4. TypeOK'
  BY <1>1, <1>2, <1>3 DEF TypeOK
<1>5. Stages'
  BY <1>1, <1>2 DEF Stages, DiesOnly, Fresh, Working, Over
<1>6. Outcome'
  <2>1. /\ pc' \in {"begin", "page"} /\ pc' \notin Working /\ ~Completed'
        /\ pc \in {"begin", "page"}
    BY <1>2 DEF Working, Completed
  <2> QED
    BY <1>1, <1>2, <2>1, OutcomeStill
<1> QED
  BY <1>3, <1>4, <1>5, <1>6 DEF IInv

LEMMA PageKeeps ==
  ASSUME IInv, ResponsePage \/ BeginPostNoLength
  PROVE  IInv'
<1>1. TypeOK /\ Stages /\ Body /\ Outcome
  BY DEF IInv
<1>2. /\ UNCHANGED <<request, habit, contentLen, ptr, str, fds, ring, arrived>>
      /\ UNCHANGED <<inPipe, outPipe, part, program, input, produced>>
      /\ sock' = << >> /\ lost' = lost + Len(sock)
      /\ pc = "page" \/ (pc = "begin" /\ request.method = "POST")
      /\ peer' \in {peer, "gone"}
      /\ \/ pc' = "finish" /\ ret' \in {-1, 0} /\ wire' = wire
         \/ /\ pc' = IF pc = "page" THEN "pipeIn" ELSE "length"
            /\ ret' = ret /\ wire' = wire \o Span(0, PageLen)
  <2>1. CASE ResponsePage
    BY <2>1 DEF ResponsePage, SendPage, DiscardRequest, Return, given, pipes, child
  <2>2. CASE BeginPostNoLength
    BY <2>2 DEF BeginPostNoLength, SendPage, DiscardRequest, Return, given, pipes, child
  <2> QED
    BY <2>1, <2>2
<1>3. pc \in Fresh /\ pc' \notin Working /\ pc' \in {"finish", "pipeIn", "length"}
  BY <1>2 DEF Fresh, Working
<1>4. Body' /\ lost' \in Nat /\ sock' \in Seq(Nat)
  BY <1>1, <1>2, <1>3, Discards
<1>5. /\ wire = << >> /\ wire \o Span(0, PageLen) = Span(0, PageLen)
      /\ Span(0, PageLen) \in Seq(Nat) /\ produced = 0 /\ outPipe = << >>
      /\ PageLen + 0 = PageLen
  <2>1. wire = << >> /\ produced = 0 /\ outPipe = << >>
    BY <1>1, <1>2, <1>3 DEF Outcome, Stages
  <2>2. Span(0, PageLen) \in Seq(Nat) /\ PageLen + 0 = PageLen
    BY SpanFromStart, Sizes
  <2>3. << >> \o Span(0, PageLen) = Span(0, PageLen)
    BY <2>2, ConcatEmptySeq
  <2> QED
    BY <2>1, <2>2, <2>3
<1>6. TypeOK'
  <2>1. wire' \in Seq(Nat) /\ ret' \in {-1, 0, 1, Character}
    BY <1>1, <1>2, <1>5 DEF TypeOK
  <2> QED
    BY <1>1, <1>2, <1>3, <1>4, <2>1 DEF TypeOK
<1>7. Stages'
  BY <1>1, <1>2 DEF Stages, DiesOnly, Fresh, Working, Over
<1>8. Outcome'
  <2>1. Reply' = Span(0, PageLen)
    BY <1>2, <1>5 DEF Reply
  <2>2. wire' \in {<< >>, Span(0, PageLen)} /\ (pc' # "finish" => wire' = Span(0, PageLen))
    BY <1>2, <1>5
  <2>3. Begins(wire', Span(0, PageLen))
    <3>1. Begins(Span(0, PageLen), Span(0, PageLen))
      BY <1>5, BeginsItself
    <3>2. Begins(<< >>, << >> \o Span(0, PageLen))
      BY <1>5, EmptySeq, BeginsConcat
    <3> QED
      BY <1>5, <2>2, <3>1, <3>2
  <2>4. ~Completed'
    BY <1>2, <1>3 DEF Completed
  <2> QED
    BY <1>2, <1>3, <1>5, <2>1, <2>2, <2>3, <2>4 DEF Outcome
<1> QED
  BY <1>4, <1>6, <1>7, <1>8 DEF IInv

LEMMA ForkKeeps ==
  ASSUME IInv, Fork
  PROVE  IInv'
<1>1. TypeOK /\ Stages /\ Body /\ Outcome
  BY DEF IInv
<1>2. /\ UNCHANGED <<request, habit, ret, contentLen, str, ring, sock, arrived, lost>>
      /\ UNCHANGED <<inPipe, outPipe, part, input, produced, wire, peer>>
      /\ pc = "fork" /\ pc' \in {"take", "read"} /\ program' = "runs" /\ ptr' = "own"
      /\ fds' = fds \ {"cgiIn[0]", "cgiOut[1]"}
  BY DEF Fork, ParentCloses, Allocates, given, body, pipes, client
<1>3. TypeOK'
  BY <1>1, <1>2 DEF TypeOK
<1>4. Stages'
  BY <1>1, <1>2 DEF Stages, DiesOnly, Fresh, Working, Over
<1>5. Body'
  <2>1. /\ Fed' = << >> /\ Owed' = << >> /\ ring' = Early /\ sock' = Late
        /\ Kept' = Early \o Late /\ Early' = Early /\ Late' = Late /\ Early \in Seq(Nat)
        /\ << >> \in Seq(Nat)
    <3>1. << >> \o << >> = << >> /\ << >> \in Seq(Nat)
      BY EmptySeq, ConcatEmptySeq
    <3>2. input = << >> /\ inPipe = << >> /\ ring = Early /\ sock = Late
      BY <1>1, <1>2 DEF Body, Fresh
    <3>3. Kept = Early \o Late /\ Early \in Seq(Nat)
      BY <1>1, Parts
    <3>4. Fed' = << >>
      BY <1>2, <3>1, <3>2 DEF Fed
    <3>5. Owed' = << >>
      BY <1>2 DEF Owed
    <3>6. Kept' = Kept /\ Early' = Early /\ Late' = Late
      BY <1>2 DEF Kept, Early, Late
    <3> QED
      BY <1>2, <3>1, <3>2, <3>3, <3>4, <3>5, <3>6
  <2>2. (<< >> \o << >>) \o Early = Early
    BY <2>1, ConcatEmptySeq
  <2>3. ((Fed' \o Owed') \o ring') \o sock' = Kept'
    BY <2>1, <2>2
  <2>4. Begins(Fed, Kept)' /\ Len(ring') <= Buf /\ request'.early + lost' <= arrived'
    <3>1. Fed' = Fed /\ Kept' = Kept
      BY <1>2 DEF Fed, Kept
    <3> QED
      BY <1>1, <1>2, <3>1 DEF Body
  <2> QED
    BY <1>2, <2>3, <2>4 DEF Body, Fresh
<1>6. Outcome'
  <2>1. /\ wire = Span(0, PageLen) /\ outPipe = << >> /\ produced = 0 /\ PageLen + 0 = PageLen
        /\ wire \in Seq(Nat)
    BY <1>1, <1>2, Strings, Sizes DEF Outcome, Stages, Fresh
  <2>2. Reply' = wire /\ Reply' = Reply
    BY <1>2, <2>1 DEF Reply
  <2>3. Relaying' = << >>
    BY <1>2 DEF Relaying
  <2>4. (wire \o << >>) \o << >> = wire
    BY <2>1, ConcatEmptySeq
  <2>5. (wire' \o Relaying') \o outPipe' = Reply'
    BY <1>2, <2>1, <2>2, <2>3, <2>4
  <2>6. Begins(wire, Reply)' /\ ~Completed'
    BY <1>1, <1>2, <2>2 DEF Outcome, Completed
  <2> QED
    BY <1>2, <2>5, <2>6 DEF Outcome
<1> QED
  BY <1>3, <1>4, <1>5, <1>6 DEF IInv

-----------------------------------------------------------------------------
(* The steps that move the body.                                           *)

LEMMA TakeBodyKeeps ==
  ASSUME IInv, TakeBody
  PROVE  IInv'
<1>1. TypeOK /\ Stages /\ Body /\ Outcome
  BY DEF IInv
<1>2. /\ UNCHANGED <<request, habit, ret, ptr, fds, sock, arrived, lost, inPipe, outPipe>>
      /\ part' = FALSE
      /\ UNCHANGED <<program, input, produced, wire, peer>>
      /\ pc = "take" /\ pc' = "write" /\ str' = ring /\ ring' = << >>
      /\ contentLen' = contentLen - Len(ring)
  BY DEF TakeBody, given, pipes, child, client
<1>3. << >> \in Seq(Nat) /\ Len(<< >>) = 0 /\ Fed \in Seq(Nat) /\ ring \in Seq(Nat)
  BY <1>1, Strings, EmptySeq
<1>4. TypeOK'
  <2>1. contentLen' \in Int
    BY <1>1, <1>2, Counts DEF TypeOK
  <2>2. str' \in Seq(Nat) /\ ring' \in Seq(Nat) /\ Len(str') <= Buf
    BY <1>1, <1>2, <1>3 DEF Body
  <2> QED
    BY <1>1, <1>2, <2>1, <2>2 DEF TypeOK
<1>5. Stages'
  BY <1>1, <1>2 DEF Stages, DiesOnly, Fresh, Working, Over
<1>6. Body'
  <2>1. Fed' = Fed /\ Kept' = Kept /\ Owed = << >> /\ Owed' = ring
    BY <1>2 DEF Fed, Kept, Owed
  <2>2. (Fed \o << >>) \o ring = (Fed \o ring) \o << >>
    <3>1. Fed \o ring \in Seq(Nat)
      BY <1>3, ConcatProperties
    <3>2. Fed \o << >> = Fed
      BY <1>3, ConcatEmptySeq
    <3>3. (Fed \o ring) \o << >> = Fed \o ring
      BY <3>1, ConcatEmptySeq
    <3> QED
      BY <3>2, <3>3
  <2>3. ~Gone => ((Fed \o << >>) \o ring) \o sock = Kept
    BY <1>1, <1>2, <2>1 DEF Body, Working
  <2>4. ~Gone => ((Fed \o ring) \o << >>) \o sock = Kept
    BY <2>2, <2>3
  <2>5. ~Gone' => ((Fed' \o Owed') \o ring') \o sock' = Kept'
    BY <1>2, <2>1, <2>4 DEF Gone
  <2>6. Len(ring') <= Buf
    BY <1>2, <1>3, Sizes
  <2> QED
    BY <1>1, <1>2, <2>1, <2>5, <2>6 DEF Body, Fresh
<1>7. Outcome'
  <2>1. Relaying' = Relaying /\ pc \in Working /\ ~Completed'
    BY <1>2 DEF Relaying, Working, Completed
  <2> QED
    BY <1>1, <1>2, <2>1, OutcomeStill
<1> QED
  BY <1>4, <1>5, <1>6, <1>7 DEF IInv

LEMMA WriteBodyKeeps ==
  ASSUME IInv, NEW n \in Int, WriteBody(n)
  PROVE  IInv'
<1> DEFINE front == SubSeq(str, 1, n)
           rest == SubSeq(str, n + 1, Len(str))
<1>1. TypeOK /\ Stages /\ Body /\ Outcome
  BY DEF IInv
<1>2. /\ UNCHANGED <<request, habit, pc, ret, contentLen, ptr, fds, ring, sock, arrived, lost>>
      /\ UNCHANGED <<outPipe, program, input, produced, wire, peer>>
      /\ pc = "write" /\ n \in 1 .. Lesser(Len(str), PipeCap - Len(inPipe))
      /\ inPipe' = inPipe \o front /\ str' = rest /\ part' = TRUE /\ InputRead
  BY DEF WriteBody, Unwritten, given, body, child, client
<1>3. /\ str \in Seq(Nat) /\ inPipe \in Seq(Nat) /\ input \in Seq(Nat) /\ Fed \in Seq(Nat)
      /\ ring \in Seq(Nat) /\ sock \in Seq(Nat)
  BY <1>1, Strings
<1>4. n \in 0 .. Len(str) /\ n <= PipeCap - Len(inPipe)
  <2>1. Len(str) \in Nat /\ Len(inPipe) \in Nat /\ PipeCap \in Nat
    BY <1>1, Counts, Sizes
  <2> QED
    BY <1>2, <2>1 DEF Lesser
<1>5. /\ front \in Seq(Nat) /\ Len(front) = n
      /\ rest \in Seq(Nat) /\ Len(rest) = Len(str) - n
  BY <1>3, <1>4, Split
<1>6. (Fed \o front) \o rest = Fed \o str
  BY <1>3, <1>4, MoveOn
<1> HIDE DEF front, rest
<1>7. Fed' = Fed \o front
  <2>1. input \in Seq(Nat) /\ inPipe \in Seq(Nat) /\ front \in Seq(Nat)
    BY <1>3, <1>5
  <2>2. (input \o inPipe) \o front = input \o (inPipe \o front)
    BY <2>1, ConcatAssociative
  <2> QED
    BY <1>2, <2>2 DEF Fed
<1>8. TypeOK'
  <2>1. inPipe' \in Seq(Nat) /\ Len(inPipe') = Len(inPipe) + n
    BY <1>2, <1>3, <1>5, ConcatProperties
  <2>2. Len(inPipe') <= PipeCap /\ Len(str') <= Buf
    BY <1>1, <1>2, <1>4, <1>5, <2>1, Counts, Sizes
  <2> QED
    BY <1>1, <1>2, <1>5, <2>1, <2>2 DEF TypeOK
<1>9. Stages'
  BY <1>1, <1>2 DEF Stages, DiesOnly, Fresh, Working, Over
<1>10. Body'
  <2>1. Kept' = Kept /\ Owed = str /\ Owed' = rest
    BY <1>2 DEF Kept, Owed
  <2>0. ~Gone
    <3>1. fds = {"cgiIn[1]", "cgiOut[0]"}
      <4>1. pc \in Working
        BY <1>2 DEF Working
      <4> QED
        BY <1>1, <4>1 DEF Stages
    <3> QED
      BY <1>2, <3>1 DEF InputRead
  <2>2. ((Fed \o str) \o ring) \o sock = Kept
    BY <1>1, <1>2, <2>0, <2>1 DEF Body, Working
  <2>3. (((Fed \o front) \o rest) \o ring) \o sock = Kept
    BY <1>6, <2>2
  <2>4. ((Fed' \o Owed') \o ring') \o sock' = Kept'
    BY <1>2, <1>7, <2>1, <2>3
  <2>5. Begins(Fed', Kept')
    <3>1. Fed \o front \in Seq(Nat)
      BY <1>3, <1>5, ConcatProperties
    <3>2. Begins(Fed \o front, (((Fed \o front) \o rest) \o ring) \o sock)
      BY <1>3, <1>5, <3>1, FirstOfFour
    <3> QED
      BY <1>7, <2>1, <2>3, <3>2
  <2> QED
    BY <1>1, <1>2, <2>4, <2>5 DEF Body, Fresh
<1>11. Outcome'
  <2>1. Relaying' = Relaying /\ pc \in Working /\ ~Completed'
    BY <1>2 DEF Relaying, Working, Completed
  <2> QED
    BY <1>1, <1>2, <2>1, OutcomeStill
<1> QED
  BY <1>8, <1>9, <1>10, <1>11 DEF IInv

LEMMA MoreBodyKeeps ==
  ASSUME IInv, MoreBody \/ MoreBodyFails
  PROVE  IInv'
<1> DEFINE n == Lesser(Buf, Len(sock))
           front == SubSeq(sock, 1, n)
           rest == SubSeq(sock, n + 1, Len(sock))
<1>1. TypeOK /\ Stages /\ Body /\ Outcome
  BY DEF IInv
<1>2. /\ UNCHANGED <<request, habit, contentLen, ptr, str, fds, arrived, lost>>
      /\ UNCHANGED <<inPipe, outPipe, part, program, input, produced, wire>>
      /\ pc = "more" /\ peer' \in {peer, "gone"}
      /\ \/ pc' = "take" /\ ret' = ret /\ ring' = front /\ sock' = rest
         \/ /\ pc' = "finish" /\ ret' = -1 /\ ring' = sock /\ sock' = << >>
            /\ Len(sock) < Buf
  <2>1. CASE MoreBody
    BY <2>1 DEF MoreBody, given, pipes, child, client
  <2>2. CASE MoreBodyFails
    BY <2>2 DEF MoreBodyFails, MeetsReset, Return, given, pipes, child
  <2> QED
    BY <2>1, <2>2
<1>3. sock \in Seq(Nat) /\ Fed \in Seq(Nat) /\ << >> \in Seq(Nat) /\ Len(sock) \in Nat
  BY <1>1, Strings, Counts
<1>4. n \in 0 .. Len(sock) /\ n <= Buf
  BY <1>3, Sizes DEF Lesser
<1> HIDE DEF n
<1>5. /\ front \in Seq(Nat) /\ Len(front) = n /\ rest \in Seq(Nat)
  BY <1>3, <1>4, Split
<1>6. (Fed \o front) \o rest = Fed \o sock
  BY <1>3, <1>4, MoveOn
<1> HIDE DEF front, rest
<1>7. ring' \in Seq(Nat) /\ sock' \in Seq(Nat) /\ Len(ring') <= Buf
  <2>1. CASE ring' = front /\ sock' = rest
    BY <1>4, <1>5, <2>1
  <2>2. CASE ring' = sock /\ sock' = << >> /\ Len(sock) < Buf
    <3>1. Len(sock) <= Buf
      BY <1>3, <2>2, Sizes
    <3> QED
      BY <1>3, <2>2, <3>1
  <2> QED
    BY <1>2, <2>1, <2>2
<1>8. TypeOK'
  BY <1>1, <1>2, <1>7 DEF TypeOK
<1>9. Stages'
  BY <1>1, <1>2 DEF Stages, DiesOnly, Fresh, Working, Over
<1>10. Body'
  <2>1. Fed' = Fed /\ Kept' = Kept /\ Owed = << >> /\ Owed' = << >> /\ ring = << >>
    BY <1>1, <1>2 DEF Fed, Kept, Owed, Body
  <2>2. Fed \o << >> = Fed
    BY <1>3, ConcatEmptySeq
  <2>3. ~Gone => ((Fed \o << >>) \o << >>) \o sock = Kept
    BY <1>1, <1>2, <2>1 DEF Body, Working
  <2>4. ~Gone => ((Fed \o << >>) \o front) \o rest = Kept
    BY <1>6, <2>2, <2>3
  <2>5. pc' = "take" /\ ~Gone' => ((Fed' \o Owed') \o ring') \o sock' = Kept'
    BY <1>2, <2>1, <2>4 DEF Gone
  <2>6. pc' \notin Fresh /\ pc' \notin {"write", "more"} /\ (pc' \in Working => pc' = "take")
    BY <1>2 DEF Fresh, Working
  <2> QED
    BY <1>1, <1>2, <1>7, <2>1, <2>5, <2>6 DEF Body
<1>11. Outcome'
  <2>1. /\ pc' \notin {"begin", "page", "length", "pipeIn", "pipeOut", "fork"}
        /\ Relaying' = Relaying /\ pc \in Working /\ ~Completed'
    BY <1>2 DEF Relaying, Working, Completed
  <2> QED
    BY <1>1, <1>2, <2>1, OutcomeStill
<1> QED
  BY <1>8, <1>9, <1>10, <1>11 DEF IInv

LEMMA ReadsInputKeeps ==
  ASSUME IInv, NEW n \in Int, ReadsInput(n)
  PROVE  IInv'
<1>1. TypeOK /\ Stages /\ Body /\ Outcome
  BY DEF IInv
<1>2. /\ UNCHANGED <<request, habit, pc, ret, contentLen, ptr, str, fds, ring, sock>>
      /\ UNCHANGED <<arrived, lost, outPipe, part, produced, wire, peer>>
      /\ \/ program = "reads" /\ program' = "runs"
         \/ program = "quietReads" /\ program' = "quiet"
      /\ n \in 1 .. Len(inPipe)
      /\ input' = input \o SubSeq(inPipe, 1, n)
      /\ inPipe' = SubSeq(inPipe, n + 1, Len(inPipe))
  BY DEF ReadsInput, given, server, body, client
<1>3. input \in Seq(Nat) /\ inPipe \in Seq(Nat) /\ Len(inPipe) \in Nat
  BY <1>1, Strings, Counts
<1>4. n \in 0 .. Len(inPipe)
  BY <1>2, <1>3
<1>5. /\ SubSeq(inPipe, 1, n) \in Seq(Nat)
      /\ inPipe' \in Seq(Nat) /\ Len(inPipe') = Len(inPipe) - n
  BY <1>2, <1>3, <1>4, Split
<1>6. input' \in Seq(Nat)
  BY <1>2, <1>3, <1>5, ConcatProperties
<1>7. Fed' = Fed
  <2>1. (input \o SubSeq(inPipe, 1, n)) \o SubSeq(inPipe, n + 1, Len(inPipe)) = input \o inPipe
    BY <1>3, <1>4, MoveOn
  <2> QED
    BY <1>2, <2>1 DEF Fed
<1>8. TypeOK'
  <2>1. Len(inPipe') <= PipeCap
    BY <1>1, <1>3, <1>4, <1>5, Counts, Sizes
  <2>2. program' \in {"runs", "quiet"}
    BY <1>2
  <2> QED
    BY SMTT(30), <1>1, <1>2, <1>5, <1>6, <2>1, <2>2 DEF TypeOK
<1>9. Stages'
  BY <1>1, <1>2 DEF Stages, DiesOnly, Fresh, Working, Over
<1>10. Body'
  <2>1. pc \notin Fresh
    BY <1>1, <1>2 DEF Stages
  <2>2. Kept' = Kept /\ Owed' = Owed
    BY <1>2 DEF Kept, Owed
  <2> QED
    BY <1>1, <1>2, <1>7, <2>1, <2>2 DEF Body, Gone
<1>11. Outcome'
  <2>1. Relaying' = Relaying /\ (Completed' <=> Completed)
    BY <1>2 DEF Relaying, Completed
  <2> QED
    BY <1>1, <1>2, <2>1, OutcomeStill
<1> QED
  BY <1>8, <1>9, <1>10, <1>11 DEF IInv

(* What arrives of the body is the next of it, wherever the server is.     *)
LEMMA SendBodyKeeps ==
  ASSUME IInv, NEW n \in Nat, SendBody(n)
  PROVE  IInv'
<1> DEFINE more == Span(arrived, arrived + n)
<1>1. TypeOK /\ Stages /\ Body /\ Outcome
  BY DEF IInv
<1>2. /\ UNCHANGED <<request, habit, pc, ret, contentLen, ptr, str, fds, ring, lost>>
      /\ UNCHANGED <<inPipe, outPipe, part, program, input, produced, wire, peer>>
      /\ arrived + n <= request.body /\ arrived' = arrived + n /\ sock' = sock \o more
  BY DEF SendBody, given, server, pipes, child, client
<1>3. /\ arrived \in Nat /\ lost \in Nat /\ request.early \in Nat /\ request.body \in Nat
      /\ request.early + lost <= arrived
      /\ Fed \in Seq(Nat) /\ Owed \in Seq(Nat) /\ ring \in Seq(Nat) /\ sock \in Seq(Nat)
  BY <1>1, Counts, Strings DEF Body
<1>4. more \in Seq(Nat)
  <2>1. arrived + n \in Int /\ arrived <= arrived + n
    BY <1>3
  <2> QED
    BY <1>3, <2>1, SpanNat
<1>5. Late' = Late \o more
  <2>1. /\ request.early + lost \in Nat /\ arrived + n \in Nat
        /\ request.early + lost <= arrived /\ arrived <= arrived + n
    BY <1>3
  <2>2. Span(request.early + lost, arrived) \o Span(arrived, arrived + n)
          = Span(request.early + lost, arrived + n)
    BY <1>3, <2>1, SpanJoin
  <2> QED
    BY <1>2, <2>2 DEF Late
<1> HIDE DEF more
<1>6. Early \in Seq(Nat) /\ Late \in Seq(Nat) /\ Kept \in Seq(Nat) /\ Kept = Early \o Late
  BY <1>1, Parts
<1>7. Kept' = Kept \o more
  <2>1. (Early \o Late) \o more = Early \o (Late \o more)
    BY <1>4, <1>6, ConcatAssociative
  <2>2. Kept' = Early \o Late'
    BY <1>2 DEF Kept, Early, Late
  <2> QED
    BY <1>5, <1>6, <2>1, <2>2
<1>8. TypeOK'
  <2>1. sock' \in Seq(Nat) /\ arrived' \in 0 .. request.body
    BY <1>2, <1>3, <1>4, ConcatProperties
  <2> QED
    BY <1>1, <1>2, <2>1 DEF TypeOK
<1>9. Stages'
  BY <1>1, <1>2 DEF Stages, DiesOnly, Fresh, Working, Over
<1>10. Body'
  <2>1. Fed' = Fed /\ Owed' = Owed /\ Early' = Early
    BY <1>2 DEF Fed, Owed, Early
  <2>2. request.early + lost <= arrived'
    BY <1>2, <1>3
  <2>3. Begins(Fed', Kept')
    <3>1. Begins(Fed, Kept)
      BY <1>1 DEF Body
    <3>2. Begins(Kept, Kept \o more) /\ Kept \o more \in Seq(Nat)
      BY <1>4, <1>6, BeginsConcat, ConcatProperties
    <3>3. Begins(Fed, Kept \o more)
      BY <1>3, <1>6, <3>1, <3>2, BeginsTrans
    <3> QED
      BY <1>7, <2>1, <3>3
  <2>4. pc \in Working /\ ~Gone => ((Fed' \o Owed') \o ring') \o sock' = Kept'
    <3> DEFINE p == (Fed \o Owed) \o ring
    <3>1. p \in Seq(Nat)
      <4>1. Fed \o Owed \in Seq(Nat)
        BY <1>3, ConcatProperties
      <4> QED
        BY <1>3, <4>1, ConcatProperties
    <3>2. pc \in Working /\ ~Gone => p \o sock = Kept
      BY <1>1 DEF Body
    <3> HIDE DEF p
    <3>3. (p \o sock) \o more = p \o (sock \o more)
      <4>1. p \in Seq(Nat) /\ sock \in Seq(Nat) /\ more \in Seq(Nat)
        BY <1>3, <1>4, <3>1
      <4> QED
        BY SMTT(30), <4>1, ConcatAssociative
    <3>4. pc \in Working /\ ~Gone => p \o (sock \o more) = Kept \o more
      BY <3>2, <3>3
    <3> QED
      BY <1>2, <1>7, <2>1, <3>4 DEF p
  <2>5. pc \in Fresh => sock' = Late'
    BY <1>1, <1>2, <1>5 DEF Body
  <2> QED
    BY <1>1, <1>2, <2>1, <2>2, <2>3, <2>4, <2>5 DEF Body, Gone
<1>11. Outcome'
  <2>1. Relaying' = Relaying /\ (Completed' <=> Completed)
    BY <1>2 DEF Relaying, Completed
  <2> QED
    BY <1>1, <1>2, <2>1, OutcomeStill
<1> QED
  BY <1>8, <1>9, <1>10, <1>11 DEF IInv

-----------------------------------------------------------------------------
(* The steps that move the output.                                         *)

LEMMA ReadOutputKeeps ==
  ASSUME IInv, ReadOutput
  PROVE  IInv'
<1> DEFINE n == Lesser(Buf, Len(outPipe))
           front == SubSeq(outPipe, 1, n)
           rest == SubSeq(outPipe, n + 1, Len(outPipe))
<1>1. TypeOK /\ Stages /\ Body /\ Outcome
  BY DEF IInv
<1>2. /\ UNCHANGED <<request, habit, ret, contentLen, ptr, fds, ring, sock, arrived, lost>>
      /\ UNCHANGED <<inPipe, part, program, input, produced, wire, peer>>
      /\ pc = "read" /\ pc' = "relay" /\ str' = front /\ outPipe' = rest
  BY DEF ReadOutput, Takes, given, body, child, client
<1>3. outPipe \in Seq(Nat) /\ wire \in Seq(Nat) /\ Len(outPipe) \in Nat /\ Len(outPipe) <= PipeCap
  BY <1>1, Strings, Counts
<1>4. n \in 0 .. Len(outPipe) /\ n <= Buf
  BY <1>3, Sizes DEF Lesser
<1> HIDE DEF n
<1>5. /\ front \in Seq(Nat) /\ Len(front) = n
      /\ rest \in Seq(Nat) /\ Len(rest) = Len(outPipe) - n
  BY <1>3, <1>4, Split
<1>6. (wire \o front) \o rest = wire \o outPipe
  BY <1>3, <1>4, MoveOn
<1> HIDE DEF front, rest
<1>7. TypeOK'
  <2>1. Len(rest) <= PipeCap
    BY <1>3, <1>4, <1>5, Sizes
  <2>2. str' \in Seq(Nat) /\ outPipe' \in Seq(Nat) /\ Len(str') <= Buf /\ Len(outPipe') <= PipeCap
    BY <1>2, <1>4, <1>5, <2>1
  <2> QED
    BY <1>1, <1>2, <2>2 DEF TypeOK
<1>8. Stages'
  BY <1>1, <1>2 DEF Stages, DiesOnly, Fresh, Working, Over
<1>9. Body'
  <2>1. /\ pc' \notin Fresh /\ pc \in Working /\ Owed' = Owed
        /\ pc' \notin {"write", "more"} /\ (Gone => Gone')
    BY <1>2 DEF Fresh, Working, Owed, Gone
  <2> QED
    BY <1>1, <1>2, <2>1, BodyStill
<1>10. Outcome'
  <2>1. Relaying = << >> /\ Relaying' = front /\ Reply' = Reply /\ pc \in Working
    BY <1>2 DEF Relaying, Reply, Working
  <2>2. wire \o << >> = wire
    BY <1>3, ConcatEmptySeq
  <2>3. (wire \o << >>) \o outPipe = Reply
    BY <1>1, <2>1 DEF Outcome
  <2>4. (wire \o front) \o rest = Reply
    BY <1>6, <2>2, <2>3
  <2>5. (wire' \o Relaying') \o outPipe' = Reply'
    BY <1>2, <2>1, <2>4
  <2>6. Begins(wire, Reply)' /\ ~Completed' /\ program' # "none"
    BY <1>1, <1>2, <2>1 DEF Outcome, Completed, Stages, Working
  <2> QED
    BY <1>2, <2>5, <2>6 DEF Outcome
<1> QED
  BY <1>7, <1>8, <1>9, <1>10 DEF IInv

LEMMA EndOutputKeeps ==
  ASSUME IInv, EndOutput
  PROVE  IInv'
<1>1. TypeOK /\ Stages /\ Body /\ Outcome
  BY DEF IInv
<1>2. /\ UNCHANGED <<request, habit, ret, contentLen, ptr, str, fds, ring, sock, arrived, lost>>
      /\ UNCHANGED <<inPipe, outPipe, part, program, input, produced, wire, peer>>
      /\ pc = "read" /\ pc' = "wait" /\ outPipe = << >>
      /\ program \in {"quiet", "quietReads", "exited", "reaped"}
  BY DEF EndOutput, Quiet, Gone, given, body, pipes, child, client
<1>3. TypeOK'
  BY <1>1, <1>2 DEF TypeOK
<1>4. Stages'
  BY <1>1, <1>2 DEF Stages, DiesOnly, Fresh, Working, Over
<1>5. Body'
  <2>1. /\ pc' \notin Fresh /\ pc \in Working /\ Owed' = Owed
        /\ pc' \notin {"write", "more"} /\ (Gone => Gone')
    BY <1>2 DEF Fresh, Working, Owed, Gone
  <2> QED
    BY <1>1, <1>2, <2>1, BodyStill
<1>6. Outcome'
  <2>1. Relaying = << >> /\ Relaying' = << >> /\ Reply' = Reply /\ pc \in Working
    BY <1>2 DEF Relaying, Reply, Working
  <2>2. wire \in Seq(Nat) /\ wire \o << >> = wire
    BY <1>1, Strings, ConcatEmptySeq
  <2>3. (wire \o << >>) \o << >> = Reply
    BY <1>1, <1>2, <2>1 DEF Outcome
  <2>4. wire = Reply
    BY <2>2, <2>3
  <2>5. (wire' \o Relaying') \o outPipe' = Reply' /\ wire' = Reply'
    BY <1>2, <2>1, <2>3, <2>4
  <2>6. Begins(wire, Reply)' /\ program' # "none"
    BY <1>1, <1>2, <2>1 DEF Outcome
  <2> QED
    BY <1>2, <2>5, <2>6 DEF Outcome
<1> QED
  BY <1>3, <1>4, <1>5, <1>6 DEF IInv

LEMMA RelayKeeps ==
  ASSUME IInv, Relay
  PROVE  IInv'
<1>1. TypeOK /\ Stages /\ Body /\ Outcome
  BY DEF IInv
<1>2. /\ UNCHANGED <<request, habit, ret, contentLen, ptr, fds, ring, sock, arrived, lost>>
      /\ UNCHANGED <<inPipe, outPipe, part, program, input, produced, peer>>
      /\ pc = "relay" /\ pc' = "read" /\ wire' = wire \o str /\ str' = << >>
  BY DEF Relay, Relayed, given, body, pipes, child
<1>3. /\ wire \in Seq(Nat) /\ str \in Seq(Nat) /\ outPipe \in Seq(Nat)
      /\ << >> \in Seq(Nat) /\ Len(<< >>) = 0
  BY <1>1, Strings
<1>4. wire \o str \in Seq(Nat)
  BY <1>3, ConcatProperties
<1>5. TypeOK'
  <2>1. str' \in Seq(Nat) /\ Len(str') <= Buf /\ wire' \in Seq(Nat)
    BY <1>2, <1>3, <1>4, Sizes
  <2> QED
    BY <1>1, <1>2, <2>1 DEF TypeOK
<1>6. Stages'
  BY <1>1, <1>2 DEF Stages, DiesOnly, Fresh, Working, Over
<1>7. Body'
  <2>1. /\ pc' \notin Fresh /\ pc \in Working /\ Owed' = Owed
        /\ pc' \notin {"write", "more"} /\ (Gone => Gone')
    BY <1>2 DEF Fresh, Working, Owed, Gone
  <2> QED
    BY <1>1, <1>2, <2>1, BodyStill
<1>8. Outcome'
  <2>1. Relaying = str /\ Relaying' = << >> /\ Reply' = Reply /\ pc \in Working
    BY <1>2 DEF Relaying, Reply, Working
  <2>2. (wire \o str) \o outPipe = Reply
    BY <1>1, <2>1 DEF Outcome
  <2>3. (wire \o str) \o << >> = wire \o str
    BY <1>4, ConcatEmptySeq
  <2>4. (wire' \o Relaying') \o outPipe' = Reply'
    BY <1>2, <2>1, <2>2, <2>3
  <2>5. Begins(wire', Reply')
    <3>1. Begins(wire \o str, (wire \o str) \o outPipe)
      BY <1>3, <1>4, BeginsConcat
    <3> QED
      BY <1>2, <2>1, <2>2, <3>1
  <2>6. ~Completed' /\ program' # "none"
    BY <1>1, <1>2, <2>1 DEF Completed, Stages
  <2> QED
    BY <1>2, <2>4, <2>5, <2>6 DEF Outcome
<1> QED
  BY <1>5, <1>6, <1>7, <1>8 DEF IInv

LEMMA WritesOutputKeeps ==
  ASSUME IInv, WritesOutput
  PROVE  IInv'
<1> DEFINE x == PageLen + produced + 1
<1>1. TypeOK /\ Stages /\ Body /\ Outcome
  BY DEF IInv
<1>2. /\ UNCHANGED <<request, habit, pc, ret, contentLen, ptr, str, fds, ring, sock>>
      /\ UNCHANGED <<arrived, lost, inPipe, part, input, wire, peer>>
      /\ program = "writes" /\ program' = "runs" /\ Len(outPipe) < PipeCap
      /\ produced' = produced + 1 /\ outPipe' = Append(outPipe, PageLen + produced')
  BY DEF WritesOutput, given, server, body, client
<1>3. /\ wire \in Seq(Nat) /\ outPipe \in Seq(Nat) /\ Relaying \in Seq(Nat)
      /\ Reply \in Seq(Nat) /\ PageLen + produced \in Nat /\ produced \in Nat
      /\ Len(outPipe) \in Nat /\ PageLen \in Nat /\ PipeCap \in Nat
  BY <1>1, Strings, ReplyIs, Counts, Sizes
<1>4. x \in Nat /\ PageLen + produced' = x
  BY <1>2, <1>3
<1> HIDE DEF x
<1>5. outPipe' = Append(outPipe, x)
  BY <1>2, <1>4
<1>6. outPipe' \in Seq(Nat) /\ Len(outPipe') = Len(outPipe) + 1
  BY <1>3, <1>4, <1>5, AppendProperties
<1>7. Reply' = Append(Reply, x)
  <2>1. Append(Span(0, PageLen + produced), (PageLen + produced) + 1) = Span(0, (PageLen + produced) + 1)
    BY <1>3, SpanOneMore
  <2>2. (PageLen + produced) + 1 = x
    BY <1>3 DEF x
  <2> QED
    BY <1>4, <2>1, <2>2 DEF Reply
<1>8. /\ pc \notin Fresh /\ ~Completed /\ ~Completed' /\ Relaying' = Relaying
  BY <1>1, <1>2 DEF Stages, Completed, Relaying
<1>9. TypeOK'
  <2>1. produced < Output
    BY <1>1, <1>2 DEF Stages
  <2>2. produced' \in 0 .. Output
    BY <1>2, <1>3, <2>1, Sizes
  <2>3. Len(outPipe') <= PipeCap
    BY <1>2, <1>3, <1>6
  <2> QED
    BY <1>1, <1>2, <1>6, <2>2, <2>3 DEF TypeOK
<1>10. Stages'
  BY <1>1, <1>2 DEF Stages, DiesOnly, Fresh, Working, Over
<1>11. Body'
  <2>1. Owed' = Owed /\ (Gone => Gone')
    BY <1>2 DEF Owed, Gone
  <2> QED
    BY <1>1, <1>2, <2>1, BodyStill
<1>12. Outcome'
  <2>1. wire \o Relaying \in Seq(Nat)
    BY <1>3, ConcatProperties
  <2>2. (wire \o Relaying) \o Append(outPipe, x) = Append((wire \o Relaying) \o outPipe, x)
    BY SMTT(30), <1>3, <1>4, <2>1, AppendToRest
  <2>3. pc \in Working => (wire \o Relaying) \o outPipe = Reply
    BY <1>1 DEF Outcome
  <2>4. pc \in Working => (wire' \o Relaying') \o outPipe' = Reply'
    BY <1>2, <1>5, <1>7, <1>8, <2>2, <2>3
  <2>5. Begins(wire, Reply)
    BY <1>1 DEF Outcome
  <2>6. Begins(wire, Append(Reply, x))
    BY <1>3, <1>4, <2>5, BeginsAppend
  <2>7. Begins(wire', Reply')
    BY <1>2, <1>7, <2>6
  <2> QED
    BY <1>2, <1>8, <2>4, <2>7 DEF Outcome, Fresh
<1> QED
  BY <1>9, <1>10, <1>11, <1>12 DEF IInv

-----------------------------------------------------------------------------
LEMMA Inductive == IInv /\ [Next]_vars => IInv'
<1> SUFFICES ASSUME IInv, [Next]_vars PROVE IInv'
  OBVIOUS
<1>1. CASE \/ BeginPost \/ BeginPostNoMark \/ ReadNull \/ WriteBodyFails \/ WriteBodyCut
           \/ BodyWritten \/ RelayFails
  BY <1>1, ServerQuietKeeps
<1>2. CASE \/ Pipe("pipeIn", "pipeOut", {"cgiIn[0]", "cgiIn[1]"})
           \/ Pipe("pipeOut", "fork", {"cgiOut[0]", "cgiOut[1]"})
           \/ PipeFails \/ MallocFails
  BY <1>2, CallsKeep
<1>3. CASE WaitPid \/ Finish
  BY <1>3, EndKeeps
<1>4. CASE \/ \E op \in {"reads", "writes", "quiet", "exited"} : Chooses(op)
           \/ \E op \in {"quietReads", "exited"} : ChoosesQuiet(op)
           \/ WriteRefused \/ ClientFin \/ ClientResets
           \/ UNCHANGED vars
  BY <1>4, OthersKeep
<1>5. CASE BeginGet \/ DiscardForever
  BY <1>5, DiscardKeeps
<1>6. CASE ResponsePage \/ BeginPostNoLength
  BY <1>6, PageKeeps
<1>7. CASE Fork
  BY <1>7, ForkKeeps
<1>8. CASE TakeBody
  BY <1>8, TakeBodyKeeps
<1>9. CASE \E n \in 1 .. PipeCap : WriteBody(n)
  <2>1. \A n \in 1 .. PipeCap : n \in Int
    BY Sizes
  <2> QED
    BY <1>9, <2>1, WriteBodyKeeps
<1>10. CASE MoreBody \/ MoreBodyFails
  BY <1>10, MoreBodyKeeps
<1>11. CASE ReadOutput
  BY <1>11, ReadOutputKeeps
<1>12. CASE EndOutput
  BY <1>12, EndOutputKeeps
<1>13. CASE Relay
  BY <1>13, RelayKeeps
<1>14. CASE \E n \in 1 .. PipeCap : ReadsInput(n)
  <2>1. \A n \in 1 .. PipeCap : n \in Int
    BY Sizes
  <2> QED
    BY <1>14, <2>1, ReadsInputKeeps
<1>15. CASE WritesOutput
  BY <1>15, WritesOutputKeeps
<1>16. CASE SendRest
  <2>1. \A n \in 1 .. request.body : n \in Nat
    BY Counts DEF IInv
  <2> QED
    BY <1>16, <2>1, SendBodyKeeps DEF SendRest
<1> QED
  BY <1>1, <1>2, <1>3, <1>4, <1>5, <1>6, <1>7, <1>8, <1>9, <1>10, <1>11, <1>12, <1>13,
     <1>14, <1>15, <1>16 DEF Next, Server, Program, Client

(* The strengthened invariant: the types, where the server and the program *)
(* are, and what has become of the body and of the output (dn_cgi.c).      *)
THEOREM Invariance == Spec => []IInv
<1>1. IInv /\ [Next]_vars => IInv'
  BY Inductive
<1> QED
  BY Started, <1>1, PTL DEF Spec

-----------------------------------------------------------------------------
(* What follows.                                                           *)

(* Every value stays in its type, and neither a pipe nor str is overrun,   *)
(* for any sizes that pass the assumptions.                                *)
THEOREM TypeCorrect == Spec => []TypeOK
<1>1. IInv => TypeOK
  BY DEF IInv
<1> QED
  BY Invariance, <1>1, PTL

(* contentLen, beside what has been taken of the body.                     *)
Counting == {"page", "pipeIn", "pipeOut", "fork", "take", "write", "more"}

Counted ==
  /\ pc \in {"take", "write", "more"} => request.method = "POST"
  /\ request.method = "POST" /\ pc \in Counting => request.length # None
  /\ request.method = "POST" /\ pc \in Counting => contentLen = LengthRead - Taken
  /\ pc = "more" => contentLen > 0
  /\ request.method = "POST" /\ pc \in {"read", "relay", "wait"} => Taken >= LengthRead

LEMMA LengthOf ==
  ASSUME TypeOK, request.method = "POST", request.length # None
  PROVE  LengthRead \in Int
  BY RequestIs DEF TypeOK

LEMMA NothingTaken ==
  ASSUME TypeOK, Body, pc \in Fresh
  PROVE  Taken = 0
<1>1. /\ ring = Early /\ sock = Late
      /\ arrived \in Nat /\ lost \in Nat /\ request.early \in Nat
  BY Counts DEF Body
<1>2. Len(ring) = request.early /\ Len(sock) = arrived - (request.early + lost)
  BY <1>1, Parts
<1>3. \A a, l, e \in Nat : ((a - l) - (a - (e + l))) - e = 0
  OBVIOUS
<1> QED
  BY <1>1, <1>2, <1>3 DEF Taken

LEMMA CountedStill ==
  ASSUME Counted, UNCHANGED <<request, contentLen>>, Taken' = Taken,
         pc' \in {"take", "write", "more"} => pc \in {"take", "write", "more"},
         pc' \in Counting => pc \in Counting \/ request.method # "POST",
         pc' = "more" => pc = "more",
         pc' \in {"read", "relay", "wait"} =>
           pc \in {"read", "relay", "wait"} \/ request.method # "POST"
  PROVE  Counted'
<1>1. LengthRead' = LengthRead
  BY DEF LengthRead
<1> QED
  BY <1>1 DEF Counted

(* The steps that change what counts. *)
LEMMA BeginCounts ==
  ASSUME IInv, BeginPost
  PROVE  Counted'
<1>1. TypeOK /\ Body
  BY DEF IInv
<1>2. Taken = 0 /\ LengthRead \in Int
  BY <1>1, NothingTaken, LengthOf DEF BeginPost, Fresh
<1>3. Taken' = 0 /\ contentLen' = LengthRead' /\ LengthRead' = LengthRead
      /\ pc' = "page" /\ request' = request /\ request.length # None
  BY <1>2 DEF BeginPost, Taken, LengthRead, given, body
<1>4. contentLen' = LengthRead' - Taken'
  BY <1>2, <1>3
<1> QED
  BY <1>3, <1>4 DEF Counted, Counting

LEMMA TakeCounts ==
  ASSUME IInv, Counted, TakeBody
  PROVE  Counted'
<1>1. TypeOK
  BY DEF IInv
<1>2. /\ request' = request /\ pc = "take" /\ pc' = "write" /\ request.method = "POST"
      /\ contentLen = LengthRead - Taken /\ contentLen' = contentLen - Len(ring)
      /\ LengthRead' = LengthRead /\ request.length # None
  BY DEF TakeBody, given, Counted, Counting, LengthRead
<1>3. /\ arrived \in Nat /\ lost \in Nat /\ Len(sock) \in Nat /\ Len(ring) \in Nat
      /\ contentLen \in Int
  BY <1>1, Counts DEF TypeOK
<1>4. Taken' = arrived - lost - Len(sock) - 0
  BY EmptySeq DEF TakeBody, Taken
<1>5. contentLen' = LengthRead - Taken'
  <2>1. Taken \in Int /\ Taken' = Taken + Len(ring)
    BY <1>3, <1>4 DEF Taken
  <2>2. LengthRead \in Int
    BY <1>1, <1>2, LengthOf
  <2> QED
    BY <1>2, <1>3, <2>1, <2>2
<1> QED
  BY <1>2, <1>5 DEF Counted, Counting

LEMMA WrittenCounts ==
  ASSUME IInv, Counted, BodyWritten
  PROVE  Counted'
<1>1. /\ pc = "write" /\ request' = request /\ request.method = "POST"
      /\ contentLen' = contentLen /\ LengthRead' = LengthRead /\ Taken' = Taken
      /\ contentLen = LengthRead - Taken /\ request.length # None
      /\ pc' = IF contentLen > 0 THEN "more" ELSE "read"
  BY DEF BodyWritten, BodyRemains, LengthRead, Taken, given, body, Counted, Counting
<1>2. /\ arrived \in Nat /\ lost \in Nat /\ Len(sock) \in Nat /\ Len(ring) \in Nat
      /\ contentLen \in Int
  BY Counts DEF IInv, TypeOK
<1>3. Taken \in Int /\ LengthRead \in Int
  BY <1>1, <1>2, LengthOf DEF IInv, Taken
<1>4. contentLen > 0 \/ Taken >= LengthRead
  BY <1>1, <1>2, <1>3
<1> QED
  BY <1>1, <1>4 DEF Counted, Counting

(* Throwing away, reading on and arriving leave what was taken as it is.   *)
LEMMA DiscardTakesNone ==
  ASSUME TypeOK, sock' = << >>, lost' = lost + Len(sock), UNCHANGED <<ring, arrived>>
  PROVE  Taken' = Taken
<1>1. /\ arrived \in Nat /\ lost \in Nat /\ Len(sock) \in Nat /\ Len(ring) \in Nat
      /\ Len(<< >>) = 0
  BY Counts, EmptySeq
<1> QED
  BY <1>1 DEF Taken

LEMMA MoreTakesNone ==
  ASSUME IInv, MoreBody
  PROVE  Taken' = Taken
<1> DEFINE n == Lesser(Buf, Len(sock))
<1>1. /\ arrived' = arrived /\ lost' = lost /\ ring = << >>
      /\ ring' = SubSeq(sock, 1, n) /\ sock' = SubSeq(sock, n + 1, Len(sock))
  BY DEF MoreBody, IInv, Body
<1>2. /\ sock \in Seq(Nat) /\ Len(sock) \in Nat /\ arrived \in Nat /\ lost \in Nat
      /\ Len(<< >>) = 0
  BY Strings, Counts, EmptySeq DEF IInv
<1>3. n \in 0 .. Len(sock)
  BY <1>2, Sizes DEF Lesser
<1> HIDE DEF n
<1>4. Len(SubSeq(sock, 1, n)) = n /\ Len(SubSeq(sock, n + 1, Len(sock))) = Len(sock) - n
  BY <1>2, <1>3, Split
<1>5. n \in Int
  BY <1>3
<1>6. \A a, l, k \in Nat, m \in Int : ((a - l) - (k - m)) - m = ((a - l) - k) - 0
  OBVIOUS
<1>7. Taken = ((arrived - lost) - Len(sock)) - 0
  BY <1>1, <1>2 DEF Taken
<1>8. Taken' = ((arrived - lost) - (Len(sock) - n)) - n
  BY <1>1, <1>4 DEF Taken
<1> QED
  BY <1>2, <1>5, <1>6, <1>7, <1>8

LEMMA SendTakesNone ==
  ASSUME IInv, NEW n \in Nat, SendBody(n)
  PROVE  Taken' = Taken
<1> DEFINE more == Span(arrived, arrived + n)
<1>1. /\ arrived' = arrived + n /\ UNCHANGED <<ring, lost>> /\ sock' = sock \o more
  BY DEF SendBody
<1>2. /\ sock \in Seq(Nat) /\ Len(sock) \in Nat /\ Len(ring) \in Nat
      /\ arrived \in Nat /\ lost \in Nat
  BY Strings, Counts DEF IInv
<1>3. more \in Seq(Nat) /\ Len(more) = n
  <2>1. arrived + n \in Int /\ arrived <= arrived + n /\ (arrived + n) - arrived = n
    BY <1>2
  <2>2. arrived \in Int
    BY <1>2
  <2> QED
    BY <1>2, <2>1, <2>2, SpanNat, SpanIs
<1> HIDE DEF more
<1>4. Len(sock') = Len(sock) + n
  BY <1>1, <1>2, <1>3, ConcatProperties
<1> QED
  BY <1>1, <1>2, <1>4 DEF Taken

LEMMA CountsKept == IInv /\ Counted /\ [Next]_vars => Counted'
<1> SUFFICES ASSUME IInv, Counted, [Next]_vars PROVE Counted'
  OBVIOUS
<1>0. TypeOK
  BY DEF IInv
<1>1. CASE BeginPost
  BY <1>1, BeginCounts
<1>2. CASE TakeBody
  BY <1>2, TakeCounts
<1>3. CASE BodyWritten
  BY <1>3, WrittenCounts
<1>4. CASE BeginGet \/ ResponsePage \/ BeginPostNoLength \/ DiscardForever
  <2>1. Taken' = Taken
    BY <1>0, <1>4, DiscardTakesNone
       DEF BeginGet, ResponsePage, BeginPostNoLength, SendPage, DiscardRequest, DiscardForever
  <2>2. /\ UNCHANGED <<request, contentLen>>
        /\ \/ pc = "begin" /\ pc' = "page" /\ request.method = "GET"
           \/ pc = "page" /\ pc' \in {"pipeIn", "finish", "page"}
           \/ pc = "begin" /\ pc' \in {"length", "finish", "begin"}
    BY <1>4 DEF BeginGet, ResponsePage, BeginPostNoLength, SendPage, Return, DiscardRequest,
       DiscardForever, given, server
  <2> QED
    BY <2>1, <2>2, CountedStill DEF Counting
<1>5. CASE MoreBody
  <2>1. Taken' = Taken
    BY <1>5, MoreTakesNone
  <2>2. UNCHANGED <<request, contentLen>> /\ pc = "more" /\ pc' = "take"
    BY <1>5 DEF MoreBody, given
  <2> QED
    BY <2>1, <2>2, CountedStill DEF Counting
<1>6. CASE SendRest
  <2>1. PICK n \in 1 .. request.body : SendBody(n)
    BY <1>6 DEF SendRest
  <2>2. n \in Nat
    BY <1>0, Counts
  <2>3. Taken' = Taken
    BY <2>1, <2>2, SendTakesNone
  <2>4. UNCHANGED <<request, contentLen, pc>>
    BY <2>1 DEF SendBody, given, server
  <2> QED
    BY <2>3, <2>4, CountedStill DEF Counting
<1>7. CASE Fork
  <2>1. /\ Taken' = Taken /\ UNCHANGED <<request, contentLen>> /\ pc = "fork"
        /\ pc' = IF request.method = "POST" THEN "take" ELSE "read"
        /\ LengthRead' = LengthRead
    BY <1>7 DEF Fork, Taken, LengthRead, given, body
  <2> QED
    BY <2>1 DEF Counted, Counting
<1>8. CASE MoreBodyFails \/ BeginPostNoMark \/ ReadNull \/ WriteBodyFails \/ RelayFails
           \/ WaitPid \/ Finish \/ PipeFails \/ MallocFails
  <2>1. pc' \in {"finish", "closed", "dead"}
    BY <1>8 DEF MoreBodyFails, BeginPostNoMark, ReadNull, WriteBodyFails, RelayFails, WaitPid,
       Finish, PipeFails, MallocFails, Return
  <2> QED
    BY <2>1 DEF Counted, Counting
<1>9. CASE \/ Pipe("pipeIn", "pipeOut", {"cgiIn[0]", "cgiIn[1]"})
           \/ Pipe("pipeOut", "fork", {"cgiOut[0]", "cgiOut[1]"})
           \/ WriteBodyCut \/ ReadOutput \/ EndOutput \/ Relay
           \/ \E n \in 1 .. PipeCap : WriteBody(n)
  <2>1. /\ UNCHANGED <<request, contentLen, ring, sock, arrived, lost>>
        /\ \/ pc = "pipeIn" /\ pc' = "pipeOut"
           \/ pc = "pipeOut" /\ pc' = "fork"
           \/ pc \in {"read", "relay"} /\ pc' \in {"read", "relay", "wait"}
           \/ pc' = pc
    BY <1>9 DEF Pipe, WriteBodyCut, ReadOutput, EndOutput, Relay, WriteBody, given, body
  <2>2. Taken' = Taken
    BY <2>1 DEF Taken
  <2> QED
    BY <2>1, <2>2, CountedStill DEF Counting
<1>10. CASE Program \/ ClientFin \/ ClientResets \/ UNCHANGED vars
  <2>1. UNCHANGED <<request, contentLen, pc, ring, sock, arrived, lost>>
    BY <1>10 DEF Program, Chooses, ChoosesQuiet, ReadsInput, WritesOutput, WriteRefused,
       ClientFin, ClientResets, vars, given, server, body
  <2>2. Taken' = Taken
    BY <2>1 DEF Taken
  <2> QED
    BY <2>1, <2>2, CountedStill DEF Counting
<1> QED
  BY <1>1, <1>2, <1>3, <1>4, <1>5, <1>6, <1>7, <1>8, <1>9, <1>10 DEF Next, Server, Client

LEMMA CountInvariance == Spec => []Counted
<1>1. Init => Counted
  BY DEF Init, Counted, Counting
<1>2. IInv /\ Counted /\ [Next]_vars => Counted'
  BY CountsKept
<1> QED
  BY Invariance, <1>1, <1>2, PTL DEF Spec

(* The program gets the body in its order and from its beginning: only     *)
(* what DN_DiscardRequest has thrown away is missing, and the server asks  *)
(* for more until it has what it was told of, and no longer                *)
(* (dn_cgi.c:145, 213, 228-251).                                           *)
THEOREM BodyInOrder == Spec => []BodyConserved
<1>1. IInv /\ Counted => BodyConserved
  <2> SUFFICES ASSUME IInv, Counted PROVE BodyConserved
    OBVIOUS
  <2>1. TypeOK /\ Stages /\ Body
    BY DEF IInv
  <2>2. /\ Early \in Seq(Nat) /\ Late \in Seq(Nat) /\ << >> \in Seq(Nat)
        /\ Kept = Early \o Late
    BY <2>1, Parts, Strings
  <2>3. pc \in Fresh => ((Fed \o Owed) \o ring) \o sock = Kept
    <3> SUFFICES ASSUME pc \in Fresh PROVE ((Fed \o Owed) \o ring) \o sock = Kept
      OBVIOUS
    <3>1. Fed = << >> \o << >> /\ Owed = << >> /\ ring = Early /\ sock = Late
      BY <2>1 DEF Body, Fed, Owed, Fresh
    <3>2. << >> \o << >> = << >> /\ << >> \o Early = Early
      BY <2>2, ConcatEmptySeq
    <3> QED
      BY <2>2, <3>1, <3>2
  <2>4. pc \in Working /\ InputRead => ((Fed \o Owed) \o ring) \o sock = Kept
    BY <2>1 DEF Body, Stages, InputRead
  <2>5. pc \notin {"finish", "closed", "dead"} => pc \in Fresh \/ pc \in Working
    BY <2>1 DEF TypeOK, Fresh, Working
  <2>6. Begins(Fed, Kept)
    BY <2>1 DEF Body
  <2>7. /\ pc = "more" => contentLen = LengthRead - Taken /\ contentLen > 0
        /\ pc \in {"read", "relay", "wait"} /\ request.method = "POST" => Taken >= LengthRead
    BY DEF Counted, Counting
  <2> QED
    BY <2>3, <2>4, <2>5, <2>6, <2>7 DEF BodyConserved, Fed, Owed
<1> QED
  BY Invariance, CountInvariance, <1>1, PTL

(* The page and the output reach the client in their order, and none of    *)
(* either is lost or doubled on the way (dn_cgi.c:269-285).                *)
THEOREM OutputInOrder == Spec => []OutputConserved
<1>1. IInv => OutputConserved
  <2> SUFFICES ASSUME IInv PROVE OutputConserved
    OBVIOUS
  <2>1. TypeOK /\ Stages /\ Outcome
    BY DEF IInv
  <2>2. program # "none" /\ pc \notin {"finish", "closed", "dead"} => pc \in Working
    BY <2>1 DEF TypeOK, Stages, Fresh, Working
  <2>3. pc \in Working => (wire \o Relaying) \o outPipe = Reply
    BY <2>1 DEF Outcome
  <2> QED
    BY <2>2, <2>3 DEF OutputConserved, Relaying, Reply
<1> QED
  BY Invariance, <1>1, PTL

(* DN_ExecCGI returns 1 only when all of the output has been sent, the     *)
(* program has been waited for and its pipes are closed (dn_cgi.c:287-297).*)
THEOREM CleanReturn == Spec => []ReturnIsClean
<1>1. IInv => ReturnIsClean
  BY DEF IInv, Stages, Outcome, Completed, Reply, ReturnIsClean
<1> QED
  BY Invariance, <1>1, PTL

(* The server dies only on a POST whose str it reads or frees where it     *)
(* must not, or when malloc fails (dn_cgi.c:119, 299).                     *)
THEOREM DeathsKnown == Spec => []DiesOnly
<1>1. IInv => DiesOnly
  BY DEF IInv, Stages
<1> QED
  BY Invariance, <1>1, PTL

(* The server and the program wait for each other only with both pipes     *)
(* full, or for the end of an input that cannot come: every other wait of  *)
(* one is for something the other can still do (dn_cgi.c:202, 254, 270).   *)
THEOREM WaitsKnown == Spec => []WaitsAreKnown
<1>1. IInv => WaitsAreKnown
  <2> SUFFICES ASSUME IInv, ServerWaits, ProgramWaits PROVE BothFull \/ AwaitsEnd
    BY DEF WaitsAreKnown
  <2>1. /\ pc \in Working => /\ program \notin {"none", "reaped"}
                             /\ fds = {"cgiIn[1]", "cgiOut[0]"}
        /\ pc = "wait" => program \in {"quiet", "quietReads", "exited"}
    BY DEF IInv, Stages
  <2>2. PipeCap > 0 /\ PipeCap \in Nat /\ Len(<< >>) = 0
    BY Sizes
  <2>3. CASE pc = "write" /\ InputRead /\ Len(inPipe) = PipeCap
    <3>1. ~Gone
      BY <2>1, <2>3 DEF Working, InputRead
    <3>2. inPipe # << >> /\ program # "none"
      BY <2>1, <2>2, <2>3 DEF Working
    <3> QED
      BY <2>3, <3>1, <3>2 DEF ProgramWaits, BothFull
  <2>4. CASE pc = "read" /\ outPipe = << >> /\ program \in {"runs", "reads", "writes"}
    <3>1. Len(outPipe) # PipeCap
      BY <2>2, <2>4
    <3> QED
      BY <2>4, <3>1 DEF ProgramWaits, Gone, AwaitsEnd
  <2>5. CASE pc = "wait" /\ program # "exited"
    BY <2>1, <2>5 DEF ProgramWaits, Gone, AwaitsEnd
  <2> QED
    BY <2>3, <2>4, <2>5 DEF ServerWaits
<1> QED
  BY Invariance, <1>1, PTL

-----------------------------------------------------------------------------
(* The kinds of steps, seen from the connection.                           *)

Still ==
  /\ UNCHANGED <<wire, produced, ret>>
  /\ pc' = pc \/ {pc, pc'} \cap {"closed", "dead"} = {}

Breaks ==
  /\ UNCHANGED <<wire, produced>>
  /\ pc # "closed" /\ pc' # "closed"
  /\ ret' # 1 \/ pc' = "dead"

Sends ==
  /\ UNCHANGED <<produced, ret>>
  /\ {pc, pc'} \cap {"closed", "dead"} = {}
  /\ Begins(wire, wire')

Ends ==
  /\ UNCHANGED <<wire, produced, ret>>
  /\ pc = "finish" /\ pc' = "closed"

LEMMA QuietStutters ==
  ASSUME Still
  PROVE  UNCHANGED Service!vars
<1>1. /\ (pc' = "closed") = (pc = "closed")
      /\ (ret' # 1 \/ pc' = "dead") = (ret # 1 \/ pc = "dead")
  BY DEF Still
<1>2. Span(0, PageLen + produced') = Span(0, PageLen + produced) /\ wire' = wire
  BY DEF Still
<1> QED
  BY <1>1, <1>2 DEF Service!vars

LEMMA BreaksFail ==
  ASSUME Breaks
  PROVE  Service!Fail
<1>1. /\ (pc' = "closed") = (pc = "closed")
      /\ (ret' # 1 \/ pc' = "dead") = TRUE
  BY DEF Breaks
<1>2. Span(0, PageLen + produced') = Span(0, PageLen + produced) /\ wire' = wire
  BY DEF Breaks
<1> QED
  BY <1>1, <1>2 DEF Service!Fail

LEMMA SendsDeliver ==
  ASSUME Sends, Outcome'
  PROVE  Service!Deliver
<1>1. /\ (pc' = "closed") = (pc = "closed") /\ pc # "closed"
      /\ (ret' # 1 \/ pc' = "dead") = (ret # 1 \/ pc = "dead")
  BY DEF Sends
<1>2. Span(0, PageLen + produced') = Span(0, PageLen + produced)
  BY DEF Sends
<1>3. Begins(wire, wire') /\ Begins(wire', Span(0, PageLen + produced))
  BY <1>2 DEF Sends, Outcome, Reply
<1> QED
  BY <1>1, <1>2, <1>3 DEF Service!Deliver, Service!Begins, Begins

LEMMA EndsClose ==
  ASSUME Ends, Outcome
  PROVE  Service!Close
<1>1. /\ (pc' = "closed") = TRUE
      /\ (ret' # 1 \/ pc' = "dead") = (ret # 1 \/ pc = "dead")
  BY DEF Ends
<1>2. Span(0, PageLen + produced') = Span(0, PageLen + produced) /\ wire' = wire
  BY DEF Ends
<1>3. wire = Span(0, PageLen + produced) \/ ret # 1 \/ pc = "dead"
  BY DEF Ends, Outcome, Completed, Reply
<1> QED
  BY <1>1, <1>2, <1>3 DEF Service!Close

LEMMA WritesProduce ==
  ASSUME IInv, WritesOutput
  PROVE  Service!Produce
<1>1. UNCHANGED <<pc, ret, wire>> /\ produced' = produced + 1
  BY DEF WritesOutput, server, client
<1>2. /\ (pc' = "closed") = (pc = "closed")
      /\ (ret' # 1 \/ pc' = "dead") = (ret # 1 \/ pc = "dead")
  BY <1>1
<1>3. PageLen + produced \in Nat /\ Reply \in Seq(Nat) /\ PageLen \in Nat /\ produced \in Nat
  BY ReplyIs, Counts, Sizes DEF IInv
<1>4. PageLen + produced' = (PageLen + produced) + 1
  BY <1>1, <1>3
<1>5. Span(0, PageLen + produced') = Append(Reply, (PageLen + produced) + 1)
  BY <1>3, <1>4, SpanOneMore DEF Reply
<1>6. Begins(Reply, Append(Reply, (PageLen + produced) + 1))
  <2>1. Begins(Reply, Reply) /\ (PageLen + produced) + 1 \in Nat
    BY <1>3, BeginsItself
  <2> QED
    BY <1>3, <2>1, BeginsAppend
<1>7. Begins(Span(0, PageLen + produced), Span(0, PageLen + produced'))
  BY <1>5, <1>6 DEF Reply
<1> QED
  BY <1>1, <1>2, <1>7 DEF Service!Produce, Service!Begins, Begins

LEMMA StepKinds ==
  ASSUME IInv, IInv', [Next]_vars
  PROVE  Still \/ Breaks \/ Sends \/ Ends \/ WritesOutput
<1>1. TypeOK /\ Stages /\ Outcome
  BY DEF IInv
<1>2. CASE BeginGet \/ BeginPost \/ DiscardForever
  <2>1. UNCHANGED <<wire, produced, ret>>
    BY <1>2 DEF BeginGet, BeginPost, DiscardForever, server, pipes, child, client
  <2>2. pc' = pc \/ {pc, pc'} \cap {"closed", "dead"} = {}
    BY <1>2 DEF BeginGet, BeginPost, DiscardForever, server
  <2> QED
    BY <2>1, <2>2 DEF Still
<1>3. CASE ResponsePage \/ BeginPostNoLength
  <2>1. pc \in {"page", "begin"} /\ UNCHANGED produced /\ wire = << >>
    BY <1>1, <1>3 DEF ResponsePage, BeginPostNoLength, SendPage, child, Outcome
  <2>2. \/ ret' \in {-1, 0} /\ pc' = "finish" /\ UNCHANGED wire
        \/ ret' = ret /\ pc' \in {"length", "pipeIn"} /\ wire' = wire \o Span(0, PageLen)
    BY <1>3 DEF ResponsePage, BeginPostNoLength, SendPage, Return
  <2>3. Begins(wire, wire \o Span(0, PageLen))
    <3>1. wire \in Seq(Nat) /\ Span(0, PageLen) \in Seq(Nat)
      BY <1>1, Strings, Sizes, SpanFromStart
    <3> QED
      BY <3>1, BeginsConcat
  <2> QED
    BY <2>1, <2>2, <2>3 DEF Breaks, Sends
<1>4. CASE \/ ReadNull \/ PipeFails \/ MallocFails \/ BeginPostNoMark
           \/ WriteBodyFails \/ MoreBodyFails \/ RelayFails
  <2>1. UNCHANGED <<wire, produced>>
    BY <1>4 DEF ReadNull, PipeFails, MallocFails, BeginPostNoMark, WriteBodyFails,
       MoreBodyFails, RelayFails, child, client
  <2>2. pc # "closed" /\ pc' # "closed" /\ (ret' # 1 \/ pc' = "dead")
    BY <1>4 DEF ReadNull, PipeFails, MallocFails, BeginPostNoMark, Character, WriteBodyFails,
       MoreBodyFails, RelayFails, Return
  <2> QED
    BY <2>1, <2>2 DEF Breaks
<1>5. CASE \/ Pipe("pipeIn", "pipeOut", {"cgiIn[0]", "cgiIn[1]"})
           \/ Pipe("pipeOut", "fork", {"cgiOut[0]", "cgiOut[1]"})
           \/ Fork
  <2>1. UNCHANGED <<wire, produced, ret>>
    BY <1>5 DEF Pipe, Fork, child, client
  <2>2. {pc, pc'} \cap {"closed", "dead"} = {}
    BY <1>5 DEF Pipe, Fork
  <2> QED
    BY <2>1, <2>2 DEF Still
<1>6. CASE TakeBody \/ BodyWritten \/ MoreBody \/ ReadOutput \/ EndOutput \/ WaitPid
  <2>1. UNCHANGED <<wire, produced, ret>>
    BY <1>6 DEF TakeBody, BodyWritten, MoreBody, ReadOutput, EndOutput, WaitPid, child, client
  <2>2. {pc, pc'} \cap {"closed", "dead"} = {}
    BY <1>6 DEF TakeBody, BodyWritten, MoreBody, ReadOutput, EndOutput, WaitPid
  <2> QED
    BY <2>1, <2>2 DEF Still
<1>7. CASE WriteBodyCut \/ \E n \in 1 .. PipeCap : WriteBody(n)
  BY <1>7 DEF WriteBody, WriteBodyCut, child, client, Still
<1>8. CASE Relay
  <2>1. UNCHANGED <<produced, ret>> /\ pc = "relay" /\ pc' = "read" /\ wire' = wire \o str
    BY <1>8 DEF Relay, Relayed, child
  <2>2. Begins(wire, wire \o str)
    BY <1>1, Strings, BeginsConcat
  <2> QED
    BY <2>1, <2>2 DEF Sends
<1>9. CASE Finish
  <2>1. UNCHANGED <<wire, produced, ret>> /\ pc = "finish" /\ pc' \in {"closed", "dead"}
    BY <1>9 DEF Finish, child, client
  <2> QED
    BY <2>1 DEF Ends, Breaks
<1>10. CASE \/ \E op \in {"reads", "writes", "quiet", "exited"} : Chooses(op)
            \/ \E op \in {"quietReads", "exited"} : ChoosesQuiet(op)
            \/ WriteRefused \/ ClientFin \/ ClientResets \/ UNCHANGED vars
  BY <1>10 DEF Chooses, ChoosesQuiet, WriteRefused, ClientFin, ClientResets, vars, given, server,
       body, pipes, child, client, Still
<1>11. CASE \E n \in 1 .. PipeCap : ReadsInput(n)
  BY <1>11 DEF ReadsInput, server, client, Still
<1>12. CASE SendRest
  BY <1>12 DEF SendRest, SendBody, server, child, client, Still
<1> QED
  BY <1>2, <1>3, <1>4, <1>5, <1>6, <1>7, <1>8, <1>9, <1>10, <1>11, <1>12
     DEF Next, Server, Program, Client

(* An execution of a program is a delivery of the page and of what the     *)
(* program writes: each step of the server, of the program and of the      *)
(* client is a step of Delivery or changes nothing of it.                  *)
THEOREM Delivers == Spec => ImplementsDelivery
<1>1. Init => Service!Init
  <2> SUFFICES ASSUME Init PROVE Service!Init
    OBVIOUS
  <2>1. /\ (pc = "closed") = FALSE
        /\ (ret # 1 \/ pc = "dead") = FALSE
        /\ wire = << >>
    BY DEF Init
  <2> QED
    BY <2>1 DEF Service!Init
<1>2. IInv /\ IInv' /\ [Next]_vars => [Service!Next]_Service!vars
  <2> SUFFICES ASSUME IInv, IInv', [Next]_vars PROVE [Service!Next]_Service!vars
    OBVIOUS
  <2>1. Outcome /\ Outcome'
    BY DEF IInv
  <2>2. UNCHANGED Service!vars \/ Service!Fail \/ Service!Deliver \/ Service!Close \/ Service!Produce
    BY <2>1, StepKinds, QuietStutters, BreaksFail, SendsDeliver, EndsClose, WritesProduce
  <2> QED
    BY <2>2 DEF Service!Next
<1> QED
  BY Invariance, <1>1, <1>2, PTL DEF Spec, ImplementsDelivery, Service!Spec

-----------------------------------------------------------------------------
(* How long an execution can take: the steps the server has before it at   *)
(* most, if the client sends its body and the program writes its output.   *)

(* A byte of the body is received and written, one of the output is read   *)
(* and relayed.                                                            *)
Writing == IF pc = "write" THEN Len(str) ELSE 0
BytesLeft ==
  IF pc \in Over THEN 0
  ELSE 4 * (request.body - arrived) + 4 * Len(sock) + Len(ring) + Writing
         + 2 * (Output - produced) + 2 * Len(outPipe)

Place ==
  CASE pc = "begin" -> 11
    [] pc \in {"page", "length"} -> 10
    [] pc = "pipeIn" -> 9
    [] pc = "pipeOut" -> 8
    [] pc = "fork" -> 7
    [] pc = "take" -> 6
    [] pc = "write" -> 5
    [] pc \in {"more", "relay"} -> 4
    [] pc = "read" -> 3
    [] pc = "wait" -> 2
    [] pc = "finish" -> 1
    [] pc \in {"closed", "dead"} -> 0

StepsLeft == BytesLeft + Place

Allowance ==
  StepsLeft = 4 * (request.body - request.early) + request.early + 2 * Output + 11

(* DN_Sock2Buff answers that it has read nothing. *)
NothingCame == MoreBody /\ sock = << >>

(* A step of the server brings the end nearer, or is a round of one of the *)
(* two loops that wait for the client; a request that came whole is never  *)
(* in the second, and not in the first while its client is there.          *)
ExecutionGoesOn ==
  /\ Server \/ MallocFails \/ PipeFails
       => StepsLeft' < StepsLeft \/ DiscardForever \/ NothingCame
  /\ CameWhole /\ peer = "alive" /\ Server => StepsLeft' < StepsLeft
  /\ Program \/ Client => StepsLeft' = StepsLeft

(* The amounts at one end of a step. *)
Amounts ==
  /\ request.body - arrived \in Nat /\ Len(sock) \in Nat /\ Len(ring) \in Nat
  /\ Writing \in Nat /\ Output - produced \in Nat /\ Len(outPipe) \in Nat
  /\ Place \in 0 .. 11 /\ BytesLeft \in Nat
  /\ pc \in Over => BytesLeft = 0
  /\ pc \notin Over =>
       BytesLeft = 4 * (request.body - arrived) + 4 * Len(sock) + Len(ring) + Writing
                     + 2 * (Output - produced) + 2 * Len(outPipe)

LEMMA AmountsAre == IInv => Amounts
<1> SUFFICES ASSUME IInv PROVE Amounts
  OBVIOUS
<1>1. TypeOK
  BY DEF IInv
<1>2. /\ request.body - arrived \in Nat /\ Len(sock) \in Nat /\ Len(ring) \in Nat
      /\ Len(str) \in Nat /\ Len(outPipe) \in Nat
  BY <1>1, Counts
<1>3. Output - produced \in Nat
  <2>1. produced \in 0 .. Output
    BY <1>1 DEF TypeOK
  <2> QED
    BY <2>1, Sizes
<1>4. Writing \in Nat
  BY <1>2 DEF Writing
<1>5. Place \in 0 .. 11
  BY <1>1 DEF TypeOK, Place
<1>6. pc \in Over => BytesLeft = 0
  BY DEF BytesLeft
<1>7. pc \notin Over =>
        BytesLeft = 4 * (request.body - arrived) + 4 * Len(sock) + Len(ring) + Writing
                      + 2 * (Output - produced) + 2 * Len(outPipe)
  BY DEF BytesLeft
<1>8. BytesLeft \in Nat
  <2>1. \A a, k, r, w, o, u \in Nat : 4 * a + 4 * k + r + w + 2 * o + 2 * u \in Nat
    OBVIOUS
  <2>2. CASE pc \in Over
    BY <1>6, <2>2
  <2>3. CASE pc \notin Over
    <3>1. PICK a, k, r, w, o, u \in Nat :
            BytesLeft = 4 * a + 4 * k + r + w + 2 * o + 2 * u
      <4>1. BytesLeft = 4 * (request.body - arrived) + 4 * Len(sock) + Len(ring) + Writing
                          + 2 * (Output - produced) + 2 * Len(outPipe)
        BY <1>7, <2>3
      <4> USE <1>2, <1>3, <1>4
      <4> WITNESS request.body - arrived \in Nat, Len(sock) \in Nat, Len(ring) \in Nat,
                  Writing \in Nat, Output - produced \in Nat, Len(outPipe) \in Nat
      <4> QED
        BY <4>1
    <3> QED
      BY <2>1, <3>1
  <2> QED
    BY <2>2, <2>3
<1> QED
  BY <1>2, <1>3, <1>4, <1>5, <1>6, <1>7, <1>8 DEF Amounts

LEMMA Both == ASSUME IInv, IInv' PROVE Amounts /\ Amounts'
  BY AmountsAre, PTL

LEMMA Lefts == StepsLeft = BytesLeft + Place /\ StepsLeft' = BytesLeft' + Place'
  BY DEF StepsLeft

LEMMA Places ==
  /\ pc = "begin" => Place = 11
  /\ pc \in {"page", "length"} => Place = 10
  /\ pc = "pipeIn" => Place = 9
  /\ pc = "pipeOut" => Place = 8
  /\ pc = "fork" => Place = 7
  /\ pc = "take" => Place = 6
  /\ pc = "write" => Place = 5
  /\ pc \in {"more", "relay"} => Place = 4
  /\ pc = "read" => Place = 3
  /\ pc = "wait" => Place = 2
  /\ pc = "finish" => Place = 1
  /\ pc \in {"closed", "dead"} => Place = 0
  BY DEF Place

LEMMA NextPlaces ==
  /\ pc' = "begin" => Place' = 11
  /\ pc' \in {"page", "length"} => Place' = 10
  /\ pc' = "pipeIn" => Place' = 9
  /\ pc' = "pipeOut" => Place' = 8
  /\ pc' = "fork" => Place' = 7
  /\ pc' = "take" => Place' = 6
  /\ pc' = "write" => Place' = 5
  /\ pc' \in {"more", "relay"} => Place' = 4
  /\ pc' = "read" => Place' = 3
  /\ pc' = "wait" => Place' = 2
  /\ pc' = "finish" => Place' = 1
  /\ pc' \in {"closed", "dead"} => Place' = 0
  BY DEF Place

(* A step to the end leaves nothing to do. *)
LEMMA EndIsNear ==
  ASSUME IInv, IInv', pc' \in Over, Place' < Place PROVE StepsLeft' < StepsLeft
<1>1. BytesLeft \in Nat /\ BytesLeft' = 0 /\ Place \in 0 .. 11 /\ Place' \in 0 .. 11
  BY Both DEF Amounts
<1>2. \A b \in Nat, p, q \in 0 .. 11 : q < p => 0 + q < b + p
  OBVIOUS
<1> QED
  BY <1>1, <1>2, Lefts

(* So does one further on that adds no bytes. *)
LEMMA NextIsNear ==
  ASSUME IInv, IInv', pc \notin Over, pc' \notin Over, Place' < Place,
         UNCHANGED <<request, arrived, produced, ring, outPipe>>,
         Len(sock') <= Len(sock), pc' # "write", Len(ring') <= Len(ring)
  PROVE  StepsLeft' < StepsLeft
<1>1. /\ request.body - arrived \in Nat /\ Len(sock) \in Nat /\ Len(ring) \in Nat
      /\ Writing \in Nat /\ Output - produced \in Nat /\ Len(outPipe) \in Nat
      /\ Place \in 0 .. 11 /\ Place' \in 0 .. 11 /\ Len(sock') \in Nat
  BY Both DEF Amounts
<1>2. BytesLeft = 4 * (request.body - arrived) + 4 * Len(sock) + Len(ring) + Writing
                    + 2 * (Output - produced) + 2 * Len(outPipe)
  BY Both DEF Amounts
<1>3. BytesLeft' = 4 * (request.body - arrived) + 4 * Len(sock') + Len(ring) + 0
                     + 2 * (Output - produced) + 2 * Len(outPipe)
  <2>1. Writing' = 0
    BY DEF Writing
  <2> QED
    BY <2>1, Both DEF Amounts
<1>4. \A a, k, l, r, w, o, q \in Nat, p, s \in 0 .. 11 :
        l <= k /\ s < p =>
          (4 * a + 4 * l + r + 0 + 2 * o + 2 * q) + s < (4 * a + 4 * k + r + w + 2 * o + 2 * q) + p
  OBVIOUS
<1> QED
  BY <1>1, <1>2, <1>3, <1>4, Lefts

(* The calls before the body. *)
LEMMA CallsGoOn ==
  ASSUME IInv, IInv',
         \/ BeginGet \/ BeginPost \/ BeginPostNoMark \/ BeginPostNoLength \/ ReadNull
         \/ ResponsePage \/ Fork
         \/ Pipe("pipeIn", "pipeOut", {"cgiIn[0]", "cgiIn[1]"})
         \/ Pipe("pipeOut", "fork", {"cgiOut[0]", "cgiOut[1]"})
         \/ PipeFails \/ MallocFails
  PROVE  StepsLeft' < StepsLeft
<1>1. Len(sock) \in Nat /\ Len(ring) \in Nat /\ Len(<< >>) = 0
  BY EmptySeq, Both DEF Amounts
<1>2. /\ UNCHANGED <<request, arrived, produced, ring, outPipe>>
      /\ sock' \in {sock, << >>}
  BY DEF BeginGet, BeginPost, BeginPostNoMark, BeginPostNoLength, ReadNull, ResponsePage,
         SendPage, DiscardRequest, Fork, Pipe, PipeFails, MallocFails, given, body, pipes, child
<1>3. Len(sock') <= Len(sock) /\ Len(ring') <= Len(ring)
  BY <1>1, <1>2
<1>4. \/ pc = "begin" /\ pc' \in {"page", "length", "finish", "dead"}
      \/ pc = "length" /\ pc' = "dead"
      \/ pc = "page" /\ pc' \in {"pipeIn", "finish"}
      \/ pc = "pipeIn" /\ pc' \in {"pipeOut", "finish"}
      \/ pc = "pipeOut" /\ pc' \in {"fork", "finish"}
      \/ pc = "fork" /\ pc' \in {"take", "read", "finish"}
      \/ pc \in {"take", "more", "read", "relay"} /\ pc' = "dead"
  BY DEF BeginGet, BeginPost, BeginPostNoMark, BeginPostNoLength, ReadNull, ResponsePage,
         SendPage, Return, Fork, Pipe, PipeFails, MallocFails
<1>5. Place' < Place
  BY <1>4, Places, NextPlaces
<1> QED
  BY <1>2, <1>3, <1>4, <1>5, EndIsNear, NextIsNear DEF Over

LEMMA TakeGoesOn == ASSUME IInv, IInv', TakeBody PROVE StepsLeft' < StepsLeft
<1>1. /\ pc = "take" /\ pc' = "write" /\ str' = ring /\ ring' = << >>
      /\ UNCHANGED <<request, sock, arrived, produced, outPipe>>
  BY DEF TakeBody, given, pipes, child
<1>2. Writing = 0 /\ Writing' = Len(ring) /\ Len(ring') = 0
  BY <1>1, EmptySeq DEF Writing
<1>3. Place = 6 /\ Place' = 5
  BY <1>1, Places, NextPlaces
<1>4. /\ request.body - arrived \in Nat /\ Len(sock) \in Nat /\ Len(ring) \in Nat
      /\ Output - produced \in Nat /\ Len(outPipe) \in Nat
  BY Both DEF Amounts
<1>5. BytesLeft = 4 * (request.body - arrived) + 4 * Len(sock) + Len(ring) + 0
                    + 2 * (Output - produced) + 2 * Len(outPipe)
  BY <1>1, <1>2, Both DEF Amounts, Over
<1>6. BytesLeft' = 4 * (request.body - arrived) + 4 * Len(sock) + 0 + Len(ring)
                     + 2 * (Output - produced) + 2 * Len(outPipe)
  BY <1>1, <1>2, Both DEF Amounts, Over
<1>7. \A a, k, r, o, q \in Nat :
        (4 * a + 4 * k + 0 + r + 2 * o + 2 * q) + 5 < (4 * a + 4 * k + r + 0 + 2 * o + 2 * q) + 6
  OBVIOUS
<1> QED
  BY <1>3, <1>4, <1>5, <1>6, <1>7, Lefts

LEMMA WriteGoesOn ==
  ASSUME IInv, IInv', NEW n \in 1 .. PipeCap, WriteBody(n) PROVE StepsLeft' < StepsLeft
<1>1. /\ pc = "write" /\ pc' = "write" /\ str' = SubSeq(str, n + 1, Len(str))
      /\ n \in 1 .. Lesser(Len(str), PipeCap - Len(inPipe))
      /\ UNCHANGED <<request, sock, ring, arrived, produced, outPipe>>
  BY DEF WriteBody, Unwritten, given, body, child
<1>2. str \in Seq(Nat) /\ Len(str) \in Nat /\ Len(inPipe) \in Nat
  BY Strings, Counts DEF IInv
<1>3. n \in 1 .. Len(str)
  BY <1>1, <1>2, Sizes DEF Lesser
<1>4. Writing = Len(str) /\ Writing' = Len(str) - n
  <2>1. n \in 0 .. Len(str)
    BY <1>3
  <2>2. Len(str') = Len(str) - n
    BY <1>1, <1>2, <2>1, Split
  <2> QED
    BY <1>1, <2>2 DEF Writing
<1>5. Place = 5 /\ Place' = 5
  BY <1>1, Places, NextPlaces
<1>6. /\ request.body - arrived \in Nat /\ Len(sock) \in Nat /\ Len(ring) \in Nat
      /\ Output - produced \in Nat /\ Len(outPipe) \in Nat
  BY Both DEF Amounts
<1>7. BytesLeft = 4 * (request.body - arrived) + 4 * Len(sock) + Len(ring) + Len(str)
                    + 2 * (Output - produced) + 2 * Len(outPipe)
  BY <1>1, <1>4, Both DEF Amounts, Over
<1>8. BytesLeft' = 4 * (request.body - arrived) + 4 * Len(sock) + Len(ring) + (Len(str) - n)
                     + 2 * (Output - produced) + 2 * Len(outPipe)
  BY <1>1, <1>4, Both DEF Amounts, Over
<1>9. \A a, k, r, w, o, q \in Nat, m \in 1 .. Len(str) :
        (4 * a + 4 * k + r + (w - m) + 2 * o + 2 * q) + 5 < (4 * a + 4 * k + r + w + 2 * o + 2 * q) + 5
  BY <1>2
<1> QED
  BY <1>2, <1>3, <1>5, <1>6, <1>7, <1>8, <1>9, Lefts

(* The bytes of the body that have come go round once. *)
LEMMA MoreGoesOn ==
  ASSUME IInv, IInv', MoreBody, sock # << >> PROVE StepsLeft' < StepsLeft
<1> DEFINE n == Lesser(Buf, Len(sock))
<1>1. /\ pc = "more" /\ pc' = "take" /\ ring' = SubSeq(sock, 1, n)
      /\ sock' = SubSeq(sock, n + 1, Len(sock))
      /\ UNCHANGED <<request, arrived, produced, outPipe>>
  BY DEF MoreBody, given, pipes, child
<1>2. ring = << >> /\ Len(ring) = 0
  BY <1>1, EmptySeq DEF IInv, Body
<1>3. sock \in Seq(Nat) /\ Len(sock) \in Nat /\ Len(sock) > 0
  <2>1. sock \in Seq(Nat) /\ Len(sock) \in Nat
    BY Strings, Counts DEF IInv
  <2> QED
    BY <2>1, EmptySeq
<1>4. n \in 1 .. Len(sock)
  BY <1>3, Sizes DEF Lesser
<1> HIDE DEF n
<1>5. Len(ring') = n /\ Len(sock') = Len(sock) - n
  <2>1. n \in 0 .. Len(sock)
    BY <1>4
  <2> QED
    BY <1>1, <1>3, <2>1, Split
<1>6. Writing = 0 /\ Writing' = 0 /\ Place = 4 /\ Place' = 6
  BY <1>1, Places, NextPlaces DEF Writing
<1>7. /\ request.body - arrived \in Nat /\ Output - produced \in Nat /\ Len(outPipe) \in Nat
  BY Both DEF Amounts
<1>8. BytesLeft = 4 * (request.body - arrived) + 4 * Len(sock) + 0 + 0
                    + 2 * (Output - produced) + 2 * Len(outPipe)
  BY <1>1, <1>2, <1>6, Both DEF Amounts, Over
<1>9. BytesLeft' = 4 * (request.body - arrived) + 4 * (Len(sock) - n) + n + 0
                     + 2 * (Output - produced) + 2 * Len(outPipe)
  BY <1>1, <1>5, <1>6, Both DEF Amounts, Over
<1>10. \A a, k, o, q \in Nat, m \in 1 .. Len(sock) :
         (4 * a + 4 * (k - m) + m + 0 + 2 * o + 2 * q) + 6 < (4 * a + 4 * k + 0 + 0 + 2 * o + 2 * q) + 4
  BY <1>3
<1> QED
  BY <1>3, <1>4, <1>6, <1>7, <1>8, <1>9, <1>10, Lefts

LEMMA ReadGoesOn == ASSUME IInv, IInv', ReadOutput PROVE StepsLeft' < StepsLeft
<1> DEFINE n == Lesser(Buf, Len(outPipe))
<1>1. /\ pc = "read" /\ pc' = "relay" /\ outPipe # << >>
      /\ outPipe' = SubSeq(outPipe, n + 1, Len(outPipe))
      /\ UNCHANGED <<request, ring, sock, arrived, produced>>
  BY DEF ReadOutput, Takes, given, body, child
<1>2. outPipe \in Seq(Nat) /\ Len(outPipe) \in Nat /\ Len(outPipe) > 0
  <2>1. outPipe \in Seq(Nat) /\ Len(outPipe) \in Nat
    BY Strings, Counts DEF IInv
  <2> QED
    BY <1>1, <2>1, EmptySeq
<1>3. n \in 1 .. Len(outPipe)
  BY <1>2, Sizes DEF Lesser
<1> HIDE DEF n
<1>4. Len(outPipe') = Len(outPipe) - n
  <2>1. n \in 0 .. Len(outPipe)
    BY <1>3
  <2> QED
    BY <1>1, <1>2, <2>1, Split
<1>5. Writing = 0 /\ Writing' = 0 /\ Place = 3 /\ Place' = 4
  BY <1>1, Places, NextPlaces DEF Writing
<1>6. /\ request.body - arrived \in Nat /\ Len(sock) \in Nat /\ Len(ring) \in Nat
      /\ Output - produced \in Nat
  BY Both DEF Amounts
<1>7. BytesLeft = 4 * (request.body - arrived) + 4 * Len(sock) + Len(ring) + 0
                    + 2 * (Output - produced) + 2 * Len(outPipe)
  BY <1>1, <1>5, Both DEF Amounts, Over
<1>8. BytesLeft' = 4 * (request.body - arrived) + 4 * Len(sock) + Len(ring) + 0
                     + 2 * (Output - produced) + 2 * (Len(outPipe) - n)
  BY <1>1, <1>4, <1>5, Both DEF Amounts, Over
<1>9. \A a, k, r, o, q \in Nat, m \in 1 .. Len(outPipe) :
        (4 * a + 4 * k + r + 0 + 2 * o + 2 * (q - m)) + 4 < (4 * a + 4 * k + r + 0 + 2 * o + 2 * q) + 3
  BY <1>2
<1> QED
  BY <1>2, <1>3, <1>5, <1>6, <1>7, <1>8, <1>9, Lefts

LEMMA EndsGoOn ==
  ASSUME IInv, IInv',
         \/ WriteBodyFails \/ BodyWritten \/ MoreBodyFails
         \/ EndOutput \/ Relay \/ RelayFails \/ WaitPid \/ Finish
  PROVE  StepsLeft' < StepsLeft
<1>1. \/ pc = "write" /\ pc' \in {"more", "read", "finish"}
      \/ pc = "more" /\ pc' = "finish"
      \/ pc = "read" /\ pc' = "wait"
      \/ pc = "relay" /\ pc' \in {"read", "finish"}
      \/ pc = "wait" /\ pc' = "finish"
      \/ pc = "finish" /\ pc' \in {"closed", "dead"}
  BY DEF WriteBodyFails, BodyWritten, MoreBodyFails, Return, EndOutput, Relay, RelayFails,
         WaitPid, Finish
<1>2. Place' < Place
  BY <1>1, Places, NextPlaces
<1>3. CASE pc' \in Over
  BY <1>2, <1>3, EndIsNear
<1>4. CASE pc' \notin Over
  <2>1. UNCHANGED <<request, sock, ring, arrived, produced, outPipe>>
    BY <1>1, <1>4 DEF WriteBodyFails, BodyWritten, MoreBodyFails, EndOutput, Relay, RelayFails,
       WaitPid, Finish, given, body, pipes, child, Over
  <2>2. Len(sock) \in Nat /\ Len(ring) \in Nat
    BY Both DEF Amounts
  <2> QED
    BY <1>1, <1>2, <1>4, <2>1, <2>2, NextIsNear DEF Over
<1> QED
  BY <1>3, <1>4

LEMMA CutGoesOn == ASSUME IInv, IInv', WriteBodyCut PROVE StepsLeft' < StepsLeft
<1>1. /\ pc = "write" /\ pc' = "write" /\ str # << >> /\ str' = << >>
      /\ UNCHANGED <<request, sock, ring, arrived, produced, outPipe>>
  BY DEF WriteBodyCut, given, body, pipes, child
<1>2. Writing = Len(str) /\ Writing' = 0
  BY <1>1, EmptySeq DEF Writing
<1>3. Len(str) \in Nat /\ Len(str) > 0
  <2>1. str \in Seq(Nat) /\ Len(str) \in Nat
    BY Strings, Counts DEF IInv
  <2> QED
    BY <1>1, <2>1, EmptySeq
<1>4. Place = 5 /\ Place' = 5
  BY <1>1, Places, NextPlaces
<1>5. /\ request.body - arrived \in Nat /\ Len(sock) \in Nat /\ Len(ring) \in Nat
      /\ Output - produced \in Nat /\ Len(outPipe) \in Nat
  BY Both DEF Amounts
<1>6. BytesLeft = 4 * (request.body - arrived) + 4 * Len(sock) + Len(ring) + Len(str)
                    + 2 * (Output - produced) + 2 * Len(outPipe)
  BY <1>1, <1>2, Both DEF Amounts, Over
<1>7. BytesLeft' = 4 * (request.body - arrived) + 4 * Len(sock) + Len(ring) + 0
                     + 2 * (Output - produced) + 2 * Len(outPipe)
  BY <1>1, <1>2, Both DEF Amounts, Over
<1>8. \A a, k, r, w, o, q \in Nat : w > 0 =>
        (4 * a + 4 * k + r + 0 + 2 * o + 2 * q) + 5 < (4 * a + 4 * k + r + w + 2 * o + 2 * q) + 5
  OBVIOUS
<1> QED
  BY <1>3, <1>4, <1>5, <1>6, <1>7, <1>8, Lefts

LEMMA ServerGoesOn ==
  ASSUME IInv, IInv', Server \/ MallocFails \/ PipeFails
  PROVE  StepsLeft' < StepsLeft \/ DiscardForever \/ NothingCame
  BY CallsGoOn, TakeGoesOn, WriteGoesOn, CutGoesOn, MoreGoesOn, ReadGoesOn, EndsGoOn
     DEF Server, NothingCame

(* The client's bytes and the program's have been counted already. *)
LEMMA OthersWait == ASSUME IInv, IInv', Program \/ Client PROVE StepsLeft' = StepsLeft
<1>1. Len(outPipe) \in Nat /\ Len(sock) \in Nat /\ produced \in Nat /\ Output \in Nat
  BY Counts, Sizes DEF IInv
<1>2. arrived \in Nat /\ request.body \in Nat
  BY Counts DEF IInv
<1>3. ASSUME UNCHANGED <<request, pc, str, sock, ring, arrived, produced, outPipe>>
      PROVE  StepsLeft' = StepsLeft
  BY <1>3 DEF StepsLeft, BytesLeft, Writing, Place
<1>4. CASE WritesOutput
  <2>1. /\ UNCHANGED <<request, pc, str, sock, ring, arrived>>
        /\ produced' = produced + 1 /\ outPipe' = Append(outPipe, PageLen + produced')
    BY <1>4 DEF WritesOutput, given, server, body
  <2>2. Len(outPipe') = Len(outPipe) + 1
    <3>1. outPipe \in Seq(Nat) /\ PageLen + produced' \in Nat
      BY <1>1, <2>1, Strings, Sizes DEF IInv
    <3> QED
      BY <2>1, <3>1, AppendProperties
  <2>3. 2 * (Output - produced') + 2 * Len(outPipe') = 2 * (Output - produced) + 2 * Len(outPipe)
    BY <1>1, <2>1, <2>2
  <2>4. Writing' = Writing /\ Place' = Place
    BY <2>1 DEF Writing, Place
  <2>5. CASE pc \in Over
    BY <2>1, <2>4, <2>5, Lefts DEF BytesLeft
  <2>6. CASE pc \notin Over
    <3> DEFINE b == 4 * (request.body - arrived) + 4 * Len(sock) + Len(ring) + Writing
    <3>1. BytesLeft = b + 2 * (Output - produced) + 2 * Len(outPipe)
      BY <2>6 DEF BytesLeft
    <3>2. BytesLeft' = b + 2 * (Output - produced') + 2 * Len(outPipe')
      BY <2>1, <2>4, <2>6 DEF BytesLeft
    <3>3. b \in Int
      <4>1. /\ request.body - arrived \in Nat /\ Len(sock) \in Nat /\ Len(ring) \in Nat
            /\ Writing \in Nat
        BY Both DEF Amounts
      <4>2. \A a, k, r, w \in Nat : 4 * a + 4 * k + r + w \in Int
        OBVIOUS
      <4> QED
        BY <4>1, <4>2
    <3> HIDE DEF b
    <3>4. BytesLeft' = BytesLeft
      BY <1>1, <2>1, <2>2, <3>1, <3>2, <3>3
    <3> QED
      BY <2>4, <3>4, Lefts
  <2> QED
    BY <2>5, <2>6
<1>5. ASSUME NEW n \in 1 .. request.body, SendBody(n) PROVE StepsLeft' = StepsLeft
  <2>1. /\ UNCHANGED <<request, pc, str, ring, produced, outPipe>>
        /\ arrived' = arrived + n /\ sock' = sock \o Span(arrived, arrived + n)
    BY <1>5 DEF SendBody, given, server, pipes, child
  <2>2. n \in Nat
    BY <1>2
  <2>3. Len(sock') = Len(sock) + n
    <3>1. arrived + n \in Int /\ arrived <= arrived + n /\ (arrived + n) - arrived = n
      BY <1>2, <2>2
    <3>2. Span(arrived, arrived + n) \in Seq(Nat) /\ Len(Span(arrived, arrived + n)) = n
      <4>1. arrived \in Int
        BY <1>2
      <4> QED
        BY <1>2, <3>1, <4>1, SpanNat, SpanIs
    <3>3. sock \in Seq(Nat)
      BY Strings DEF IInv
    <3> QED
      BY <2>1, <3>2, <3>3, ConcatProperties
  <2>4. Writing' = Writing /\ Place' = Place
    BY <2>1 DEF Writing, Place
  <2>5. CASE pc \in Over
    BY <2>1, <2>4, <2>5, Lefts DEF BytesLeft
  <2>6. CASE pc \notin Over
    <3> DEFINE c == Len(ring) + Writing + 2 * (Output - produced) + 2 * Len(outPipe)
    <3>0. /\ Len(ring) \in Nat /\ Writing \in Nat /\ Output - produced \in Nat
          /\ Len(outPipe) \in Nat
      BY Both DEF Amounts
    <3>1. BytesLeft = 4 * (request.body - arrived) + 4 * Len(sock) + Len(ring) + Writing
                        + 2 * (Output - produced) + 2 * Len(outPipe)
      BY <2>6 DEF BytesLeft
    <3>2. BytesLeft' = 4 * (request.body - (arrived + n)) + 4 * (Len(sock) + n) + Len(ring)
                         + Writing + 2 * (Output - produced) + 2 * Len(outPipe)
      BY <2>1, <2>3, <2>4, <2>6 DEF BytesLeft
    <3>3. \A q, v, m, k, r, w, o, u \in Nat :
            4 * (q - (v + m)) + 4 * (k + m) + r + w + 2 * o + 2 * u
              = 4 * (q - v) + 4 * k + r + w + 2 * o + 2 * u
      OBVIOUS
    <3>4. BytesLeft' = BytesLeft
      BY <1>1, <1>2, <2>2, <3>0, <3>1, <3>2, <3>3
    <3> QED
      BY <2>4, <3>4, Lefts
  <2> QED
    BY <2>5, <2>6
<1>6. ASSUME \/ \E op \in {"reads", "writes", "quiet", "exited"} : Chooses(op)
             \/ \E op \in {"quietReads", "exited"} : ChoosesQuiet(op)
             \/ WriteRefused \/ ClientFin \/ ClientResets
             \/ \E n \in 1 .. PipeCap : ReadsInput(n)
      PROVE  StepsLeft' = StepsLeft
  BY <1>3, <1>6 DEF Chooses, ChoosesQuiet, WriteRefused, ClientFin, ClientResets, ReadsInput,
     given, server, body, pipes, child
<1> QED
  BY <1>4, <1>5, <1>6 DEF Program, Client, SendRest

(* What came whole is all there is to write: the loop of DN_Sock2Buff is   *)
(* left out.                                                               *)
Planned ==
  CameWhole =>
    /\ pc # "more"
    /\ pc = "take" => request.method = "POST" /\ Len(ring) = request.early
    /\ pc \in {"page", "pipeIn", "pipeOut", "fork", "take"} /\ request.method = "POST"
         => contentLen = request.length
    /\ pc = "write" => contentLen <= 0

LEMMA PlanKept == IInv /\ Planned /\ [Next]_vars => Planned'
<1> SUFFICES ASSUME IInv, Planned, CameWhole', [Next]_vars PROVE Planned'
  BY DEF Planned
<1>1. UNCHANGED request
  BY DEF Next, Server, Program, Client, SendRest, vars, given, BeginGet, BeginPost,
         BeginPostNoMark, BeginPostNoLength, ReadNull, ResponsePage, SendPage, DiscardForever,
         Pipe, PipeFails, Fork, MallocFails, TakeBody, WriteBody, WriteBodyFails, WriteBodyCut,
         BodyWritten, MoreBody, MoreBodyFails, ReadOutput, EndOutput, Relay, RelayFails,
         WaitPid, Finish, Chooses, ChoosesQuiet, ReadsInput, WritesOutput, WriteRefused,
         SendBody, ClientFin, ClientResets
<1>2. CameWhole
  BY <1>1 DEF CameWhole
<1>3. pc # "more"
  BY <1>2 DEF Planned
<1>4. ASSUME UNCHANGED <<pc, ring, contentLen>> PROVE Planned'
  BY <1>1, <1>2, <1>4 DEF Planned, CameWhole
<1>5. ASSUME pc' \in {"read", "relay", "wait", "finish", "closed", "dead", "length"} PROVE Planned'
  BY <1>5 DEF Planned
<1>6. CASE Program \/ Client \/ UNCHANGED vars \/ DiscardForever
  BY <1>4, <1>6 DEF Program, Client, SendRest, DiscardForever, Chooses, ChoosesQuiet, ReadsInput,
     WritesOutput, WriteRefused, SendBody, ClientFin, ClientResets, vars, server, body
<1>7. CASE \/ ReadNull \/ PipeFails \/ MallocFails \/ BeginPostNoMark
           \/ WriteBodyFails \/ MoreBodyFails \/ ReadOutput \/ EndOutput
           \/ Relay \/ RelayFails \/ WaitPid \/ Finish
  BY <1>5, <1>7 DEF ReadNull, PipeFails, MallocFails, BeginPostNoMark, WriteBodyFails,
     MoreBodyFails, Return, ReadOutput, EndOutput, Relay, RelayFails, WaitPid, Finish
<1>8. CASE \/ BeginGet \/ BeginPost \/ BeginPostNoLength \/ ResponsePage
           \/ Pipe("pipeIn", "pipeOut", {"cgiIn[0]", "cgiIn[1]"})
           \/ Pipe("pipeOut", "fork", {"cgiOut[0]", "cgiOut[1]"})
  <2>1. pc' \in {"page", "length", "pipeIn", "pipeOut", "fork", "finish"}
    BY <1>8 DEF BeginGet, BeginPost, BeginPostNoLength, ResponsePage, SendPage, Return, Pipe
  <2>2. request.method = "POST" /\ pc' \in {"page", "pipeIn", "pipeOut", "fork"}
          => contentLen' = request.length
    BY <1>2, <1>8 DEF Planned, CameWhole, LengthRead, BeginGet, BeginPost, BeginPostNoLength,
       ResponsePage, SendPage, Return, Pipe
  <2> QED
    BY <1>1, <2>1, <2>2 DEF Planned
<1>9. CASE Fork
  <2>1. /\ pc = "fork" /\ contentLen' = contentLen /\ ring' = ring /\ pc' \in {"take", "read"}
        /\ pc' = "take" => request.method = "POST"
    BY <1>9 DEF Fork, body
  <2>2. Len(ring) = request.early
    BY <2>1, Parts DEF IInv, Body, Fresh
  <2> QED
    BY <1>1, <1>2, <2>1, <2>2 DEF Planned
<1>10. CASE TakeBody
  <2>1. pc = "take" /\ pc' = "write" /\ contentLen' = contentLen - Len(ring)
    BY <1>10 DEF TakeBody
  <2>2. /\ request.method = "POST" /\ Len(ring) = request.early /\ contentLen = request.length
        /\ request.length # None /\ request.length <= request.early
    BY <1>2, <2>1 DEF Planned, CameWhole
  <2>3. request.early \in Nat /\ request.length \in Int
    BY <2>2, RequestIs DEF IInv, TypeOK
  <2>4. contentLen' <= 0
    BY <2>1, <2>2, <2>3
  <2> QED
    BY <2>1, <2>4 DEF Planned
<1>11. CASE WriteBodyCut \/ \E n \in 1 .. PipeCap : WriteBody(n)
  BY <1>4, <1>11 DEF WriteBody, WriteBodyCut, body
<1>12. CASE BodyWritten
  <2>1. pc = "write" /\ pc' = IF contentLen > 0 THEN "more" ELSE "read"
    BY <1>12 DEF BodyWritten, BodyRemains
  <2>2. contentLen <= 0 /\ contentLen \in Int
    BY <1>2, <2>1 DEF Planned, IInv, TypeOK
  <2>3. pc' = "read"
    BY <2>1, <2>2
  <2> QED
    BY <1>5, <2>3
<1>13. CASE MoreBody
  BY <1>3, <1>13 DEF MoreBody
<1> QED
  BY <1>6, <1>7, <1>8, <1>9, <1>10, <1>11, <1>12, <1>13 DEF Next, Server

(* An execution is over after at most so many steps of the server as       *)
(* Allowance says, but for the rounds of two loops that wait for a client: *)
(* DN_DiscardRequest when it has closed (dn_request.c:57), DN_Sock2Buff    *)
(* when a promised body has not come (dn_cgi.c:234).  A GET, or a POST     *)
(* whose body came with its head, meets neither while its client is there, *)
(* so that Served needs no more than that both sides are scheduled.        *)
THEOREM ExecutionIsBounded ==
  Spec => Allowance /\ [](StepsLeft \in Nat) /\ [][ExecutionGoesOn]_vars
<1>1. Init => Allowance
  <2> SUFFICES ASSUME Init PROVE Allowance
    OBVIOUS
  <2>1. IInv
    BY Started
  <2>2. request.early \in Nat /\ request.body \in Nat /\ Output \in Nat
    BY <2>1, Counts, Sizes DEF IInv
  <2>3. Len(ring) = request.early
    BY <2>2, SpanFromStart DEF Init
  <2>4. pc = "begin" /\ Len(sock) = 0 /\ Len(outPipe) = 0 /\ produced = 0 /\ arrived = request.early
    BY EmptySeq DEF Init
  <2>5. Writing = 0 /\ Place = 11
    BY <2>4, Places DEF Writing
  <2>6. BytesLeft = 4 * (request.body - request.early) + request.early + 2 * Output
    <3>1. BytesLeft = 4 * (request.body - request.early) + 4 * 0 + request.early + 0
                        + 2 * (Output - 0) + 2 * 0
      BY <2>3, <2>4, <2>5 DEF BytesLeft, Over
    <3>2. \A b, e, o \in Nat :
            4 * (b - e) + 4 * 0 + e + 0 + 2 * (o - 0) + 2 * 0 = 4 * (b - e) + e + 2 * o
      OBVIOUS
    <3> QED
      BY <2>2, <3>1, <3>2
  <2> QED
    BY <2>5, <2>6, Lefts DEF Allowance
<1>2. Init => Planned
  BY DEF Init, Planned
<1>3. IInv => StepsLeft \in Nat
  <2>1. IInv => BytesLeft \in Nat /\ Place \in 0 .. 11
    BY AmountsAre DEF Amounts
  <2>2. \A b \in Nat, p \in 0 .. 11 : b + p \in Nat
    OBVIOUS
  <2> QED
    BY <2>1, <2>2, Lefts
<1>4. ASSUME IInv, IInv', Planned, [Next]_vars PROVE [ExecutionGoesOn]_vars
  <2>1. CameWhole /\ peer = "alive" => ~DiscardForever /\ ~NothingCame
    BY <1>4 DEF Planned, DiscardForever, NothingCame, MoreBody
  <2> QED
    BY <1>4, <2>1, ServerGoesOn, OthersWait DEF ExecutionGoesOn
<1>5. IInv /\ [Next]_vars => IInv'
  BY Inductive
<1> QED
  BY <1>1, <1>2, <1>3, <1>4, <1>5, Started, PlanKept, PTL DEF Spec
=============================================================================
