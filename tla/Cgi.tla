-------------------------------- MODULE Cgi --------------------------------
(***************************************************************************)
(* One execution of a CGI program: DN_ExecCGI (dn_cgi.c) from the request  *)
(* to DN_FinishHttp, beside the program, which reads and writes the two    *)
(* pipes as it likes.  execl succeeds here; what follows when it does not, *)
(* and what one execution leaves for the next, is module Programs.         *)
(*                                                                         *)
(* A byte of the body is its position in the body; a byte of the reply is  *)
(* its position in the reply, the page first and then the output.  A page  *)
(* leaves in one step (module Response has the steps).                     *)
(***************************************************************************)
EXTENDS Streams

CONSTANTS
  Requests,  \* the requests: method, length (of Content-Length, None when
             \* the name is nowhere), body and early, the bytes of the body
             \* that exist and that came with the head, full (the head and
             \* early fill the in buffer exactly) and mark (an end mark of
             \* the head follows the first Content-Length)
  None,
  PageLen,   \* the length of a page
  Buf,       \* the size of the in buffer, of the out buffer and of str
  PipeCap,   \* the bytes a pipe holds
  Output,    \* a bound: the bytes a program writes
  Failures   \* whether calls may fail, and the client may close or reset

ASSUME RequestsAssumption ==
  /\ None \notin Int
  /\ Requests \subseteq [method : {"GET", "POST"}, length : Int \cup {None},
                         body : Nat, early : Nat, full : BOOLEAN, mark : BOOLEAN]
  /\ \A r \in Requests : r.early <= r.body /\ r.early <= Buf
ASSUME SizesAssumption == {PageLen, Buf, PipeCap, Output} \subseteq Nat \ {0}
ASSUME SwitchAssumption == Failures \in BOOLEAN

VARIABLES
  request,    \* info->request, and what the client sends with it
  habit,      \* "any" program, or one that reads CONTENT_LENGTH bytes first
  pc,         \* where DN_ExecCGI is
  ret,        \* what it returns
  contentLen,
  ptr,        \* str: null, interior (into the in buffer) or own (of malloc)
  str,        \* the bytes it holds
  fds,        \* the pipe ends the server has open
  ring,       \* the body in the in buffer
  sock,       \* the body in the socket buffer
  arrived,    \* how much of the body has arrived
  lost,       \* how much of it DN_DiscardRequest has thrown away
  inPipe,     \* the bytes in cgiIn
  outPipe,    \* the bytes in cgiOut
  part,       \* this write to cgiIn has taken some of str
  program,    \* none, runs, reads, writes, quiet (stdout closed), quietReads,
              \* exited, reaped
  input,      \* the bytes the program has read
  produced,   \* how many bytes it has written
  wire,       \* the bytes sent to the client
  peer        \* what recv meets: alive, fin, rst (error pending), gone

server == <<pc, ret, contentLen, ptr, str, fds>>
body   == <<ring, sock, arrived, lost>>
pipes  == <<inPipe, outPipe, part>>
child  == <<program, input, produced>>
client == <<wire, peer>>
given  == <<request, habit>>
vars   == <<given, server, body, pipes, child, client>>

(* DN_AcceptRequest has left the head and the first of the body in the     *)
(* buffer.                                                                 *)
Init ==
  /\ request \in Requests
  /\ habit \in {"any", "length"}
  /\ pc = "begin"
  /\ ret = 1
  /\ contentLen = 0
  /\ ptr = "null"
  /\ str = << >>
  /\ fds = {}
  /\ ring = Span(0, request.early)
  /\ sock = << >>
  /\ arrived = request.early
  /\ lost = 0
  /\ inPipe = << >>
  /\ outPipe = << >>
  /\ part = FALSE
  /\ program = "none"
  /\ input = << >>
  /\ produced = 0
  /\ wire = << >>
  /\ peer = "alive"

-----------------------------------------------------------------------------
(* The client.                                                             *)

SendBody(n) ==
  /\ peer = "alive"
  /\ arrived + n <= request.body
  /\ arrived' = arrived + n
  /\ sock' = sock \o Span(arrived, arrived + n)
  /\ UNCHANGED <<given, server, ring, lost, pipes, child, client>>

ClientFin ==
  /\ Failures
  /\ peer = "alive"
  /\ peer' = "fin"
  /\ UNCHANGED <<given, server, body, pipes, child, wire>>

ClientResets ==
  /\ Failures
  /\ peer \in {"alive", "fin"}
  /\ peer' = IF peer = "alive" THEN "rst" ELSE "gone"
  /\ UNCHANGED <<given, server, body, pipes, child, wire>>

SendRest == \E n \in 1 .. request.body : SendBody(n)
Client == SendRest \/ ClientFin \/ ClientResets

-----------------------------------------------------------------------------
(* The server up to vfork.                                                 *)

(* DN_DiscardRequest reads the socket until recv returns -1: it is empty,  *)
(* or reports the reset.                                                   *)
DiscardRequest ==
  /\ peer \in {"alive", "rst"}
  /\ sock' = << >>
  /\ lost' = lost + Len(sock)
  /\ peer' = IF peer = "rst" THEN "gone" ELSE peer

Return(r) == ret' = r /\ pc' = "finish"

BeginGet ==
  /\ pc = "begin"
  /\ request.method = "GET"
  /\ DiscardRequest
  /\ pc' = "page"
  /\ UNCHANGED <<given, ret, contentLen, ptr, str, fds, ring, arrived, pipes, child, wire>>

(* What atoi makes of it.  In a buffer that is full, the end is the address *)
(* of its first byte again, and no character of the number is looked at.   *)
LengthRead == IF request.full THEN 0 ELSE request.length

(* The head is dropped from the in buffer and str is left at the body.  (A *)
(* full buffer: memmem is given a negative size, and may find the mark.)   *)
BeginPost ==
  /\ pc = "begin"
  /\ request.method = "POST"
  /\ request.length # None
  /\ request.mark
  /\ contentLen' = LengthRead
  /\ ptr' = "interior"
  /\ pc' = "page"
  /\ UNCHANGED <<given, ret, str, fds, body, pipes, child, client>>

(* The character that ended the number, still in ret.  (Any of them stands *)
(* for the others: all that counts is that it is not -1.)                  *)
Character == 48

(* No end mark is found: str is null, and nothing is sent.  A full buffer  *)
(* without the mark may be searched beyond its memory.                     *)
BeginPostNoMark ==
  /\ pc = "begin"
  /\ request.method = "POST"
  /\ request.length # None
  /\ request.full \/ ~request.mark
  /\ contentLen' = LengthRead
  /\ ret' = Character
  /\ pc' \in {"finish"} \cup (IF request.mark \/ ~request.full THEN {} ELSE {"dead"})
  /\ UNCHANGED <<given, ptr, str, fds, body, pipes, child, client>>

(* DN_ResponsePage: the socket is emptied, and the page sent if the client *)
(* is there.                                                               *)
SendPage(failed, next) ==
  /\ DiscardRequest
  /\ IF peer = "rst" THEN Return(failed) /\ UNCHANGED wire
     ELSE /\ wire' = wire \o Span(0, PageLen)
          /\ pc' = next
          /\ UNCHANGED ret
  /\ UNCHANGED <<given, contentLen, ptr, str, fds, ring, arrived, pipes, child>>

(* Without a Content-Length the 400 page is sent, and the handler goes on. *)
BeginPostNoLength ==
  /\ pc = "begin"
  /\ request.method = "POST"
  /\ request.length = None
  /\ SendPage(0, "length")

(* It reads str[0], str being null. *)
ReadNull ==
  /\ pc = "length"
  /\ pc' = "dead"
  /\ UNCHANGED <<given, ret, contentLen, ptr, str, fds, body, pipes, child, client>>

ResponsePage == pc = "page" /\ SendPage(-1, "pipeIn")

(* recv returns 0, and 0 again, when the client has closed. *)
DiscardForever ==
  /\ pc = "page" \/ (pc = "begin" /\ (request.method = "GET" \/ request.length = None))
  /\ peer \in {"fin", "gone"}
  /\ sock' = << >>
  /\ lost' = lost + Len(sock)
  /\ UNCHANGED <<given, server, ring, arrived, pipes, child, client>>

Pipe(at, next, ends) ==
  /\ pc = at
  /\ fds' = fds \cup ends
  /\ pc' = next
  /\ UNCHANGED <<given, ret, contentLen, ptr, str, body, pipes, child, client>>

PipeFails ==
  /\ Failures
  /\ pc \in {"pipeIn", "pipeOut", "fork"}
  /\ Return(-1)
  /\ UNCHANGED <<given, contentLen, ptr, str, fds, body, pipes, child, client>>

(* Slips: cgiOut[1] left open, or cgiIn[0]. *)
ParentClosesIn == {"cgiIn[0]"}
ParentClosesOut == {"cgiOut[1]"}

ParentCloses == {"cgiIn[0]", "cgiOut[1]"}

(* A slip: str still in the in buffer. *)
KeepsStr(p) == p

Allocates(p) == "own"

(* vfork: the parent goes on when execl has run, closes the child's ends   *)
(* and gives str memory of its own.                                        *)
Fork ==
  /\ pc = "fork"
  /\ program' = "runs"
  /\ fds' = fds \ ParentCloses
  /\ ptr' = Allocates(ptr)
  /\ pc' = IF request.method = "POST" THEN "take" ELSE "read"
  /\ UNCHANGED <<given, ret, contentLen, str, body, pipes, input, produced, client>>

(* abort when malloc fails, in DN_ExecCGI or in DN_Sock2Buff and           *)
(* DN_Buff2Sock.                                                           *)
MallocFails ==
  /\ Failures
  /\ pc \in {"take", "more", "read", "relay"}
  /\ pc' = "dead"
  /\ UNCHANGED <<given, ret, contentLen, ptr, str, fds, body, pipes, child, client>>

-----------------------------------------------------------------------------
(* The body.                                                               *)

(* DN_ReadBuff takes all there is in the in buffer. *)
TakeBody ==
  /\ pc = "take"
  /\ str' = ring
  /\ ring' = << >>
  /\ contentLen' = contentLen - Len(ring)
  /\ part' = FALSE
  /\ pc' = "write"
  /\ UNCHANGED <<given, ret, ptr, fds, sock, arrived, lost, inPipe, outPipe, child, client>>

Quiet == program \in {"quiet", "quietReads"}
Gone == program \in {"exited", "reaped"}
InputRead == ~Gone \/ "cgiIn[0]" \in fds

(* A slip: one write, and what it did not take is forgotten. *)
OneWrite(s, n) == << >>

Unwritten(s, n) == SubSeq(s, n + 1, Len(s))

(* write blocks until the pipe has taken everything. *)
WriteBody(n) ==
  /\ pc = "write"
  /\ InputRead
  /\ n \in 1 .. Lesser(Len(str), PipeCap - Len(inPipe))
  /\ inPipe' = inPipe \o SubSeq(str, 1, n)
  /\ str' = Unwritten(str, n)
  /\ part' = TRUE
  /\ UNCHANGED <<given, pc, ret, contentLen, ptr, fds, body, outPipe, child, client>>

(* The program has gone when nothing was written of str: EPIPE. *)
WriteBodyFails ==
  /\ pc = "write"
  /\ str # << >>
  /\ ~InputRead
  /\ ~part
  /\ Return(-1)
  /\ UNCHANGED <<given, contentLen, ptr, str, fds, body, pipes, child, client>>

(* It has gone when some was: write returns how much, and the handler,     *)
(* which tests for -1 only, goes on without the rest.                      *)
WriteBodyCut ==
  /\ pc = "write"
  /\ str # << >>
  /\ ~InputRead
  /\ part
  /\ str' = << >>
  /\ UNCHANGED <<given, pc, ret, contentLen, ptr, fds, body, pipes, child, client>>


BodyRemains(n) == n > 0

BodyWritten ==
  /\ pc = "write"
  /\ str = << >>
  /\ pc' = IF BodyRemains(contentLen) THEN "more" ELSE "read"
  /\ UNCHANGED <<given, ret, contentLen, ptr, str, fds, body, pipes, child, client>>

(* DN_Sock2Buff meets a reset when it has read all that had come before.   *)
MeetsReset == peer = "rst" /\ Len(sock) < Buf

(* It answers 1 with whatever has come, nothing included. *)
MoreBody ==
  LET n == Lesser(Buf, Len(sock)) IN
  /\ pc = "more"
  /\ ~MeetsReset
  /\ ring' = SubSeq(sock, 1, n)
  /\ sock' = SubSeq(sock, n + 1, Len(sock))
  /\ pc' = "take"
  /\ UNCHANGED <<given, ret, contentLen, ptr, str, fds, arrived, lost, pipes, child, client>>

MoreBodyFails ==
  /\ pc = "more"
  /\ MeetsReset
  /\ peer' = "gone"
  /\ ring' = sock
  /\ sock' = << >>
  /\ Return(-1)
  /\ UNCHANGED <<given, contentLen, ptr, str, fds, arrived, lost, pipes, child, wire>>

-----------------------------------------------------------------------------
(* The output.                                                             *)

Takes(n) == Lesser(Buf, n)

(* read blocks while the pipe is empty and the program has its end. *)
ReadOutput ==
  LET n == Takes(Len(outPipe)) IN
  /\ pc = "read"
  /\ outPipe # << >>
  /\ str' = SubSeq(outPipe, 1, n)
  /\ outPipe' = SubSeq(outPipe, n + 1, Len(outPipe))
  /\ pc' = "relay"
  /\ UNCHANGED <<given, ret, contentLen, ptr, fds, body, inPipe, part, child, client>>

EndOutput ==
  /\ pc = "read"
  /\ outPipe = << >>
  /\ Quiet \/ Gone
  /\ "cgiOut[1]" \notin fds
  /\ pc' = "wait"
  /\ UNCHANGED <<given, ret, contentLen, ptr, str, fds, body, pipes, child, client>>

(* A slip: strLen bytes of str sent, whatever was read. *)
RelayedFull(s) == [k \in 1 .. Buf |-> IF k <= Len(s) THEN s[k] ELSE 0]

Relayed(s) == s

(* DN_WriteBuff and DN_Buff2Sock through the empty out buffer. *)
Relay ==
  /\ pc = "relay"
  /\ peer \in {"alive", "fin"}
  /\ wire' = wire \o Relayed(str)
  /\ str' = << >>
  /\ pc' = "read"
  /\ UNCHANGED <<given, ret, contentLen, ptr, fds, body, pipes, child, peer>>

RelayFails ==
  /\ pc = "relay"
  /\ peer \in {"rst", "gone"}
  /\ Return(-1)
  /\ UNCHANGED <<given, contentLen, ptr, str, fds, body, pipes, child, client>>

WaitPid ==
  /\ pc = "wait"
  /\ program = "exited"
  /\ program' = "reaped"
  /\ pc' = "finish"
  /\ UNCHANGED <<given, ret, contentLen, ptr, str, fds, body, pipes, input, produced, client>>

(* A slip: cgiIn[1] left open. *)
OneClosed == {"cgiOut[0]"}

FinishCloses == {"cgiOut[0]", "cgiIn[1]"}

(* FINISH closes two of the four ends; str is freed wherever it points,    *)
(* and free of an interior pointer aborts or passes.  DN_FinishHttp closes *)
(* the connection.                                                         *)
Finish ==
  /\ pc = "finish"
  /\ fds' = fds \ FinishCloses
  /\ pc' \in {"closed"} \cup (IF ptr = "interior" THEN {"dead"} ELSE {})
  /\ ptr' = "null"
  /\ str' = << >>
  /\ UNCHANGED <<given, ret, contentLen, body, pipes, child, client>>

Server ==
  \/ BeginGet \/ BeginPost \/ BeginPostNoMark \/ BeginPostNoLength \/ ReadNull
  \/ ResponsePage \/ DiscardForever
  \/ Pipe("pipeIn", "pipeOut", {"cgiIn[0]", "cgiIn[1]"})
  \/ Pipe("pipeOut", "fork", {"cgiOut[0]", "cgiOut[1]"})
  \/ Fork
  \/ TakeBody \/ (\E n \in 1 .. PipeCap : WriteBody(n)) \/ WriteBodyFails \/ WriteBodyCut
  \/ BodyWritten \/ MoreBody \/ MoreBodyFails
  \/ ReadOutput \/ EndOutput \/ Relay \/ RelayFails
  \/ WaitPid \/ Finish

-----------------------------------------------------------------------------
(* The program.  It holds both ends of cgiIn, its signals are blocked, and *)
(* a program of the habit "length" reads what it was promised first.       *)

Promised == IF request.method = "POST" THEN LengthRead ELSE 0
HasRead == habit = "length" => Len(input) >= Promised

Chooses(op) ==
  /\ program = "runs"
  /\ op = "reads" /\ habit = "length" => Len(input) < Promised
  /\ op \in {"writes", "quiet", "exited"} => HasRead
  /\ op = "writes" => produced < Output
  /\ program' = op
  /\ UNCHANGED <<given, server, body, pipes, input, produced, client>>

(* Without its standard output it may still read, or exit. *)
ChoosesQuiet(op) ==
  /\ program = "quiet"
  /\ op = "quietReads" => habit = "any"
  /\ program' = op
  /\ UNCHANGED <<given, server, body, pipes, input, produced, client>>

(* read blocks on an empty pipe: the program itself keeps its write end. *)
ReadsInput(n) ==
  /\ program \in {"reads", "quietReads"}
  /\ n \in 1 .. Len(inPipe)
  /\ input' = input \o SubSeq(inPipe, 1, n)
  /\ inPipe' = SubSeq(inPipe, n + 1, Len(inPipe))
  /\ program' = IF program = "reads" THEN "runs" ELSE "quiet"
  /\ UNCHANGED <<given, server, body, outPipe, part, produced, client>>

WritesOutput ==
  /\ program = "writes"
  /\ "cgiOut[0]" \in fds
  /\ Len(outPipe) < PipeCap
  /\ produced' = produced + 1
  /\ outPipe' = Append(outPipe, PageLen + produced')
  /\ program' = "runs"
  /\ UNCHANGED <<given, server, body, inPipe, part, input, client>>

(* EPIPE. *)
WriteRefused ==
  /\ program = "writes"
  /\ "cgiOut[0]" \notin fds
  /\ program' = "runs"
  /\ UNCHANGED <<given, server, body, pipes, input, produced, client>>

Program ==
  \/ \E op \in {"reads", "writes", "quiet", "exited"} : Chooses(op)
  \/ \E op \in {"quietReads", "exited"} : ChoosesQuiet(op)
  \/ \E n \in 1 .. PipeCap : ReadsInput(n)
  \/ WritesOutput \/ WriteRefused

Next == Server \/ MallocFails \/ PipeFails \/ Program \/ Client

Spec == Init /\ [][Next]_vars

(* The server and the program are scheduled, and the client sends its body. *)
FairSpec == Spec /\ WF_vars(Server) /\ WF_vars(Program) /\ WF_vars(SendRest)

-----------------------------------------------------------------------------
(* Every value stays in its type, and neither a pipe nor str is overrun. *)
TypeOK ==
  /\ request \in Requests /\ habit \in {"any", "length"}
  /\ pc \in {"begin", "length", "page", "pipeIn", "pipeOut", "fork", "take", "write", "more",
             "read", "relay", "wait", "finish", "closed", "dead"}
  /\ ret \in {-1, 0, 1, Character}
  /\ contentLen \in Int
  /\ ptr \in {"null", "interior", "own"}
  /\ fds \subseteq {"cgiIn[0]", "cgiIn[1]", "cgiOut[0]", "cgiOut[1]"}
  /\ str \in Seq(Nat) /\ ring \in Seq(Nat) /\ sock \in Seq(Nat)
  /\ inPipe \in Seq(Nat) /\ outPipe \in Seq(Nat)
  /\ input \in Seq(Nat) /\ wire \in Seq(Nat)
  /\ Len(str) <= Buf
  /\ Len(inPipe) <= PipeCap /\ Len(outPipe) <= PipeCap
  /\ arrived \in 0 .. request.body
  /\ lost \in Nat
  /\ part \in BOOLEAN
  /\ program \in {"none", "runs", "reads", "writes", "quiet", "quietReads", "exited",
                  "reaped"}
  /\ produced \in 0 .. Output
  /\ peer \in {"alive", "fin", "rst", "gone"}

(* All of the body that was not thrown away. *)
Kept == Span(0, request.early) \o Span(request.early + lost, arrived)

(* What of it DN_ReadBuff has taken out of the in buffer. *)
Taken == arrived - lost - Len(sock) - Len(ring)

(* The program reads the body in its order and from its beginning.  Only   *)
(* what was in the socket when DN_DiscardRequest ran is missing, and it is *)
(* missing in one piece: between what came with the head and the rest.     *)
(* When the server goes for more it asks for what has not come yet of the  *)
(* length it was told, so that it stops at that length, and not before.    *)
BodyConserved ==
  /\ InputRead /\ pc \notin {"finish", "closed", "dead"} =>
       input \o inPipe \o (IF pc = "write" THEN str ELSE << >>) \o ring \o sock = Kept
  /\ Begins(input \o inPipe, Kept)
  /\ pc = "more" => contentLen = LengthRead - Taken /\ contentLen > 0
  /\ pc \in {"read", "relay", "wait"} /\ request.method = "POST" => Taken >= LengthRead

(* The client gets the page and then the output, in its order: what has    *)
(* been sent, what is being relayed and what the pipe holds make up the    *)
(* reply.                                                                  *)
OutputConserved ==
  program # "none" /\ pc \notin {"finish", "closed", "dead"} =>
    wire \o (IF pc = "relay" THEN str ELSE << >>) \o outPipe = Span(0, PageLen + produced)

(* An execution that returns 1 has sent all the program wrote, has waited  *)
(* for its end and leaves no descriptor.  No other has waited for its      *)
(* program, and descriptors are left only when pipe or vfork failed, so    *)
(* that no program has run.                                                *)
ReturnIsClean ==
  pc = "closed" =>
    /\ ret = 1 => /\ program = "reaped"
                  /\ fds = {}
                  /\ wire = Span(0, PageLen + produced)
    /\ ret # 1 => program # "reaped"
    /\ program # "none" => fds = {}
    /\ fds # {} => "cgiIn[0]" \in fds /\ Failures

(* The server dies only on a POST that names no length, on one whose page, *)
(* pipes or vfork fail, or when memory ends.                               *)
DiesOnly ==
  pc = "dead" => \/ request.method = "POST" /\ program = "none"
                 \/ Failures /\ ptr = "own"

(* The calls that block: write on a full pipe somebody reads, read of an   *)
(* empty pipe the program has its end of, waitpid.                         *)
ServerWaits ==
  \/ pc = "write" /\ str # << >> /\ InputRead /\ Len(inPipe) = PipeCap
  \/ pc = "read" /\ outPipe = << >> /\ program \in {"runs", "reads", "writes"}
  \/ pc = "wait" /\ program # "exited"

(* There is no program, or it is in such a call. *)
ProgramWaits ==
  \/ program = "none" \/ Gone
  \/ program \in {"reads", "quietReads"} /\ inPipe = << >>
  \/ program = "writes" /\ "cgiOut[0]" \in fds /\ Len(outPipe) = PipeCap

BothFull ==
  /\ pc = "write" /\ program = "writes"
  /\ Len(inPipe) = PipeCap /\ Len(outPipe) = PipeCap
AwaitsEnd ==
  /\ inPipe = << >>
  /\ (pc = "read" /\ program = "reads") \/ (pc = "wait" /\ program = "quietReads")

(* The two ways the server and the program can wait for each other for     *)
(* ever: both pipes are full, the server writing the body and the program  *)
(* its output; or the program waits for the end of an input whose write    *)
(* end it holds itself, while the server waits for its output or its exit. *)
WaitsAreKnown == ServerWaits /\ ProgramWaits => BothFull \/ AwaitsEnd

(* Nothing else holds either of them up: an execution that is not over is  *)
(* in one of these calls or can go on, and so is the program.              *)
WaitsNowhereElse ==
  /\ pc \notin {"closed", "dead"} /\ ~ENABLED Server => ServerWaits
  /\ ~ENABLED Program => ProgramWaits

Service == INSTANCE Delivery WITH
             source <- Span(0, PageLen + produced),
             failed <- ret # 1 \/ pc = "dead",
             closed <- pc = "closed"
(* The reply is delivered in order, and closed early only by a failure. *)
ImplementsDelivery == Service!Spec

(* All of the body came with the head, in a buffer it does not fill, and   *)
(* is as long as promised at least.                                        *)
CameWhole ==
  request.method = "POST" =>
    /\ request.length # None /\ request.mark /\ ~request.full
    /\ request.length <= request.early /\ request.early = request.body

(* A pipe, vfork or malloc has failed. *)
OutOfResources == Failures /\ (pc = "dead" \/ (pc = "closed" /\ program = "none"))

=============================================================================
