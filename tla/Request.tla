------------------------------- MODULE Request -------------------------------
(***************************************************************************)
(* DN_AcceptRequest (dn_request.c) and DN_Sock2Buff (dn_io.c) on one       *)
(* connection: what the client sends is received piece by piece into the   *)
(* in buffer of the event until it holds the end mark of the HTTP head;    *)
(* then the request line is read out of the buffer and decides what the    *)
(* connection is answered with.  Module Dinner has many connections and    *)
(* heads that always fit; this one has a single connection and a buffer    *)
(* that fills up.                                                          *)
(*                                                                         *)
(* A byte is its position in what the client sends.  The in buffer is the  *)
(* queue of module ByteQueue, which RingBuffer implements.                 *)
(***************************************************************************)
EXTENDS Streams, FiniteSets

CONSTANTS
  Size,         \* the size of the in buffer that is created
  Ask,          \* DN_BUFFER_LEN, what DN_Sock2Buff is asked to read
  None,         \* zeroed memory
  Paths,        \* the files and directories clients name
  Absent,       \* those stat does not find
  Executable,   \* the files with an x bit
  Directories,  \* the directories, which have x bits
  Index,        \* the path of index.html in a directory
  Requests,     \* what clients ask for
  Ends          \* how clients may end a connection: fin, rst

ASSUME SizesAssumption == Ask \in Nat \ {0} /\ Size \in Nat /\ Ask <= Size
ASSUME FilesAssumption ==
  /\ Absent \cup Executable \cup Directories \subseteq Paths
  /\ Index \in [Directories -> Paths \ Directories]
  /\ None \notin Paths

(* line bytes end with the url, head bytes with the end mark, and all the  *)
(* client sends are total bytes.  A slash ends the url of a directory.     *)
(* long says what does not fit the arrays on the stack: the method         *)
(* request[16], the name path[MAXPATHLEN], or only its index.html.         *)
ASSUME RequestsAssumption ==
  \A r \in Requests :
    /\ r.method \in {"GET", "POST", "OTHER"}
    /\ r.path \in Paths
    /\ {r.query, r.slash} \subseteq BOOLEAN
    /\ r.slash => r.path \in Directories
    /\ r.long \in {"none", "method", "path", "index"}
    /\ r.long = "index" => r.path \in Directories
    /\ {r.line, r.head, r.total} \subseteq Nat \ {0}
    /\ r.line < r.head
    /\ r.head <= r.total
ASSUME EndsAssumption == Ends \subseteq {"fin", "rst"}

VARIABLES
  req,     \* what the client asks for
  sent,    \* bytes the client has sent
  taken,   \* those recv has returned
  peer,    \* what recv meets: alive, fin, rst (error pending), gone
  cap,     \* stat.size of the in buffer
  queue,   \* the bytes in it
  wrote,   \* what the last call of DN_WriteBuff or DN_ReadBuff answered
  remain,  \* sizeRemain of DN_Sock2Buff
  pc,      \* loop (the main loop), recv (DN_Sock2Buff), test, or dead
  entry,   \* handler, events, info.type and info.arg of the event
  lost     \* history: the bytes received and not kept

client == <<req, sent, peer>>
buffer == <<cap, queue, wrote>>
vars   == <<client, taken, buffer, remain, pc, entry, lost>>

In == INSTANCE ByteQueue WITH
        Byte <- Nat, Capacity <- Size, Chunks <- {}, reply <- wrote

Waiting == [handler |-> "AcceptRequest", events |-> "IN", type |-> "NONE", arg |-> None]

Init ==
  /\ req \in Requests
  /\ sent = 0
  /\ taken = 0
  /\ peer = "alive"
  /\ cap = Size
  /\ queue = << >>
  /\ wrote = In!Answer(1, 0, << >>)
  /\ remain = 0
  /\ pc = "loop"
  /\ entry = Waiting
  /\ lost = {}

-----------------------------------------------------------------------------
(* The client, and TCP.                                                    *)

SendBytes(n) ==
  /\ peer = "alive"
  /\ sent + n <= req.total
  /\ sent' = sent + n
  /\ UNCHANGED <<req, peer, taken, buffer, remain, pc, entry, lost>>

PeerFin ==
  /\ "fin" \in Ends
  /\ peer = "alive"
  /\ peer' = "fin"
  /\ UNCHANGED <<req, sent, taken, buffer, remain, pc, entry, lost>>

PeerReset ==
  /\ "rst" \in Ends
  /\ peer \in {"alive", "fin"}
  /\ peer' = IF peer = "alive" THEN "rst" ELSE "gone"
  /\ UNCHANGED <<req, sent, taken, buffer, remain, pc, entry, lost>>

Client == (\E n \in 1 .. req.total : SendBytes(n)) \/ PeerFin \/ PeerReset

-----------------------------------------------------------------------------
(* DN_Sock2Buff.                                                           *)

(* EPOLLIN: DN_DispatchEvent calls DN_AcceptRequest. *)
Dispatch ==
  /\ pc = "loop"
  /\ entry.events = "IN"
  /\ sent > taken \/ peer # "alive"
  /\ pc' = "recv"
  /\ remain' = Ask
  /\ UNCHANGED <<client, taken, buffer, entry, lost>>

(* What recv returns: all there is, up to the size it is given. *)
Received == Lesser(remain, sent - taken)

(* recv returns bytes, and DN_WriteBuff keeps those it has room for; a     *)
(* full buffer refuses them and leaves dataLen as it was.                  *)
Recv ==
  LET n     == Received
      d     == Span(taken, taken + n)
      short == wrote'.size < n
      kept  == Len(queue') - Len(queue)
  IN
  /\ pc = "recv"
  /\ n > 0
  /\ taken' = taken + n
  /\ remain' = remain - n
  /\ In!PutRefused(d) \/ In!Put(d)
  /\ lost' = lost \cup {d[k] : k \in kept + 1 .. n}
  /\ pc' = IF short THEN "loop" ELSE IF remain' > 0 THEN "recv" ELSE "test"
  /\ UNCHANGED <<client, entry>>

(* recv returns 0, or -1 for want of data: DN_Sock2Buff returns 1. *)
RecvNothing ==
  /\ pc = "recv"
  /\ sent = taken
  /\ peer # "rst"
  /\ pc' = "test"
  /\ UNCHANGED <<client, taken, buffer, remain, entry, lost>>

(* The reset is reported once: DN_Sock2Buff and the handler return -1. *)
RecvFails ==
  /\ pc = "recv"
  /\ sent = taken
  /\ peer = "rst"
  /\ peer' = "gone"
  /\ pc' = "loop"
  /\ UNCHANGED <<req, sent, taken, buffer, remain, entry, lost>>

-----------------------------------------------------------------------------
(* The rest of DN_AcceptRequest.                                           *)

(* Slips: the head taken for whole when the request line is, and the end   *)
(* mark looked for in the newest bytes only.                               *)
LineFound == \E k \in DOMAIN queue : queue[k] = req.line
HeadFoundLast == queue # << >> /\ queue[Len(queue)] = req.head

(* memmem finds the end mark. *)
HeadFound == \E k \in DOMAIN queue : queue[k] = req.head

(* The test of line 115 is for a 0 that DN_Sock2Buff does not return. *)
ReadMore ==
  /\ pc = "test"
  /\ ~HeadFound
  /\ pc' = "recv"
  /\ remain' = Ask
  /\ UNCHANGED <<client, taken, buffer, entry, lost>>

(* A slip: "index.html" not put after a url that ends in a slash. *)
StattedAsNamed(r) == r.path

(* The path stat is asked for.  What follows a '?' is cut off for GET only.*)
Statted(r) == IF r.slash THEN Index[r.path] ELSE r.path

(* No file has a query in its name, and stat takes no name that is longer. *)
NotFound(r) ==
  \/ r.method = "POST" /\ r.query
  \/ Statted(r) \in Absent
  \/ r.long = "path" \/ (r.long = "index" /\ r.slash)

(* The mode tested is that of what stat found: of a directory its own,     *)
(* although "/index.html" has been put after its path by then.             *)
RunsProgram(r) ==
  r.method = "POST" \/ r.query \/ Statted(r) \in Executable \cup Directories

Response(r) ==
  IF r.method = "OTHER" THEN [type |-> "SEND400", arg |-> None]
  ELSE IF NotFound(r) THEN [type |-> "SEND404", arg |-> None]
  ELSE [type |-> IF RunsProgram(r) THEN "RUNCGI" ELSE "SENDFILE",
        arg  |-> IF Statted(r) \in Directories THEN Index[Statted(r)] ELSE Statted(r)]

(* A slip: the line looked at and left in the buffer. *)
ReadNothing(r) == 0

(* Method, space and url are read out of the buffer, nothing else. *)
LineRead(r) == r.line

(* The method is copied into request whatever its length; strncpy leaves a *)
(* path as long as its array without an end; strncat is given the size of  *)
(* the array for what it adds, before stat or to the name of a directory.  *)
Overruns(r) ==
  \/ r.long = "method"
  \/ r.method # "OTHER" /\ r.long = "path"
  \/ /\ r.method # "OTHER" /\ r.long = "index"
     /\ IF r.slash THEN ~(r.method = "POST" /\ r.query) ELSE ~NotFound(r)

(* The stack is overrun, which may end the process, or hit nothing that is *)
(* read again (AcceptRequest).                                             *)
AcceptRequestDies ==
  /\ pc = "test"
  /\ HeadFound
  /\ Overruns(req)
  /\ pc' = "dead"
  /\ UNCHANGED <<client, taken, buffer, remain, entry, lost>>

AcceptRequest ==
  LET a == Response(req) IN
  /\ pc = "test"
  /\ HeadFound
  /\ In!Get(LineRead(req))
  /\ entry' = [handler |-> "SendResponse", events |-> "OUT", type |-> a.type, arg |-> a.arg]
  /\ pc' = "loop"
  /\ UNCHANGED <<client, taken, remain, lost>>

Server ==
  \/ Dispatch \/ Recv \/ RecvNothing \/ RecvFails \/ ReadMore
  \/ AcceptRequest \/ AcceptRequestDies

(* epoll_wait reports nothing that concerns this handler, or never will. *)
WaitEvent == pc \in {"loop", "dead"} /\ UNCHANGED vars

Next == Server \/ Client \/ WaitEvent

Spec == Init /\ [][Next]_vars

(* The main thread is scheduled, and the client sends what it has to send. *)
FairSpec == Spec /\ WF_vars(Server) /\ WF_vars(\E n \in 1 .. req.total : SendBytes(n))

-----------------------------------------------------------------------------
(* Modules Response and Cgi take over from here. *)
Answered == entry.handler = "SendResponse"

Consumed == IF Answered THEN req.line ELSE 0

(* Every value stays in its type; DN_Sock2Buff never calls recv for no     *)
(* bytes, and the in buffer never holds more than its size.                *)
TypeOK ==
  /\ req \in Requests
  /\ sent \in 0 .. req.total
  /\ taken \in 0 .. sent
  /\ peer \in {"alive", "fin", "rst", "gone"}
  /\ cap = Size
  /\ queue \in Seq(Nat)
  /\ Len(queue) <= Size
  /\ wrote \in [ret : {-1, 0, 1}, size : Nat, data : Seq(Nat)]
  /\ remain \in 0 .. Ask
  /\ pc = "recv" => remain > 0
  /\ pc \in {"loop", "recv", "test", "dead"}
  /\ entry \in [handler : {"AcceptRequest", "SendResponse"}, events : {"IN", "OUT"},
                type : {"NONE", "SEND400", "SEND404", "SENDFILE", "RUNCGI"},
                arg : Paths \cup {None}]
  /\ lost \subseteq 1 .. taken

(* However the request is cut into pieces, and however often the handler   *)
(* gives up and is called again, the in buffer holds the beginning of what *)
(* the client sent, without a gap: from its first byte while the head is   *)
(* read (dn_request.c:106, "begin is always 0"), from the end of the url   *)
(* when the response is sent.  Only what a full buffer has no room for is  *)
(* lost.                                                                   *)
HeldIsStream ==
  /\ queue = Span(Consumed, Consumed + Len(queue))
  /\ lost = Consumed + Len(queue) + 1 .. taken
  /\ lost # {} => Consumed + Len(queue) = Size

(* A connection is answered once its whole head is in the buffer, where    *)
(* DN_ExecCGI looks for Content-Length and the end mark, and in the way    *)
(* its own request line says.                                              *)
AnsweredWhole ==
  Answered =>
    /\ entry = [handler |-> "SendResponse", events |-> "OUT",
                type |-> Response(req).type, arg |-> Response(req).arg]
    /\ \A p \in req.line + 1 .. req.head : \E k \in DOMAIN queue : queue[k] = p
    /\ pc = "loop"

(* Without a query, GET runs only files with an x bit, but for one case:   *)
(* the index file of a directory named without its slash, whose own mode   *)
(* is not looked at.                                                       *)
GetRunsExecutables ==
  entry.type = "RUNCGI" /\ req.method = "GET" /\ ~req.query
    => entry.arg \in Executable \/ (req.path \in Directories /\ ~req.slash)

(* dn_request.c:105, "Continue reading untill we read whole HTTP request   *)
(* head": a client that has sent all it has to send is answered, if the    *)
(* buffer has room for all of it and the stack for its method and path;    *)
(* when a body that comes along overfills the buffer, DN_Sock2Buff returns *)
(* -1 and the head is not looked at, and a method of more than 16 bytes or *)
(* a path of MAXPATHLEN may end the process (dn_request.c:131, 206).       *)
HeadRead == (sent = req.total /\ req.total <= Size /\ ~Overruns(req)) ~> Answered
=============================================================================
