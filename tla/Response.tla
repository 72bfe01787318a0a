------------------------------ MODULE Response ------------------------------
(***************************************************************************)
(* The bytes of a response on their way out: DN_ResponsePage               *)
(* (dn_response.c), DN_SendFile (dn_file.c) and DN_Buff2Sock (dn_io.c),    *)
(* as DN_SendResponse calls them for a file, or for a page alone.  A file  *)
(* passes through the cache of DN_SendFile, the out buffer of the event,   *)
(* the cache of DN_Buff2Sock and the socket buffer, in pieces of which     *)
(* none need be whole.                                                     *)
(*                                                                         *)
(* A byte is its position in the reply, the page first and then the file;  *)
(* positions below 1 are memory before the page.  What the handler throws  *)
(* away of the request (DN_DiscardRequest) is in module Dinner.            *)
(***************************************************************************)
EXTENDS Streams

CONSTANTS
  PageLen,   \* the length of the page, or of the header of a file
  FileLens,  \* lengths of the files asked for; -1 stands for a page alone
  Cache,     \* the size of the cache of DN_SendFile
  Size,      \* the size of the out buffer that is created
  Window,    \* the bytes a socket buffer takes before the client reads
  Refusals,  \* a bound: how far EAGAIN takes the page back before its start
  Failures   \* whether fopen and fread may fail, and the client may reset

ASSUME SizesAssumption ==
  /\ {PageLen, Cache, Size, Window} \subseteq Nat \ {0}
  /\ Cache <= Size
  /\ FileLens \subseteq Nat \cup {-1}
(* A page fits in an empty socket buffer. *)
ASSUME PageAssumption == PageLen <= Window
ASSUME SwitchAssumption == Failures \in BOOLEAN /\ Refusals \in Nat

VARIABLES
  file,      \* the length of the file, -1 for a page alone
  pressure,  \* whether the kernel may be short of memory for the bytes
  pc,        \* page, open, read, write, buff, send, finish or closed
  pos,       \* pos of DN_ResponsePage
  dataLen,   \* dataLen of DN_ResponsePage
  offset,    \* how far the file has been read
  cache,     \* the bytes of the last fread
  len,       \* len of DN_SendFile, the bytes of the cache still to write
  again,     \* again of DN_SendFile
  cap,       \* stat.size of the out buffer
  queue,     \* the bytes in it
  wrote,     \* what the last call of DN_WriteBuff or DN_ReadBuff answered
  writeLen,  \* writeLen of DN_SendFile
  current,   \* what DN_Buff2Sock has still to send
  ret,       \* the value DN_SendFile or DN_ResponsePage has returned
  wire,      \* the bytes sent
  inflight,  \* how many of them the client has not read
  reset,     \* the client has reset the connection
  unopened,  \* fopen has failed
  misread    \* fread has failed: the file was read no further

page    == <<pos, dataLen>>
reading == <<offset, cache, again>>
buffer  == <<cap, queue, wrote>>
loops   == <<len, writeLen, current>>
socket  == <<wire, inflight>>
faults  == <<reset, unopened, misread>>
request == <<file, pressure>>
vars    == <<request, pc, page, reading, buffer, loops, ret, socket, faults>>

Out == INSTANCE ByteQueue WITH
         Byte <- Nat, Capacity <- Size, Chunks <- {}, reply <- wrote

(* pos is 0 and dataLen the page's length before the first send. *)
Init ==
  /\ file \in FileLens
  /\ pressure \in BOOLEAN
  /\ pc = "page"
  /\ pos = 0
  /\ dataLen = PageLen
  /\ offset = 0
  /\ cache = << >>
  /\ again = TRUE
  /\ cap = Size
  /\ queue = << >>
  /\ wrote = Out!Answer(1, 0, << >>)
  /\ len = 0
  /\ writeLen = 0
  /\ current = << >>
  /\ ret = 0
  /\ wire = << >>
  /\ inflight = 0
  /\ reset = FALSE
  /\ unopened = FALSE
  /\ misread = FALSE

-----------------------------------------------------------------------------
(* The client, and the socket buffer.                                      *)

PeerRead(n) ==
  /\ inflight' = inflight - n
  /\ inflight' >= 0
  /\ UNCHANGED <<request, pc, page, reading, buffer, loops, ret, wire, faults>>

PeerReset ==
  /\ Failures
  /\ pc # "closed"
  /\ reset' = TRUE
  /\ inflight' = 0
  /\ UNCHANGED <<request, pc, page, reading, buffer, loops, ret, wire, unopened, misread>>

Client == (\E n \in 1 .. Window : PeerRead(n)) \/ PeerReset

(* send takes the first n of the bytes d: all there is room for, or fewer  *)
(* when memory is short.                                                   *)
Send(d, n) ==
  /\ ~reset
  /\ n \in 1 .. Lesser(Len(d), Window - inflight)
  /\ pressure \/ n = Lesser(Len(d), Window - inflight)
  /\ wire' = wire \o SubSeq(d, 1, n)
  /\ inflight' = inflight + n

(* send returns -1 with EAGAIN. *)
Refused == ~reset /\ (pressure \/ inflight = Window)

-----------------------------------------------------------------------------
(* DN_ResponsePage.                                                        *)

PageBytes == Span(pos, pos + dataLen)

Advance(n) == pos' = pos + n /\ dataLen' = PageLen - (pos + n)

(* The bounds on refusals, of which the code has none: Refusals bytes      *)
(* before the page, and none once as many bytes as the page's are sent.    *)
RefusalBound == pos > -Refusals /\ Len(wire) < PageLen

SendPage(n) ==
  /\ pc = "page"
  /\ Send(PageBytes, n)
  /\ Advance(n)
  /\ IF dataLen' >= 1 THEN UNCHANGED <<pc, ret>>
     ELSE IF file = -1 THEN pc' = "finish" /\ ret' = 1
     ELSE pc' = "open" /\ UNCHANGED ret
  /\ UNCHANGED <<request, reading, buffer, loops, faults>>

(* pos += len, len being -1. *)
PageAgain ==
  /\ pc = "page"
  /\ Refused
  /\ RefusalBound
  /\ Advance(-1)
  /\ UNCHANGED <<request, pc, reading, buffer, loops, ret, socket, faults>>

PageFails ==
  /\ pc = "page"
  /\ reset
  /\ pc' = "finish"
  /\ ret' = -1
  /\ UNCHANGED <<request, page, reading, buffer, loops, socket, faults>>

-----------------------------------------------------------------------------
(* DN_SendFile.                                                            *)

(* stat.end is set to 0, and begin is 0 by then. *)
OpenFile ==
  /\ pc = "open"
  /\ queue' = << >>
  /\ again' = TRUE
  /\ pc' = "read"
  /\ UNCHANGED <<request, page, offset, cache, cap, wrote, loops, ret, socket, faults>>

OpenFails ==
  /\ Failures
  /\ pc = "open"
  /\ unopened' = TRUE
  /\ pc' = "finish"
  /\ ret' = -1
  /\ UNCHANGED <<request, page, reading, buffer, loops, socket, reset, misread>>

(* A slip: the loop ended by a read that fills the cache. *)
FullRead(n) == FALSE

(* A read that fills the cache is followed by another. *)
MoreToRead(n) == n = Cache

(* fread returns n bytes: a full cache, or all that is left.  Fewer when   *)
(* reading fails, which DN_SendFile takes for the end of the file.         *)
ReadFile(n) ==
  LET left == Lesser(Cache, file - offset) IN
  /\ pc = "read"
  /\ again
  /\ n <= left
  /\ n = left \/ Failures
  /\ misread' = (misread \/ n < left)
  /\ cache' = Span(PageLen + offset, PageLen + offset + n)
  /\ offset' = offset + n
  /\ again' = MoreToRead(n)
  /\ len' = n
  /\ writeLen' = n
  /\ pc' = "write"
  /\ UNCHANGED <<request, page, buffer, current, ret, socket, reset, unopened>>

EndFile ==
  /\ pc = "read"
  /\ ~again
  /\ pc' = "finish"
  /\ ret' = 1
  /\ UNCHANGED <<request, page, reading, buffer, loops, socket, faults>>

(* DN_WriteBuff takes the first writeLen bytes of the cache, and leaves in *)
(* writeLen what it kept.                                                  *)
WriteOut ==
  LET d == SubSeq(cache, 1, writeLen) IN
  /\ pc = "write"
  /\ Out!PutRefused(d) \/ Out!Put(d)
  /\ writeLen' = wrote'.size
  /\ pc' = "buff"
  /\ UNCHANGED <<request, page, reading, len, current, ret, socket, faults>>

(* A slip: DN_Buff2Sock waits for bytes when it is given none. *)
Buff2SockWaits == pc = "buff" /\ writeLen = 0 /\ UNCHANGED vars

(* DN_Buff2Sock refuses to send nothing. *)
Buff2SockRefuses ==
  /\ pc = "buff"
  /\ writeLen = 0
  /\ pc' = "finish"
  /\ ret' = -1
  /\ UNCHANGED <<request, page, reading, buffer, loops, socket, faults>>

(* A slip: one byte less is asked for. *)
AsksLess(n) == n - 1

(* DN_SendFile asks DN_Buff2Sock for what it has just written. *)
Asks(n) == n

Buff2Sock ==
  /\ pc = "buff"
  /\ writeLen > 0
  /\ Out!Get(Asks(writeLen))
  /\ current' = wrote'.data
  /\ pc' = "send"
  /\ UNCHANGED <<request, page, reading, len, writeLen, ret, socket, faults>>

(* A slip of DN_Buff2Sock: current not moved on after a partial send. *)
NotMovedOn(d, n) == SubSeq(d, 1, Len(d) - n)

Rest(d, n) == SubSeq(d, n + 1, Len(d))

(* When all is sent DN_SendFile writes what is left of the cache, or reads *)
(* on.                                                                     *)
SendSome(n) ==
  /\ pc = "send"
  /\ Send(current, n)
  /\ current' = Rest(current, n)
  /\ IF current' # << >> THEN UNCHANGED <<pc, len, writeLen>>
     ELSE /\ len' = len - writeLen
          /\ writeLen' = len'
          /\ pc' = IF len' = 0 THEN "read" ELSE "write"
  /\ UNCHANGED <<request, page, reading, buffer, ret, faults>>

(* EAGAIN: the loop of DN_Buff2Sock goes round. *)
SendAgain ==
  /\ pc = "send"
  /\ Refused
  /\ UNCHANGED vars

SendFails ==
  /\ pc = "send"
  /\ reset
  /\ pc' = "finish"
  /\ ret' = -1
  /\ UNCHANGED <<request, page, reading, buffer, loops, socket, faults>>

(* DN_SendResponse calls DN_FinishHttp whatever was returned. *)
FinishHttp ==
  /\ pc = "finish"
  /\ pc' = "closed"
  /\ UNCHANGED <<request, page, reading, buffer, loops, ret, socket, faults>>

-----------------------------------------------------------------------------
Server ==
  \/ \E n \in 1 .. Window : SendPage(n) \/ SendSome(n)
  \/ PageAgain \/ PageFails
  \/ OpenFile \/ OpenFails \/ (\E n \in 0 .. Cache : ReadFile(n)) \/ EndFile
  \/ WriteOut \/ Buff2SockRefuses \/ Buff2Sock
  \/ SendAgain \/ SendFails
  \/ FinishHttp

Next == Server \/ Client

Spec == Init /\ [][Next]_vars

(* The main thread is scheduled, and the client reads. *)
FairSpec == Spec /\ WF_vars(Server) /\ WF_vars(\E n \in 1 .. Window : PeerRead(n))

-----------------------------------------------------------------------------
(* Every value stays in its type, and no buffer or window is overrun. *)
TypeOK ==
  /\ file \in FileLens /\ pressure \in BOOLEAN
  /\ pc \in {"page", "open", "read", "write", "buff", "send", "finish", "closed"}
  /\ pos \in -Refusals .. PageLen
  /\ dataLen \in 0 .. PageLen + Refusals
  /\ offset \in Nat
  /\ cache \in Seq(Nat) /\ Len(cache) <= Cache
  /\ len \in 0 .. Cache /\ writeLen \in 0 .. Cache
  /\ again \in BOOLEAN
  /\ cap = Size
  /\ queue \in Seq(Nat) /\ Len(queue) <= Size
  /\ wrote \in [ret : {-1, 0, 1}, size : Nat, data : Seq(Nat)]
  /\ current \in Seq(Nat)
  /\ ret \in {-1, 0, 1}
  /\ wire \in Seq(Int)
  /\ inflight \in 0 .. Window
  /\ {reset, unopened, misread} \subseteq BOOLEAN

FileLen == IF file = -1 THEN 0 ELSE file
Reply == Span(0, PageLen + FileLen)

(* s is the page and n bytes of the file.  When the kernel is short of     *)
(* memory what goes before the file may be anything.                       *)
Whole(s, n) ==
  IF pressure THEN SubSeq(s, Len(s) - n + 1, Len(s)) = Span(PageLen, PageLen + n)
              ELSE s = Span(0, PageLen + n)

(* What the cache still owes the out buffer. *)
Owed == IF pc = "write" THEN SubSeq(cache, 1, writeLen) ELSE << >>

(* Between the file and the connection no byte is lost, doubled or put out *)
(* of order: what has been sent, what DN_Buff2Sock holds, what the out     *)
(* buffer holds and what the cache still owes make up the reply as far as  *)
(* it has been read, whatever the sizes of the pieces.                     *)
Conserved ==
  /\ pc = "page" /\ ~pressure => wire = Span(0, pos)
  /\ pc \in {"open", "read", "write", "buff", "send"} =>
       Whole(wire \o current \o queue \o Owed, offset)

(* Each piece is taken out of the out buffer whole before the next is put  *)
(* in, so that its positions begin at 0 again and never grow past its      *)
(* size (dn_buffer.c:205).                                                 *)
OutDrained == pc # "buff" => queue = << >>

(* The value returned: 1 only after the whole reply, and -1 only after a   *)
(* failure or for a file that ends with a full cache, whose last, empty    *)
(* read DN_Buff2Sock refuses to send.  A read error is reported as neither *)
(* (dn_file.c:76 tests no ferror): the file just ends where it was met.    *)
ReportIsTrue ==
  LET served == Whole(wire, offset) /\ (misread \/ offset = FileLen) IN
  /\ ret = 1 => served
  /\ ret = -1 => reset \/ unopened \/ (offset % Cache = 0 /\ served)

(* The client gets a beginning of the reply, and all of it unless it has   *)
(* reset the connection or the file could not be opened or read.  A kernel *)
(* short of memory breaks the promise: see Advance.                        *)
Service == INSTANCE Delivery WITH
             source <- Reply, failed <- reset \/ unopened \/ misread,
             closed <- pc = "closed"
ImplementsDelivery ==
  /\ pressure \/ Service!Init
  /\ [][pressure \/ Service!Next]_<<wire, reset, unopened, misread, pc>>

(* A client that reads gets its reply to the end: the loops that go round  *)
(* on EAGAIN come to it as long as the kernel has memory for the bytes.    *)
Sent == pressure \/ <>(pc = "closed")
=============================================================================
