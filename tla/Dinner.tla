------------------------------- MODULE Dinner -------------------------------
(***************************************************************************)
(* The server: the event table and its epoll set (dn_event.c), the loop of *)
(* the main thread (dinner.c), and the two handlers a connection goes      *)
(* through, DN_AcceptRequest (dn_request.c) and DN_SendResponse            *)
(* (dn_response.c, dn_file.c, the GET part of dn_cgi.c), interleaved with  *)
(* clients that connect, send, read, close and reset when they like.       *)
(*                                                                         *)
(* A handler runs to completion on the main thread, but every recv and     *)
(* send of it meets whatever the client has done meanwhile, so a handler   *)
(* is cut into one action per socket operation.  A loop of the code that   *)
(* goes round without any effect is an action that changes nothing.        *)
(*                                                                         *)
(* A request head is HeadLen pieces and all a client sends fits in the     *)
(* event buffer; a response page is one chunk, a body up to MaxBody.       *)
(***************************************************************************)
EXTENDS Integers, Sequences, FiniteSets

CONSTANTS
  Conns,       \* the connections clients make
  Listener,    \* listenfd
  None,        \* no connection, request or path: zeroed memory
  MaxEvents,   \* DN_MAX_EVENTS
  MaxFds,      \* the connections the process has descriptors for
  Backlog,     \* the second argument of listen
  Paths,       \* the paths clients name
  Absent,      \* those stat does not find
  Executable,  \* those with an x bit
  Requests,    \* what clients ask for
  HeadLen,     \* the pieces of a whole HTTP head
  MaxPieces,   \* bound on the pieces a client sends
  Window,      \* the chunks a socket buffer takes before the client reads
  MaxBody,     \* the chunks of a file, bound on those of a program's output
  Ends,        \* how clients may end a connection: fin, rst
  Failures     \* whether accept, allocations, epoll_ctl, fopen, pipe and vfork
               \* may fail

ASSUME SizesAssumption ==
  /\ MaxEvents \in Nat \ {0}
  /\ {MaxFds, Backlog, MaxPieces, MaxBody} \subseteq Nat
  /\ HeadLen \in Nat \ {0}
  /\ Window \in Nat \ {0}
ASSUME NamesAssumption == Listener \notin Conns /\ None \notin Conns \cup {Listener}
ASSUME RequestsAssumption ==
  /\ None \notin Requests \cup Paths
  /\ Requests \subseteq [method : {"GET", "OTHER"}, path : Paths, query : BOOLEAN]
  /\ \A r \in Requests : r.query => r.path \in Absent \cup Executable
ASSUME SwitchesAssumption == Ends \subseteq {"fin", "rst"} /\ Failures \in BOOLEAN

VARIABLES
  slot,      \* ioevs, the event table; its last entry is the listener's
  epoll,     \* the kernel's interest list
  backlog,   \* connections made and not accepted yet, the first come first
  sock,      \* none, backlog, open or closed, by connection
  request,   \* what the client asks for
  sent,      \* pieces of the request the client has sent
  taken,     \* those the server has received
  peer,      \* what recv and send meet: alive, fin, rst (error pending), gone
  inflight,  \* chunks in the socket buffer, sent and not read by the client
  reply,     \* chunks the server has sent
  pc,        \* loop, or the place in the handler that runs
  cur,       \* the entry whose handler runs, DN_ACCEPT_EVENT if none does
  batch      \* epevs: events reported and not dispatched yet

net    == <<sent, taken, peer, inflight>>
main   == <<pc, cur, batch>>
vars   == <<slot, epoll, backlog, sock, request, net, reply, main>>

DN_ACCEPT_EVENT == MaxEvents
Slots == 0 .. MaxEvents
Fds   == Conns \cup {Listener}

Pages  == {"400", "404", "200", "200CGI"}
Types  == {"SEND400", "SEND404", "SENDFILE", "RUNCGI"}
Chunks == [what : Pages \cup Paths, part : 0 .. MaxBody]

(* A record of the interest list, and of epevs.  The kernel's epoll_event  *)
(* has no fd; here it tells which connection an event was reported for.    *)
Interest(f, i, ev) == [fd |-> f, slot |-> i, events |-> ev]

Event == [status : {"Void", "Inuse"}, events : {"NONE", "IN", "OUT"},
          handler : {"NULL", "AcceptEvent", "AcceptRequest", "SendResponse"},
          fd : Fds \cup {None}, type : Types \cup {"NONE"}, arg : Paths \cup {None}]

ZeroEvent == [status |-> "Void", events |-> "NONE", handler |-> "NULL",
              fd |-> None, type |-> "NONE", arg |-> None]

InitEvent(f, h) == [ZeroEvent EXCEPT !.handler = h, !.fd = f]

(* eventloop up to its loop, after main and startup. *)
Init ==
  /\ slot = [i \in Slots |->
       IF i = DN_ACCEPT_EVENT
       THEN [InitEvent(Listener, "AcceptEvent") EXCEPT !.events = "IN", !.status = "Inuse"]
       ELSE ZeroEvent]
  /\ epoll = {Interest(Listener, DN_ACCEPT_EVENT, "IN")}
  /\ backlog = << >>
  /\ sock = [c \in Conns |-> "none"]
  /\ request = [c \in Conns |-> None]
  /\ sent = [c \in Conns |-> 0]
  /\ taken = [c \in Conns |-> 0]
  /\ peer = [c \in Conns |-> "alive"]
  /\ inflight = [c \in Conns |-> 0]
  /\ reply = [c \in Conns |-> << >>]
  /\ pc = "loop"
  /\ cur = DN_ACCEPT_EVENT
  /\ batch = << >>

-----------------------------------------------------------------------------
(* Clients, and the kernel's TCP between them and the server.              *)

Connected(c) == sock[c] \in {"backlog", "open"}

Connect(c, r) ==
  /\ sock[c] = "none"
  /\ Len(backlog) < Backlog
  /\ sock' = [sock EXCEPT ![c] = "backlog"]
  /\ backlog' = Append(backlog, c)
  /\ request' = [request EXCEPT ![c] = r]
  /\ UNCHANGED <<slot, epoll, net, reply, main>>

SendPiece(c) ==
  /\ Connected(c)
  /\ peer[c] = "alive"
  /\ sent[c] < MaxPieces
  /\ sent' = [sent EXCEPT ![c] = @ + 1]
  /\ UNCHANGED <<slot, epoll, backlog, sock, request, taken, peer, inflight, reply, main>>

(* From now on recv returns 0 when there are no data left. *)
PeerFin(c) ==
  /\ "fin" \in Ends
  /\ Connected(c)
  /\ peer[c] = "alive"
  /\ peer' = [peer EXCEPT ![c] = "fin"]
  /\ UNCHANGED <<slot, epoll, backlog, sock, request, sent, taken, inflight, reply, main>>

(* The first recv after the data returns -1, the later ones 0; a recv      *)
(* after a FIN keeps returning 0.  Every send fails.                       *)
PeerReset(c) ==
  /\ "rst" \in Ends
  /\ Connected(c)
  /\ peer[c] \in {"alive", "fin"}
  /\ peer' = [peer EXCEPT ![c] = IF @ = "alive" THEN "rst" ELSE "gone"]
  /\ inflight' = [inflight EXCEPT ![c] = 0]
  /\ UNCHANGED <<slot, epoll, backlog, sock, request, sent, taken, reply, main>>

PeerRead(c) ==
  /\ inflight[c] > 0
  /\ inflight' = [inflight EXCEPT ![c] = @ - 1]
  /\ UNCHANGED <<slot, epoll, backlog, sock, request, sent, taken, peer, reply, main>>

Client(c) ==
  \/ \E r \in Requests : Connect(c, r)
  \/ SendPiece(c)
  \/ PeerFin(c)
  \/ PeerReset(c)
  \/ PeerRead(c)

-----------------------------------------------------------------------------
(* The main loop.                                                          *)

Readable(c) == sent[c] > taken[c] \/ peer[c] # "alive"
Writable(c) == inflight[c] < Window \/ peer[c] \in {"rst", "gone"}

Ready(x) ==
  \/ x.fd = Listener /\ backlog # << >>
  \/ x.fd \in Conns /\ x.events = "IN" /\ Readable(x.fd)
  \/ x.fd \in Conns /\ x.events = "OUT" /\ Writable(x.fd)

(* evno, the entries epevs has room for, limits what epoll_wait reports. *)
Reported(n) == IF n < MaxEvents THEN n ELSE MaxEvents

(* epoll_wait, level triggered, in whatever order the ready list is.  When *)
(* nothing is ready it times out and the loop goes round.                  *)
WaitEvent ==
  LET ready == {x \in epoll : Ready(x)} IN
  /\ pc = "loop"
  /\ batch = << >>
  /\ \E b \in [1 .. Reported(Cardinality(ready)) -> ready] :
       /\ \A m, n \in DOMAIN b : m # n => b[m] # b[n]
       /\ batch' = b
  /\ UNCHANGED <<slot, epoll, backlog, sock, request, net, reply, pc, cur>>

FirstStep(e) ==
  IF e.handler = "AcceptRequest" THEN "read"
  ELSE IF e.type \in {"SENDFILE", "RUNCGI"} THEN "discard" ELSE "pageDiscard"

(* DN_DispatchEvent for a connection: the handler runs only if the event   *)
(* reported is still the one the entry asks for.                           *)
RunHandler ==
  /\ pc = "loop"
  /\ batch # << >>
  /\ LET x == Head(batch)
         e == slot[x.slot]
     IN  /\ e.handler # "AcceptEvent"
         /\ pc' = IF e.events = x.events THEN FirstStep(e) ELSE "loop"
         /\ cur' = IF e.events = x.events THEN x.slot ELSE cur
  /\ batch' = Tail(batch)
  /\ UNCHANGED <<slot, epoll, backlog, sock, request, net, reply>>

-----------------------------------------------------------------------------
(* DN_AcceptEvent, called by DN_DispatchEvent for the listener, which asks *)
(* for input all the time.                                                 *)

(* A slip of DN_AcceptEvent's search: the status not tested. *)
AnySlots == 0 .. MaxEvents - 1

FreeSlots == {i \in 0 .. MaxEvents - 1 : slot[i].status # "Inuse"}

Lowest(S, i) == i \in S /\ \A j \in S : i <= j

NoFdLeft == Cardinality({c \in Conns : sock[c] = "open"}) >= MaxFds

Accepting ==
  /\ pc = "loop"
  /\ batch # << >>
  /\ slot[Head(batch).slot].handler = "AcceptEvent"
  /\ batch' = Tail(batch)
  /\ backlog # << >>

(* accept fails with EMFILE: the connection stays in the backlog. *)
AcceptFails ==
  /\ Accepting
  /\ NoFdLeft \/ Failures
  /\ UNCHANGED <<slot, epoll, backlog, sock, request, net, reply, pc, cur>>

Accepted(c) ==
  /\ Accepting
  /\ ~NoFdLeft
  /\ c = Head(backlog)
  /\ backlog' = Tail(backlog)
  /\ sock' = [sock EXCEPT ![c] = "open"]
  /\ UNCHANGED <<request, net, reply, pc, cur>>

(* DN_AddEvent registers what e, the event as the caller left it, asks for:*)
(* MOD for an event in use, which must be registered, ADD for another.     *)
AddEvent(i, e, ev) ==
  /\ (e.status = "Inuse") <=> (\E x \in epoll : x.fd = e.fd)
  /\ slot' = [slot EXCEPT ![i] = [e EXCEPT !.events = ev, !.status = "Inuse"]]
  /\ epoll' = {x \in epoll : x.fd # e.fd} \cup {Interest(e.fd, i, ev)}

AcceptEvent(c) ==
  /\ Accepted(c)
  /\ \E i \in FreeSlots :
       /\ Lowest(FreeSlots, i)
       /\ AddEvent(i, InitEvent(c, "AcceptRequest"), "IN")

(* The connections limit is reached: evfd is neither kept nor closed. *)
AcceptLimit(c) ==
  /\ Accepted(c)
  /\ FreeSlots = {}
  /\ UNCHANGED <<slot, epoll>>

(* DN_CreateBuff or EPOLL_CTL_ADD failed: the entry holds the connection,  *)
(* but is Void, and the next accept takes it over.                         *)
AcceptAborted(c) ==
  /\ Failures
  /\ Accepted(c)
  /\ \E i \in FreeSlots, ev \in {"NONE", "IN"} :
       /\ Lowest(FreeSlots, i)
       /\ slot' = [slot EXCEPT ![i] = [InitEvent(c, "AcceptRequest") EXCEPT !.events = ev]]
  /\ UNCHANGED epoll

-----------------------------------------------------------------------------
(* DN_AcceptRequest.                                                       *)

(* Slips of DN_AcceptRequest: the file looked up before the method is      *)
(* known, and the entry left asking for input.                             *)
ClassifyByPath(r) ==
  IF r.path \in Absent THEN "SEND404"
  ELSE IF r.method = "OTHER" THEN "SEND400"
  ELSE IF r.query \/ r.path \in Executable THEN "RUNCGI" ELSE "SENDFILE"
NotRearmed(e, r) == "IN"

Classify(r) ==
  IF r.method = "OTHER" THEN "SEND400"
  ELSE IF r.path \in Absent THEN "SEND404"
  ELSE IF r.query \/ r.path \in Executable THEN "RUNCGI"
  ELSE "SENDFILE"

(* The path is kept only for a file or a program. *)
Argument(r) == IF Classify(r) \in {"SENDFILE", "RUNCGI"} THEN r.path ELSE None

Rearmed(e, r) == "OUT"

Conn == slot[cur].fd

Received == taken' = [taken EXCEPT ![Conn] = sent[Conn]]

(* The head is not whole: the loop goes round, at once and for ever if the *)
(* client sends nothing more.                                              *)
ReadMore ==
  /\ pc = "read"
  /\ peer[Conn] # "rst"
  /\ sent[Conn] < HeadLen
  /\ Received
  /\ UNCHANGED <<slot, epoll, backlog, sock, request, sent, peer, inflight, reply, main>>

(* DN_Sock2Buff met the reset: the handler returns -1, nothing is undone. *)
ReadFails ==
  /\ pc = "read"
  /\ peer[Conn] = "rst"
  /\ Received
  /\ peer' = [peer EXCEPT ![Conn] = "gone"]
  /\ pc' = "loop"
  /\ cur' = DN_ACCEPT_EVENT
  /\ UNCHANGED <<slot, epoll, backlog, sock, request, sent, inflight, reply, batch>>

AcceptRequest ==
  LET r == request[Conn]
      e == [slot[cur] EXCEPT !.type = Classify(r), !.arg = Argument(r),
                             !.handler = "SendResponse"]
  IN
  /\ pc = "read"
  /\ peer[Conn] # "rst"
  /\ sent[Conn] >= HeadLen
  /\ Received
  /\ AddEvent(cur, e, Rearmed(e, r))
  /\ pc' = "loop"
  /\ cur' = DN_ACCEPT_EVENT
  /\ UNCHANGED <<backlog, sock, request, sent, peer, inflight, reply, batch>>

-----------------------------------------------------------------------------
(* DN_SendResponse.                                                        *)

Goto(place) == pc' = place /\ UNCHANGED <<cur, batch>>

(* DN_DiscardRequest: of DN_SendFile or DN_ExecCGI, then of                *)
(* DN_ResponsePage.  It ends only when recv returns -1.                    *)
DiscardRequest ==
  /\ pc \in {"discard", "pageDiscard"}
  /\ peer[Conn] \in {"alive", "rst"}
  /\ Received
  /\ peer' = [peer EXCEPT ![Conn] = IF @ = "rst" THEN "gone" ELSE @]
  /\ Goto(IF pc = "discard" THEN "pageDiscard" ELSE "page")
  /\ UNCHANGED <<slot, epoll, backlog, sock, request, sent, inflight, reply>>

(* recv returns 0, and 0 again. *)
DiscardForever ==
  /\ pc \in {"discard", "pageDiscard"}
  /\ peer[Conn] \in {"fin", "gone"}
  /\ Received
  /\ UNCHANGED <<slot, epoll, backlog, sock, request, sent, peer, inflight, reply, main>>

Send(chunk) ==
  /\ peer[Conn] \in {"alive", "fin"}
  /\ inflight[Conn] < Window
  /\ reply' = [reply EXCEPT ![Conn] = Append(@, chunk)]
  /\ inflight' = [inflight EXCEPT ![Conn] = @ + 1]
  /\ UNCHANGED <<slot, epoll, backlog, sock, request, sent, taken, peer>>

PageOf(type) ==
  CASE type = "SEND400"  -> "400"
    [] type = "SEND404"  -> "404"
    [] type = "SENDFILE" -> "200"
    [] type = "RUNCGI"   -> "200CGI"

HasBody == slot[cur].type \in {"SENDFILE", "RUNCGI"}

ResponsePage ==
  /\ pc = "page"
  /\ Send([what |-> PageOf(slot[cur].type), part |-> 0])
  /\ Goto(IF HasBody THEN "open" ELSE "finish")

Sending(type) == pc = "body" /\ slot[cur].type = type
Opening(type) == pc = "open" /\ slot[cur].type = type

(* fopen *)
OpenFile ==
  /\ Opening("SENDFILE")
  /\ \/ Goto("body")
     \/ Failures /\ Goto("finish")
  /\ UNCHANGED <<slot, epoll, backlog, sock, request, net, reply>>

(* Two pipes and a vfork. *)
RunProgram ==
  /\ Opening("RUNCGI")
  /\ \/ Goto("body")
     \/ Failures /\ Goto("finish")
  /\ UNCHANGED <<slot, epoll, backlog, sock, request, net, reply>>

BodySent == Len(reply[Conn]) - 1

(* A slip of DN_SendFile: the last, short read of the file not sent. *)
LastReadDropped == BodySent >= MaxBody - 1

(* fread has returned less than a cache-ful; the bound for a program. *)
EndOfFile == BodySent = MaxBody

(* DN_Buff2Sock, which goes round while the socket buffer is full. *)
SendBody ==
  /\ pc = "body"
  /\ ~EndOfFile
  /\ Send([what |-> slot[cur].arg, part |-> BodySent + 1])
  /\ UNCHANGED main

EndFile ==
  /\ Sending("SENDFILE")
  /\ EndOfFile
  /\ Goto("finish")
  /\ UNCHANGED <<slot, epoll, backlog, sock, request, net, reply>>

(* A program ends its output when it likes. *)
EndProgram ==
  /\ Sending("RUNCGI")
  /\ Goto("finish")
  /\ UNCHANGED <<slot, epoll, backlog, sock, request, net, reply>>

(* DN_ResponsePage and DN_Buff2Sock return -1. *)
SendFails ==
  /\ pc \in {"page", "body"}
  /\ peer[Conn] \in {"rst", "gone"}
  /\ peer' = [peer EXCEPT ![Conn] = "gone"]
  /\ Goto("finish")
  /\ UNCHANGED <<slot, epoll, backlog, sock, request, sent, taken, inflight, reply>>

DelEvent(i) == epoll' = {x \in epoll : x.fd # slot[i].fd}

(* What is in flight is the kernel's from now on. *)
DestoryEvent(i) ==
  /\ slot' = [slot EXCEPT ![i] = ZeroEvent]
  /\ sock' = [sock EXCEPT ![slot[i].fd] = "closed"]
  /\ inflight' = [inflight EXCEPT ![slot[i].fd] = 0]

FinishHttp ==
  /\ pc = "finish"
  /\ DelEvent(cur)
  /\ DestoryEvent(cur)
  /\ pc' = "loop"
  /\ cur' = DN_ACCEPT_EVENT
  /\ UNCHANGED <<backlog, request, sent, taken, peer, reply, batch>>

-----------------------------------------------------------------------------
Server ==
  \/ WaitEvent
  \/ RunHandler
  \/ AcceptFails
  \/ \E c \in Conns : AcceptEvent(c) \/ AcceptLimit(c) \/ AcceptAborted(c)
  \/ ReadMore
  \/ ReadFails
  \/ AcceptRequest
  \/ DiscardRequest
  \/ DiscardForever
  \/ ResponsePage
  \/ OpenFile
  \/ RunProgram
  \/ SendBody
  \/ EndFile
  \/ EndProgram
  \/ SendFails
  \/ FinishHttp

Next == Server \/ \E c \in Conns : Client(c)

Spec == Init /\ [][Next]_vars

(* The main thread is scheduled.  A client that has connected sends the    *)
(* rest of a head and reads what it is sent, unless it has ended the       *)
(* connection.                                                             *)
Fairness ==
  /\ WF_vars(Server)
  /\ \A c \in Conns : WF_vars(PeerRead(c)) /\ WF_vars(SendPiece(c) /\ sent[c] < HeadLen)

FairSpec == Spec /\ Fairness

-----------------------------------------------------------------------------
(* Every value stays in its type; epevs never holds more events than       *)
(* DN_WaitEvent's caller has room for.                                     *)
TypeOK ==
  /\ slot \in [Slots -> Event]
  /\ epoll \subseteq [fd : Fds, slot : Slots, events : {"IN", "OUT"}]
  /\ IsFiniteSet(epoll)
  /\ backlog \in Seq(Conns)
  /\ sock \in [Conns -> {"none", "backlog", "open", "closed"}]
  /\ request \in [Conns -> Requests \cup {None}]
  /\ sent \in [Conns -> 0 .. MaxPieces]
  /\ taken \in [Conns -> 0 .. MaxPieces]
  /\ peer \in [Conns -> {"alive", "fin", "rst", "gone"}]
  /\ inflight \in [Conns -> 0 .. Window]
  /\ reply \in [Conns -> Seq(Chunks)]
  /\ pc \in {"loop", "read", "discard", "pageDiscard", "page", "open", "body", "finish"}
  /\ cur \in Slots
  /\ batch \in Seq([fd : Fds, slot : Slots, events : {"IN", "OUT"}])
  /\ Len(batch) <= MaxEvents

InUse(i) == slot[i].status = "Inuse"
Serving(c) == \E i \in 0 .. MaxEvents - 1 : InUse(i) /\ slot[i].fd = c

(* The event table and the kernel's interest list say the same: an entry   *)
(* in use is registered for what it waits for, under a descriptor that is  *)
(* open and that no other entry owns, and nothing else is registered.      *)
EpollAgrees ==
  /\ \A i \in Slots : InUse(i) => Interest(slot[i].fd, i, slot[i].events) \in epoll
  /\ \A x \in epoll : InUse(x.slot) /\ slot[x.slot].fd = x.fd /\ slot[x.slot].events = x.events
  /\ \A i, j \in Slots : InUse(i) /\ InUse(j) /\ slot[i].fd = slot[j].fd => i = j
  /\ \A i \in Slots : InUse(i) /\ slot[i].fd # Listener => sock[slot[i].fd] = "open"

(* An event still to be dispatched is for the connection, and for the      *)
(* readiness, it was reported for, whatever the handlers dispatched before *)
(* it have closed, accepted or re-armed: the test of DN_DispatchEvent      *)
(* never fails, and no handler runs for a connection that took over the    *)
(* entry of another.                                                       *)
BatchFresh ==
  /\ \A n \in DOMAIN batch : batch[n] \in epoll
  /\ \A m, n \in DOMAIN batch : batch[m].slot = batch[n].slot => m = n
  /\ pc # "loop" => \A n \in DOMAIN batch : batch[n].slot # cur

Waiting(i) ==
  /\ slot[i] = [InitEvent(slot[i].fd, "AcceptRequest") EXCEPT !.events = "IN", !.status = "Inuse"]
  /\ slot[i].fd \in Conns

Answering(i) ==
  LET r == request[slot[i].fd] IN
  /\ InUse(i)
  /\ slot[i].fd \in Conns
  /\ slot[i].events = "OUT"
  /\ slot[i].handler = "SendResponse"
  /\ slot[i].type = Classify(r)
  /\ slot[i].arg = Argument(r)

(* An entry is the listener's, or void, or waits for the request of its    *)
(* connection with nothing of an earlier one left in it, or answers that   *)
(* very request; and the code that runs is that of its handler.            *)
HandlerState ==
  /\ slot[DN_ACCEPT_EVENT] =
       [InitEvent(Listener, "AcceptEvent") EXCEPT !.events = "IN", !.status = "Inuse"]
  /\ \A i \in 0 .. MaxEvents - 1 :
       \/ slot[i].status = "Void" /\ slot[i].handler # "AcceptEvent"
       \/ Waiting(i)
       \/ Answering(i)
  /\ pc = "loop" <=> cur = DN_ACCEPT_EVENT
  /\ pc = "read" => Waiting(cur)
  /\ pc \notin {"loop", "read"} => Answering(cur)
  /\ pc \in {"discard", "open", "body"} => HasBody

(* What the page of a reply should be, by the request alone. *)
RightPage(r) ==
  IF r.method # "GET" THEN "400"
  ELSE IF r.path \in Absent THEN "404"
  ELSE IF r.path \in Executable THEN "200CGI" ELSE "200"

Whole ==
  [r \in Requests |->
     LET pieces == IF RightPage(r) \in {"400", "404"} THEN 1 ELSE 1 + MaxBody
     IN  [k \in 1 .. pieces |->
            [what |-> IF k = 1 THEN RightPage(r) ELSE r.path, part |-> k - 1]]]

(* Every client gets the pieces of the reply to its own request, in their  *)
(* order and none of another's, although entries and descriptors pass from *)
(* one connection to the next.                                             *)
ReplyMatchesRequest ==
  \A c \in Conns : reply[c] # << >> =>
    /\ Len(reply[c]) <= Len(Whole[request[c]])
    /\ \A k \in DOMAIN reply[c] : reply[c][k] = Whole[request[c]][k]

(* Connections wait in the backlog once each.  Nothing has been sent on a  *)
(* connection, and its socket buffer is empty, until its page: so the      *)
(* page fits, and DN_ResponsePage never meets EAGAIN.                      *)
ReplyState ==
  /\ \A m, n \in DOMAIN backlog : backlog[m] = backlog[n] => m = n
  /\ \A n \in DOMAIN backlog : sock[backlog[n]] = "backlog"
  /\ \A c \in Conns : sock[c] # "none" => request[c] \in Requests
  /\ \A c \in Conns :
       sock[c] = "closed" \/ (pc \in {"open", "body", "finish"} /\ c = Conn)
         \/ (reply[c] = << >> /\ inflight[c] = 0)
  /\ pc \in {"open", "body"} => reply[Conn] # << >>

(* The inductive invariant: every part of it needs the others. *)
IInv ==
  /\ TypeOK
  /\ EpollAgrees
  /\ BatchFresh
  /\ HandlerState
  /\ ReplyState
  /\ ReplyMatchesRequest

(* A connection the server has closed got its whole reply, a program's     *)
(* being whatever the program wrote, unless the client reset it or         *)
(* something failed.                                                       *)
ReplyComplete ==
  \A c \in Conns : sock[c] = "closed" =>
    \/ Failures \/ peer[c] = "gone"
    \/ /\ reply[c] # << >>
       /\ reply[c][1].what = "200" => Len(reply[c]) = Len(Whole[request[c]])

Phase(c) ==
  CASE sock[c] = "none" -> "absent"
    [] sock[c] = "backlog" -> "waiting"
    [] sock[c] = "open" -> IF Serving(c) THEN "served" ELSE "refused"
    [] sock[c] = "closed" -> "done"

Service == INSTANCE HttpService WITH
             phase <- [c \in Conns |-> Phase(c)], line <- backlog,
             NoRequest <- None, Capacity <- MaxEvents

(* The server behaves as the service described without slots and epoll:    *)
(* first come, first served, nobody turned away while a place is free, one *)
(* reply at a time.                                                        *)
ImplementsService == Service!Spec

(* A client that completes its request and reads is answered or turned     *)
(* away, whatever order the events are reported in, as long as no client   *)
(* closes or resets before its reply has ended.                            *)
Answered ==
  \A c \in Conns : sock[c] = "backlog" ~>
    Phase(c) \in {"done", "refused"} \/ \E d \in Conns : peer[d] # "alive"

(* dn_request.c:68, "Return 0 if can not get whole HTTP head.": the        *)
(* handler comes back from a head that never ends.                         *)
AcceptRequestReturns == pc = "read" ~> pc # "read"
=============================================================================
