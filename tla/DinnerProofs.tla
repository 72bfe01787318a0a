---------------------------- MODULE DinnerProofs ----------------------------
(***************************************************************************)
(* Proofs, for every number of entries, descriptors and connections and    *)
(* every set of requests, that the safety invariants of module Dinner      *)
(* hold (IInv is inductive, one lemma per action; RInv strengthens it for  *)
(* complete replies) and that Dinner implements HttpService.               *)
(***************************************************************************)
EXTENDS Dinner, FiniteSetTheorems, SequenceTheorems, TLAPS

LEMMA InitIInv == Init => IInv
<1> SUFFICES ASSUME Init PROVE IInv
  OBVIOUS
<1> USE SizesAssumption, NamesAssumption DEF Init, Slots, Fds, DN_ACCEPT_EVENT
<1>1. TypeOK
  <2>1. slot \in [Slots -> Event]
    BY DEF Event, ZeroEvent, InitEvent
  <2>2. IsFiniteSet(epoll)
    BY FS_Singleton
  <2>3. epoll \subseteq [fd : Fds, slot : Slots, events : {"IN", "OUT"}]
    BY DEF Interest
  <2> QED
    BY <2>1, <2>2, <2>3 DEF TypeOK, Chunks
<1>2. EpollAgrees
  BY DEF EpollAgrees, InUse, Interest, ZeroEvent, InitEvent
<1>3. BatchFresh
  BY DEF BatchFresh
<1>4. HandlerState
  BY DEF HandlerState, ZeroEvent, InitEvent
<1>5. ReplyState
  BY DEF ReplyState
<1>6. ReplyMatchesRequest
  BY DEF ReplyMatchesRequest
<1> QED
  BY <1>1, <1>2, <1>3, <1>4, <1>5, <1>6 DEF IInv

-----------------------------------------------------------------------------
(* What a part of the invariant does not mention cannot disturb it.        *)

LEMMA EpollFrame ==
  ASSUME EpollAgrees, slot' = slot, epoll' = epoll,
         \A c \in Conns : sock[c] = "open" => sock'[c] = "open",
         \A i \in Slots : slot[i].fd # Listener /\ InUse(i) => slot[i].fd \in Conns
  PROVE  EpollAgrees'
  BY DEF EpollAgrees, InUse, Slots

LEMMA BatchFrame ==
  ASSUME BatchFresh, batch' = batch, epoll' = epoll, pc' = pc, cur' = cur
  PROVE  BatchFresh'
  BY DEF BatchFresh

(* The connections of entries in use have made their request. *)
LEMMA Owners ==
  ASSUME IInv, NEW i \in Slots, InUse(i)
  PROVE  \/ i = DN_ACCEPT_EVENT /\ slot[i].fd = Listener
         \/ /\ i \in 0 .. MaxEvents - 1
            /\ slot[i].fd \in Conns
            /\ sock[slot[i].fd] = "open"
            /\ request[slot[i].fd] \in Requests
<1>1. i = DN_ACCEPT_EVENT \/ i \in 0 .. MaxEvents - 1
  BY SizesAssumption DEF Slots, DN_ACCEPT_EVENT
<1>2. CASE i = DN_ACCEPT_EVENT
  BY <1>2 DEF IInv, HandlerState, InitEvent, ZeroEvent
<1>3. CASE i \in 0 .. MaxEvents - 1
  <2>1. slot[i].fd \in Conns
    BY <1>3 DEF IInv, HandlerState, Waiting, Answering, InUse
  <2>2. slot[i].fd # Listener
    BY <2>1, NamesAssumption
  <2>3. sock[slot[i].fd] = "open"
    BY <2>1, <2>2, <1>3 DEF IInv, EpollAgrees
  <2>4. request[slot[i].fd] \in Requests
    BY <2>1, <2>3 DEF IInv, ReplyState
  <2> QED
    BY <1>3, <2>1, <2>3, <2>4
<1> QED
  BY <1>1, <1>2, <1>3

(* The listener has the last entry, connections have the others. *)
LEMMA Places ==
  /\ \A i \in Slots : i = DN_ACCEPT_EVENT \/ i \in 0 .. MaxEvents - 1
  /\ DN_ACCEPT_EVENT \in Slots
  /\ 0 .. MaxEvents - 1 \subseteq Slots
  /\ DN_ACCEPT_EVENT \notin 0 .. MaxEvents - 1
  BY SizesAssumption DEF Slots, DN_ACCEPT_EVENT

LEMMA ListenerOnly ==
  ASSUME HandlerState, NEW i \in Slots
  PROVE  slot[i].handler = "AcceptEvent" <=> i = DN_ACCEPT_EVENT
<1>1. CASE i = DN_ACCEPT_EVENT
  BY <1>1 DEF HandlerState, InitEvent, ZeroEvent
<1>2. CASE i \in 0 .. MaxEvents - 1
  BY <1>2, Places DEF HandlerState, Waiting, Answering, InitEvent, ZeroEvent
<1> QED
  BY <1>1, <1>2, Places

(* The connection whose handler runs. *)
LEMMA Running ==
  ASSUME IInv, pc # "loop"
  PROVE  /\ cur \in 0 .. MaxEvents - 1
         /\ InUse(cur)
         /\ Conn \in Conns
         /\ sock[Conn] = "open"
         /\ request[Conn] \in Requests
         /\ pc = "read" => Waiting(cur)
         /\ pc # "read" => Answering(cur)
<1>1. cur \in Slots /\ pc # "loop" /\ cur # DN_ACCEPT_EVENT
  BY DEF IInv, TypeOK, HandlerState
<1>2. pc = "read" => Waiting(cur)
  BY DEF IInv, HandlerState
<1>3. pc # "read" => Answering(cur)
  BY <1>1 DEF IInv, HandlerState
<1>4. InUse(cur)
  BY <1>2, <1>3 DEF Waiting, Answering, InUse, InitEvent, ZeroEvent
<1> QED
  BY <1>1, <1>2, <1>3, <1>4, Owners DEF Conn

(* What has been sent, has been sent on a connection that was accepted. *)
LEMMA Unanswered ==
  ASSUME IInv, NEW c \in Conns, sock[c] \in {"none", "backlog"}
  PROVE  reply[c] = << >> /\ inflight[c] = 0
<1>1. CASE pc \in {"open", "body", "finish"} /\ c = Conn
  BY <1>1, Running
<1>2. CASE ~(pc \in {"open", "body", "finish"} /\ c = Conn)
  BY <1>2 DEF IInv, ReplyState
<1> QED
  BY <1>1, <1>2

LEMMA HandlerFrame ==
  ASSUME HandlerState, slot' = slot, pc' = pc, cur' = cur,
         \A i \in Slots : InUse(i) /\ slot[i].fd \in Conns => request'[slot[i].fd] = request[slot[i].fd],
         cur \in Slots
  PROVE  HandlerState'
<1>1. \A i \in Slots : (Waiting(i) => Waiting(i)') /\ (Answering(i) => Answering(i)')
  BY DEF Waiting, Answering, InUse
<1>2. 0 .. MaxEvents - 1 \subseteq Slots
  BY SizesAssumption DEF Slots
<1> QED
  BY <1>1, <1>2 DEF HandlerState, HasBody, Waiting, Answering

-----------------------------------------------------------------------------
(* Clients.                                                                *)

LEMMA ConnectStep ==
  ASSUME IInv, NEW c \in Conns, NEW r \in Requests, Connect(c, r)
  PROVE  IInv'
<1>1. /\ slot' = slot /\ epoll' = epoll /\ reply' = reply /\ inflight' = inflight
      /\ pc' = pc /\ cur' = cur /\ batch' = batch
  BY DEF Connect, net, main
<1>2. TypeOK'
  BY DEF TypeOK, Connect, net, main, IInv
<1>3. \A d \in Conns : sock[d] # "none" => request'[d] = request[d] /\ sock'[d] = sock[d]
  BY DEF Connect, IInv, TypeOK
<1>4. EpollAgrees'
  BY <1>1, <1>3, Owners, EpollFrame DEF IInv
<1>5. BatchFresh'
  BY <1>1, BatchFrame DEF IInv
<1>6. HandlerState'
  <2>1. \A i \in Slots : InUse(i) /\ slot[i].fd \in Conns => sock[slot[i].fd] # "none"
    BY Owners, NamesAssumption
  <2> QED
    BY <1>1, <1>3, <2>1, HandlerFrame DEF IInv, TypeOK
<1>7. ReplyState'
  <2>1. /\ backlog' = Append(backlog, c) /\ sock[c] = "none" /\ sock'[c] = "backlog"
        /\ request'[c] = r /\ backlog \in Seq(Conns)
    BY DEF Connect, IInv, TypeOK
  <2>2. \A n \in DOMAIN backlog : backlog[n] # c /\ backlog[n] \in Conns
    BY <2>1 DEF IInv, ReplyState
  <2>3. \A m, n \in DOMAIN backlog' : backlog'[m] = backlog'[n] => m = n
    BY <2>1, <2>2 DEF IInv, ReplyState
  <2>4. \A n \in DOMAIN backlog' : sock'[backlog'[n]] = "backlog"
    BY <2>1, <2>2, <1>3 DEF IInv, ReplyState
  <2>5. \A d \in Conns : sock'[d] # "none" => request'[d] \in Requests
    BY <2>1, <1>3 DEF Connect, IInv, TypeOK, ReplyState
  <2>6. reply[c] = << >> /\ inflight[c] = 0
    BY <2>1, Unanswered
  <2>7. \A d \in Conns \ {c} : sock'[d] = sock[d]
    BY DEF Connect, IInv, TypeOK
  <2> QED
    BY <1>1, <2>3, <2>4, <2>5, <2>6, <2>7 DEF IInv, ReplyState, Conn
<1>8. ReplyMatchesRequest'
  <2>1. \A d \in Conns : reply[d] # << >> => request'[d] = request[d]
    BY <1>3, Unanswered
  <2> QED
    BY <1>1, <2>1 DEF IInv, ReplyMatchesRequest
<1> QED
  BY <1>2, <1>4, <1>5, <1>6, <1>7, <1>8 DEF IInv

(* Clients that send, end or read, and loops of a handler that only take   *)
(* what has arrived: nothing new is sent and the main thread stays put.    *)
LEMMA NetFrame ==
  ASSUME IInv, TypeOK', slot' = slot, epoll' = epoll, backlog' = backlog, sock' = sock,
         request' = request, reply' = reply, main' = main,
         \A c \in Conns : inflight[c] = 0 => inflight'[c] = 0
  PROVE  IInv'
<1>1. pc' = pc /\ cur' = cur /\ batch' = batch
  BY DEF main
<1>2. EpollAgrees'
  BY Owners, EpollFrame DEF IInv
<1>3. BatchFresh'
  BY <1>1, BatchFrame DEF IInv
<1>4. HandlerState'
  BY <1>1, HandlerFrame DEF IInv, TypeOK
<1>5. ReplyState'
  BY <1>1 DEF IInv, ReplyState, Conn
<1>6. ReplyMatchesRequest'
  BY DEF IInv, ReplyMatchesRequest
<1> QED
  BY <1>2, <1>3, <1>4, <1>5, <1>6 DEF IInv

LEMMA ClientStep ==
  ASSUME IInv, NEW c \in Conns, Client(c)
  PROVE  IInv'
<1>1. ASSUME NEW r \in Requests, Connect(c, r) PROVE IInv'
  BY <1>1, ConnectStep
<1>2. CASE SendPiece(c)
  <2>1. /\ slot' = slot /\ epoll' = epoll /\ backlog' = backlog /\ sock' = sock
        /\ request' = request /\ reply' = reply /\ pc' = pc /\ cur' = cur
        /\ batch' = batch /\ taken' = taken /\ peer' = peer /\ inflight' = inflight
    BY <1>2 DEF SendPiece, main
  <2>2. sent' \in [Conns -> 0 .. MaxPieces]
    BY <1>2, SizesAssumption DEF IInv, TypeOK, SendPiece
  <2>3. TypeOK'
    BY <2>1, <2>2 DEF IInv, TypeOK
  <2> QED
    BY <1>2, <2>3, NetFrame DEF SendPiece
<1>3. CASE PeerFin(c)
  <2>1. /\ slot' = slot /\ epoll' = epoll /\ backlog' = backlog /\ sock' = sock
        /\ request' = request /\ reply' = reply /\ pc' = pc /\ cur' = cur
        /\ batch' = batch /\ sent' = sent /\ taken' = taken /\ inflight' = inflight
    BY <1>3 DEF PeerFin, main
  <2>2. peer' \in [Conns -> {"alive", "fin", "rst", "gone"}]
    BY <1>3 DEF IInv, TypeOK, PeerFin
  <2>3. TypeOK'
    BY <2>1, <2>2 DEF IInv, TypeOK
  <2> QED
    BY <1>3, <2>3, NetFrame DEF PeerFin
<1>4. CASE PeerReset(c)
  <2>1. /\ slot' = slot /\ epoll' = epoll /\ backlog' = backlog /\ sock' = sock
        /\ request' = request /\ reply' = reply /\ pc' = pc /\ cur' = cur
        /\ batch' = batch /\ sent' = sent /\ taken' = taken
    BY <1>4 DEF PeerReset, main
  <2>2. peer' \in [Conns -> {"alive", "fin", "rst", "gone"}]
    BY <1>4 DEF IInv, TypeOK, PeerReset
  <2>3. /\ inflight' \in [Conns -> 0 .. Window]
        /\ \A d \in Conns : inflight[d] = 0 => inflight'[d] = 0
    BY <1>4, SizesAssumption DEF IInv, TypeOK, PeerReset
  <2>4. TypeOK'
    BY <2>1, <2>2, <2>3 DEF IInv, TypeOK
  <2> QED
    BY <1>4, <2>3, <2>4, NetFrame DEF PeerReset
<1>5. CASE PeerRead(c)
  <2>1. /\ slot' = slot /\ epoll' = epoll /\ backlog' = backlog /\ sock' = sock
        /\ request' = request /\ reply' = reply /\ pc' = pc /\ cur' = cur
        /\ batch' = batch /\ sent' = sent /\ taken' = taken /\ peer' = peer
    BY <1>5 DEF PeerRead, main
  <2>2. /\ inflight' \in [Conns -> 0 .. Window]
        /\ \A d \in Conns : inflight[d] = 0 => inflight'[d] = 0
    BY <1>5, SizesAssumption DEF IInv, TypeOK, PeerRead
  <2>3. TypeOK'
    BY <2>1, <2>2 DEF IInv, TypeOK
  <2> QED
    BY <1>5, <2>2, <2>3, NetFrame DEF PeerRead
<1> QED
  BY <1>1, <1>2, <1>3, <1>4, <1>5 DEF Client

-----------------------------------------------------------------------------
(* The main loop.                                                          *)

LEMMA WaitEventStep ==
  ASSUME IInv, WaitEvent
  PROVE  IInv'
<1> DEFINE ready == {x \in epoll : Ready(x)}
<1>1. /\ slot' = slot /\ epoll' = epoll /\ backlog' = backlog /\ sock' = sock
      /\ request' = request /\ reply' = reply /\ inflight' = inflight
      /\ pc' = pc /\ cur' = cur /\ pc = "loop"
      /\ sent' = sent /\ taken' = taken /\ peer' = peer
  BY DEF WaitEvent, net
<1>2. PICK b \in [1 .. Reported(Cardinality(ready)) -> ready] :
        (\A m, n \in DOMAIN b : m # n => b[m] # b[n]) /\ batch' = b
  BY DEF WaitEvent
<1>3. Cardinality(ready) \in Nat
  BY FS_Subset, FS_CardinalityType DEF IInv, TypeOK
<1>4. Reported(Cardinality(ready)) \in Nat /\ Reported(Cardinality(ready)) <= MaxEvents
  BY <1>3, SizesAssumption DEF Reported
<1>5. batch' \in Seq(epoll) /\ Len(batch') <= MaxEvents /\ DOMAIN batch' = DOMAIN b
  BY <1>2, <1>4
<1>6. TypeOK'
  <2>1. batch' \in Seq([fd : Fds, slot : Slots, events : {"IN", "OUT"}])
    BY <1>5, SeqMonotonic DEF IInv, TypeOK
  <2> QED
    BY <1>1, <1>5, <2>1 DEF IInv, TypeOK
<1>7. EpollAgrees'
  BY <1>1, Owners, EpollFrame DEF IInv
<1>8. BatchFresh'
  <2>1. \A n \in DOMAIN batch' : batch'[n] \in epoll
    BY <1>2, <1>5
  <2>2. \A x, y \in epoll : x.slot = y.slot => x = y
    <3>1. \A x \in epoll : x = Interest(slot[x.slot].fd, x.slot, slot[x.slot].events)
      <4> TAKE x \in epoll
      <4>1. x \in [fd : Fds, slot : Slots, events : {"IN", "OUT"}]
        BY DEF IInv, TypeOK
      <4>2. slot[x.slot].fd = x.fd /\ slot[x.slot].events = x.events
        BY DEF IInv, EpollAgrees
      <4> QED
        BY <4>1, <4>2 DEF Interest
    <3> QED
      BY <3>1
  <2>3. \A m, n \in DOMAIN batch' : batch'[m].slot = batch'[n].slot => m = n
    BY <1>2, <2>1, <2>2
  <2> QED
    BY <1>1, <2>1, <2>3 DEF BatchFresh
<1>9. HandlerState'
  BY <1>1, HandlerFrame DEF IInv, TypeOK
<1>10. ReplyState'
  BY <1>1 DEF IInv, ReplyState, Conn
<1>11. ReplyMatchesRequest'
  BY <1>1 DEF IInv, ReplyMatchesRequest
<1> QED
  BY <1>6, <1>7, <1>8, <1>9, <1>10, <1>11 DEF IInv

(* The first event reported and not dispatched is dispatched. *)
LEMMA NextBatch ==
  ASSUME IInv, batch # << >>, batch' = Tail(batch)
  PROVE  /\ Head(batch) \in epoll
         /\ batch' \in Seq([fd : Fds, slot : Slots, events : {"IN", "OUT"}])
         /\ Len(batch') <= MaxEvents
         /\ \A n \in DOMAIN batch' : batch'[n] \in epoll /\ batch'[n].slot # Head(batch).slot
         /\ \A m, n \in DOMAIN batch' : batch'[m].slot = batch'[n].slot => m = n
<1> DEFINE Reports == [fd : Fds, slot : Slots, events : {"IN", "OUT"}]
<1>1. batch \in Seq(Reports) /\ Len(batch) <= MaxEvents
  BY DEF IInv, TypeOK
<1>2. /\ Len(batch) \in Nat \ {0} /\ DOMAIN batch = 1 .. Len(batch)
      /\ batch' \in Seq(Reports) /\ Len(batch') = Len(batch) - 1
      /\ DOMAIN batch' = 1 .. Len(batch) - 1
      /\ Head(batch) = batch[1]
      /\ \A n \in DOMAIN batch' : batch'[n] = batch[n + 1]
  BY <1>1
<1>3. \A n \in 1 .. Len(batch) : batch[n] \in epoll
  BY <1>2 DEF IInv, BatchFresh
<1>4. \A m, n \in 1 .. Len(batch) : batch[m].slot = batch[n].slot => m = n
  BY <1>2 DEF IInv, BatchFresh
<1> HIDE DEF Reports
<1> QED
  BY <1>1, <1>2, <1>3, <1>4, SizesAssumption DEF Reports

LEMMA RunHandlerStep ==
  ASSUME IInv, RunHandler
  PROVE  IInv'
<1> DEFINE i == Head(batch).slot
<1>1. /\ slot' = slot /\ epoll' = epoll /\ backlog' = backlog /\ sock' = sock
      /\ request' = request /\ reply' = reply /\ inflight' = inflight
      /\ sent' = sent /\ taken' = taken /\ peer' = peer
      /\ pc = "loop" /\ batch # << >> /\ batch' = Tail(batch)
      /\ slot[i].handler # "AcceptEvent"
  BY DEF RunHandler, net
<1>2. /\ Head(batch) \in epoll /\ i \in Slots
      /\ InUse(i) /\ slot[i].events = Head(batch).events
  BY <1>1, NextBatch DEF IInv, TypeOK, EpollAgrees
<1>3. pc' = FirstStep(slot[i]) /\ cur' = i
  BY <1>2 DEF RunHandler
<1>4. i \in 0 .. MaxEvents - 1 /\ i # DN_ACCEPT_EVENT /\ slot[i].status = "Inuse"
  BY <1>1, <1>2, Places, ListenerOnly DEF IInv, InUse
<1>5. \/ Waiting(i) /\ pc' = "read"
      \/ Answering(i) /\ pc' \in {"discard", "pageDiscard"}
           /\ (pc' = "discard" => slot[i].type \in {"SENDFILE", "RUNCGI"})
  <2>1. Waiting(i) \/ Answering(i)
    BY <1>4 DEF IInv, HandlerState
  <2>2. CASE Waiting(i)
    BY <1>3, <2>2 DEF Waiting, FirstStep, InitEvent, ZeroEvent
  <2>3. CASE Answering(i)
    BY <1>3, <2>3 DEF Answering, FirstStep
  <2> QED
    BY <2>1, <2>2, <2>3
<1>6. TypeOK'
  <2>1. pc' \in {"read", "discard", "pageDiscard"} /\ cur' \in Slots
    BY <1>2, <1>3, <1>5
  <2>2. batch' \in Seq([fd : Fds, slot : Slots, events : {"IN", "OUT"}]) /\ Len(batch') <= MaxEvents
    BY <1>1, NextBatch
  <2> HIDE DEF i
  <2> QED
    BY <1>1, <2>1, <2>2 DEF IInv, TypeOK
<1>7. EpollAgrees'
  BY <1>1, Owners, EpollFrame DEF IInv
<1>8. BatchFresh'
  BY <1>1, <1>3, NextBatch DEF BatchFresh
<1>9. HandlerState'
  <2>1. \A j \in 0 .. MaxEvents - 1 : (Waiting(j) => Waiting(j)') /\ (Answering(j) => Answering(j)')
    BY <1>1 DEF Waiting, Answering, InUse
  <2> QED
    BY <1>1, <1>3, <1>4, <1>5, <2>1 DEF IInv, HandlerState, HasBody
<1>10. ReplyState'
  BY <1>1, <1>5 DEF IInv, ReplyState
<1>11. ReplyMatchesRequest'
  BY <1>1 DEF IInv, ReplyMatchesRequest
<1> QED
  BY <1>6, <1>7, <1>8, <1>9, <1>10, <1>11 DEF IInv

-----------------------------------------------------------------------------
(* DN_AcceptEvent.                                                         *)

(* What every accept does to the batch and to the connection accepted. *)
LEMMA AcceptFacts ==
  ASSUME IInv, NEW c \in Conns, Accepted(c)
  PROVE  /\ pc = "loop" /\ pc' = "loop" /\ cur' = cur
         /\ backlog \in Seq(Conns) /\ backlog # << >> /\ backlog' = Tail(backlog)
         /\ c = Head(backlog) /\ c = backlog[1]
         /\ sock[c] = "backlog" /\ sock' = [sock EXCEPT ![c] = "open"]
         /\ request' = request /\ reply' = reply /\ inflight' = inflight
         /\ sent' = sent /\ taken' = taken /\ peer' = peer
         /\ reply[c] = << >> /\ inflight[c] = 0
         /\ batch # << >> /\ batch' = Tail(batch)
         /\ Head(batch).slot = DN_ACCEPT_EVENT
         /\ \A i \in Slots : InUse(i) => slot[i].fd # c
         /\ \A x \in epoll : x.fd # c
<1>1. /\ pc = "loop" /\ pc' = "loop" /\ cur' = cur
      /\ backlog # << >> /\ backlog' = Tail(backlog) /\ c = Head(backlog)
      /\ sock' = [sock EXCEPT ![c] = "open"]
      /\ request' = request /\ reply' = reply /\ inflight' = inflight
      /\ sent' = sent /\ taken' = taken /\ peer' = peer
      /\ batch # << >> /\ batch' = Tail(batch)
      /\ slot[Head(batch).slot].handler = "AcceptEvent"
  BY DEF Accepted, Accepting, net
<1>2. backlog \in Seq(Conns)
  BY DEF IInv, TypeOK
<1>3. c = backlog[1] /\ 1 \in DOMAIN backlog
  BY <1>1, <1>2
<1>4. sock[c] = "backlog"
  BY <1>3 DEF IInv, ReplyState
<1>5. reply[c] = << >> /\ inflight[c] = 0
  BY <1>4, Unanswered
<1>6. Head(batch).slot = DN_ACCEPT_EVENT
  <2>1. Head(batch) \in epoll /\ Head(batch).slot \in Slots
    BY <1>1, NextBatch DEF IInv, TypeOK
  <2> QED
    BY <1>1, <2>1, ListenerOnly DEF IInv
<1>7. ASSUME NEW i \in Slots, InUse(i) PROVE slot[i].fd # c
  <2>1. slot[i].fd = Listener \/ sock[slot[i].fd] = "open"
    BY <1>7, Owners
  <2> QED
    BY <2>1, <1>4, NamesAssumption
<1>8. ASSUME NEW x \in epoll PROVE x.fd # c
  <2>1. x.slot \in Slots /\ InUse(x.slot) /\ slot[x.slot].fd = x.fd
    BY DEF IInv, EpollAgrees, TypeOK
  <2> QED
    BY <2>1, <1>7
<1> QED
  BY <1>1, <1>2, <1>3, <1>4, <1>5, <1>6, <1>7, <1>8

(* Accepting the head of the backlog keeps the types of what it changes.    *)
LEMMA AcceptTypes ==
  ASSUME IInv, NEW c \in Conns, Accepted(c)
  PROVE  /\ backlog' \in Seq(Conns)
         /\ sock' \in [Conns -> {"none", "backlog", "open", "closed"}]
         /\ sock'[c] = "open"
         /\ \A d \in Conns : sock[d] = "open" => sock'[d] = "open"
         /\ batch' \in Seq([fd : Fds, slot : Slots, events : {"IN", "OUT"}])
         /\ Len(batch') <= MaxEvents
<1>1. /\ backlog \in Seq(Conns) /\ backlog # << >> /\ backlog' = Tail(backlog)
      /\ sock' = [sock EXCEPT ![c] = "open"]
      /\ batch # << >> /\ batch' = Tail(batch)
  BY AcceptFacts
<1>2. backlog' \in Seq(Conns)
  BY <1>1
<1>3. sock \in [Conns -> {"none", "backlog", "open", "closed"}]
  BY DEF IInv, TypeOK
<1>4. /\ sock' \in [Conns -> {"none", "backlog", "open", "closed"}]
      /\ sock'[c] = "open"
      /\ \A d \in Conns : sock[d] = "open" => sock'[d] = "open"
  BY <1>1, <1>3
<1>5. /\ batch' \in Seq([fd : Fds, slot : Slots, events : {"IN", "OUT"}])
      /\ Len(batch') <= MaxEvents
  BY <1>1, NextBatch
<1> QED
  BY <1>2, <1>4, <1>5

LEMMA AcceptedReplies ==
  ASSUME IInv, NEW c \in Conns, Accepted(c)
  PROVE  ReplyState' /\ ReplyMatchesRequest'
<1>1. /\ backlog \in Seq(Conns) /\ backlog # << >> /\ backlog' = Tail(backlog)
      /\ c = backlog[1]
  BY AcceptFacts
<1>2. /\ DOMAIN backlog = 1 .. Len(backlog) /\ Len(backlog) \in Nat \ {0}
      /\ DOMAIN backlog' = 1 .. Len(backlog) - 1
      /\ \A n \in DOMAIN backlog' : backlog'[n] = backlog[n + 1] /\ n + 1 \in DOMAIN backlog
  BY <1>1
<1>3. \A m, n \in DOMAIN backlog' : backlog'[m] = backlog'[n] => m = n
  BY <1>2 DEF IInv, ReplyState
<1>4. ASSUME NEW n \in DOMAIN backlog' PROVE backlog'[n] # c /\ backlog'[n] \in Conns
  <2>1. n + 1 \in DOMAIN backlog /\ n + 1 # 1 /\ 1 \in DOMAIN backlog /\ backlog'[n] = backlog[n + 1]
    BY <1>2
  <2>2. backlog[n + 1] # backlog[1]
    BY <2>1 DEF IInv, ReplyState
  <2> QED
    BY <1>1, <1>2, <2>1, <2>2
<1>5. ASSUME NEW n \in DOMAIN backlog' PROVE sock'[backlog'[n]] = "backlog"
  <2>1. sock[backlog'[n]] = "backlog"
    BY <1>2 DEF IInv, ReplyState
  <2>2. sock' = [sock EXCEPT ![c] = "open"]
    BY AcceptFacts
  <2> QED
    BY <2>1, <2>2, <1>4 DEF IInv, TypeOK
<1>6. /\ \A d \in Conns : sock'[d] # "none" => request'[d] \in Requests
      /\ \A d \in Conns : sock'[d] = "closed" \/ (reply'[d] = << >> /\ inflight'[d] = 0)
  BY AcceptFacts DEF IInv, ReplyState, TypeOK
<1>7. ReplyState'
  BY <1>3, <1>5, <1>6, AcceptFacts DEF ReplyState
<1>8. ReplyMatchesRequest'
  BY AcceptFacts DEF IInv, ReplyMatchesRequest
<1> QED
  BY <1>7, <1>8

LEMMA AcceptEventStep ==
  ASSUME IInv, NEW c \in Conns, AcceptEvent(c)
  PROVE  IInv'
<1> DEFINE e == InitEvent(c, "AcceptRequest")
           e2 == [e EXCEPT !.events = "IN", !.status = "Inuse"]
<1>1. Accepted(c)
  BY DEF AcceptEvent
<1>2. PICK i \in FreeSlots : AddEvent(i, e, "IN")
  BY DEF AcceptEvent
<1>3. /\ i \in 0 .. MaxEvents - 1 /\ ~InUse(i) /\ i \in Slots /\ i # DN_ACCEPT_EVENT
  BY SizesAssumption DEF FreeSlots, InUse, Slots, DN_ACCEPT_EVENT
<1>4. /\ e2.fd = c /\ e2.status = "Inuse" /\ e2.events = "IN" /\ e2 \in Event
      /\ e2.handler = "AcceptRequest"
  BY DEF InitEvent, ZeroEvent, Event, Fds
<1>5. slot' = [slot EXCEPT ![i] = e2] /\ slot \in [Slots -> Event]
  BY <1>2 DEF AddEvent, IInv, TypeOK
<1>6. epoll' = epoll \cup {Interest(c, i, "IN")}
  BY <1>1, <1>2, AcceptFacts DEF AddEvent, InitEvent, ZeroEvent
<1>7. slot'[i] = e2 /\ \A j \in Slots \ {i} : slot'[j] = slot[j]
  BY <1>3, <1>5
<1>8. TypeOK'
  <2>1. slot' \in [Slots -> Event]
    BY <1>4, <1>5
  <2>2. IsFiniteSet(epoll')
    BY <1>6, FS_AddElement DEF IInv, TypeOK
  <2>3. epoll' \subseteq [fd : Fds, slot : Slots, events : {"IN", "OUT"}]
    BY <1>3, <1>6 DEF IInv, TypeOK, Interest, Fds
  <2>4. /\ request' = request /\ sent' = sent /\ taken' = taken /\ peer' = peer
        /\ inflight' = inflight /\ reply' = reply /\ pc' = pc /\ cur' = cur
    BY <1>1, AcceptFacts
  <2> QED
    BY <1>1, <2>1, <2>2, <2>3, <2>4, AcceptTypes DEF IInv, TypeOK
<1>9. EpollAgrees'
  <2>1. ASSUME NEW j \in Slots, InUse(j)'
        PROVE  Interest(slot'[j].fd, j, slot'[j].events) \in epoll'
    <3>1. CASE j = i
      BY <3>1, <1>4, <1>6, <1>7
    <3>2. CASE j # i
      BY <2>1, <3>2, <1>6, <1>7 DEF IInv, EpollAgrees, InUse
    <3> QED
      BY <3>1, <3>2
  <2>2. ASSUME NEW x \in epoll'
        PROVE  InUse(x.slot)' /\ slot'[x.slot].fd = x.fd /\ slot'[x.slot].events = x.events
    <3>1. CASE x = Interest(c, i, "IN")
      BY <3>1, <1>4, <1>7 DEF InUse, Interest
    <3>2. CASE x \in epoll
      <4>1. x.slot \in Slots /\ InUse(x.slot) /\ slot[x.slot].fd = x.fd /\ slot[x.slot].events = x.events
        BY <3>2 DEF IInv, TypeOK, EpollAgrees
      <4> QED
        BY <4>1, <1>3, <1>7 DEF InUse
    <3> QED
      BY <1>6, <3>1, <3>2
  <2>3. \A j \in Slots : InUse(j) => slot[j].fd # c
    BY <1>1, AcceptFacts
  <2>4. ASSUME NEW j \in Slots, NEW k \in Slots, InUse(j)', InUse(k)', slot'[j].fd = slot'[k].fd
        PROVE  j = k
    <3>1. CASE j = i \/ k = i
      <4>1. slot'[i].fd = c
        BY <1>4, <1>7
      <4>2. \A l \in Slots \ {i} : InUse(l)' => slot'[l].fd # c
        BY <1>7, <2>3 DEF InUse
      <4> QED
        BY <2>4, <3>1, <4>1, <4>2
    <3>2. CASE j # i /\ k # i
      <4>1. slot'[j] = slot[j] /\ slot'[k] = slot[k]
        BY <3>2, <1>7
      <4>2. InUse(j) /\ InUse(k) /\ slot[j].fd = slot[k].fd
        BY <2>4, <4>1 DEF InUse
      <4> QED
        BY <4>2 DEF IInv, EpollAgrees
    <3> QED
      BY <3>1, <3>2
  <2>5. sock'[c] = "open" /\ \A d \in Conns : sock[d] = "open" => sock'[d] = "open"
    BY <1>1, AcceptTypes
  <2>6. ASSUME NEW j \in Slots, InUse(j)', slot'[j].fd # Listener
        PROVE  sock'[slot'[j].fd] = "open"
    <3>1. CASE j = i
      BY <3>1, <1>4, <1>7, <2>5
    <3>2. CASE j # i
      BY <2>6, <3>2, <1>7, <2>5, Owners DEF InUse
    <3> QED
      BY <3>1, <3>2
  <2> QED
    BY <2>1, <2>2, <2>4, <2>6 DEF EpollAgrees
<1>10. BatchFresh'
  BY <1>1, <1>6, AcceptFacts, NextBatch DEF BatchFresh
<1>11. HandlerState'
  <2>1. Waiting(i)'
    BY <1>4, <1>7 DEF Waiting
  <2>2. \A j \in Slots \ {i} : (Waiting(j) => Waiting(j)') /\ (Answering(j) => Answering(j)')
    BY <1>1, <1>7, AcceptFacts DEF Waiting, Answering, InUse
  <2>3. 0 .. MaxEvents - 1 \subseteq Slots
    BY SizesAssumption DEF Slots
  <2>4. \A j \in 0 .. MaxEvents - 1 :
          (slot'[j].status = "Void" /\ slot'[j].handler # "AcceptEvent") \/ Waiting(j)' \/ Answering(j)'
    BY <1>7, <2>1, <2>2, <2>3 DEF IInv, HandlerState
  <2>5. slot'[DN_ACCEPT_EVENT] = slot[DN_ACCEPT_EVENT]
    BY <1>3, <1>7, SizesAssumption DEF Slots, DN_ACCEPT_EVENT
  <2> QED
    BY <1>1, <2>4, <2>5, AcceptFacts DEF IInv, HandlerState
<1> QED
  BY <1>1, <1>8, <1>9, <1>10, <1>11, AcceptedReplies DEF IInv

LEMMA AcceptLimitStep ==
  ASSUME IInv, NEW c \in Conns, AcceptLimit(c)
  PROVE  IInv'
<1>1. Accepted(c) /\ slot' = slot /\ epoll' = epoll
  BY DEF AcceptLimit
<1>2. sock'[c] = "open" /\ \A d \in Conns : sock[d] = "open" => sock'[d] = "open"
  BY <1>1, AcceptTypes
<1>3. /\ request' = request /\ sent' = sent /\ taken' = taken /\ peer' = peer
      /\ inflight' = inflight /\ reply' = reply /\ pc' = pc /\ cur' = cur
  BY <1>1, AcceptFacts
<1>4. TypeOK'
  BY <1>1, <1>3, AcceptTypes DEF IInv, TypeOK
<1>5. EpollAgrees'
  BY <1>1, <1>2, Owners, EpollFrame DEF IInv
<1>6. BatchFresh'
  BY <1>1, AcceptFacts, NextBatch DEF BatchFresh
<1>7. HandlerState'
  BY <1>1, AcceptFacts, HandlerFrame DEF IInv, TypeOK
<1> QED
  BY <1>1, <1>4, <1>5, <1>6, <1>7, AcceptedReplies DEF IInv

LEMMA AcceptAbortedStep ==
  ASSUME IInv, NEW c \in Conns, AcceptAborted(c)
  PROVE  IInv'
<1>1. Accepted(c) /\ epoll' = epoll
  BY DEF AcceptAborted
<1>2. PICK i \in FreeSlots, ev \in {"NONE", "IN"} :
        slot' = [slot EXCEPT ![i] = [InitEvent(c, "AcceptRequest") EXCEPT !.events = ev]]
  BY DEF AcceptAborted
<1> DEFINE e == [InitEvent(c, "AcceptRequest") EXCEPT !.events = ev]
<1>3. /\ i \in 0 .. MaxEvents - 1 /\ ~InUse(i) /\ i \in Slots /\ i # DN_ACCEPT_EVENT
  BY Places DEF FreeSlots, InUse
<1>4. e \in Event /\ e.status = "Void" /\ e.handler = "AcceptRequest"
  BY <1>2 DEF InitEvent, ZeroEvent, Event, Fds
<1>5. slot' \in [Slots -> Event] /\ slot'[i] = e /\ \A j \in Slots \ {i} : slot'[j] = slot[j]
  BY <1>2, <1>3, <1>4 DEF IInv, TypeOK
<1>6. ~InUse(i)'
  BY <1>4, <1>5 DEF InUse
<1>7. \A j \in Slots : InUse(j)' => InUse(j) /\ slot'[j] = slot[j]
  BY <1>5, <1>6 DEF InUse
<1>9. TypeOK'
  <2>1. /\ request' = request /\ sent' = sent /\ taken' = taken /\ peer' = peer
        /\ inflight' = inflight /\ reply' = reply /\ pc' = pc /\ cur' = cur
    BY <1>1, AcceptFacts
  <2> QED
    BY <1>1, <1>5, <2>1, AcceptTypes DEF IInv, TypeOK
<1>10. EpollAgrees'
  <2>1. ASSUME NEW x \in epoll'
        PROVE  InUse(x.slot)' /\ slot'[x.slot].fd = x.fd /\ slot'[x.slot].events = x.events
    <3>1. x.slot \in Slots /\ InUse(x.slot) /\ slot[x.slot].fd = x.fd /\ slot[x.slot].events = x.events
      BY <1>1 DEF IInv, TypeOK, EpollAgrees
    <3> QED
      BY <3>1, <1>3, <1>5 DEF InUse
  <2>2. \A d \in Conns : sock[d] = "open" => sock'[d] = "open"
    BY <1>1, AcceptTypes
  <2>3. ASSUME NEW j \in Slots, InUse(j)', slot'[j].fd # Listener
        PROVE  sock'[slot'[j].fd] = "open"
    BY <2>2, <2>3, <1>7, Owners
  <2>4. ASSUME NEW j \in Slots, InUse(j)'
        PROVE  Interest(slot'[j].fd, j, slot'[j].events) \in epoll'
    BY <2>4, <1>1, <1>7 DEF IInv, EpollAgrees
  <2>5. ASSUME NEW j \in Slots, NEW k \in Slots, InUse(j)', InUse(k)', slot'[j].fd = slot'[k].fd
        PROVE  j = k
    BY <2>5, <1>7 DEF IInv, EpollAgrees
  <2> QED
    BY <2>1, <2>3, <2>4, <2>5 DEF EpollAgrees
<1>11. BatchFresh'
  BY <1>1, AcceptFacts, NextBatch DEF BatchFresh
<1>12. HandlerState'
  <2>1. slot'[i].status = "Void" /\ slot'[i].handler # "AcceptEvent"
    BY <1>4, <1>5
  <2>2. \A j \in Slots \ {i} : (Waiting(j) => Waiting(j)') /\ (Answering(j) => Answering(j)')
    BY <1>1, <1>5, AcceptFacts DEF Waiting, Answering, InUse
  <2>3. \A j \in 0 .. MaxEvents - 1 :
          (slot'[j].status = "Void" /\ slot'[j].handler # "AcceptEvent") \/ Waiting(j)' \/ Answering(j)'
    BY <1>5, <2>1, <2>2, Places DEF IInv, HandlerState
  <2>4. slot'[DN_ACCEPT_EVENT] = slot[DN_ACCEPT_EVENT]
    BY <1>3, <1>5, Places
  <2> QED
    BY <1>1, <2>3, <2>4, AcceptFacts DEF IInv, HandlerState
<1> QED
  BY <1>1, <1>9, <1>10, <1>11, <1>12, AcceptedReplies DEF IInv

LEMMA AcceptFailsStep ==
  ASSUME IInv, AcceptFails
  PROVE  IInv'
<1>1. /\ slot' = slot /\ epoll' = epoll /\ backlog' = backlog /\ sock' = sock
      /\ request' = request /\ reply' = reply /\ inflight' = inflight
      /\ sent' = sent /\ taken' = taken /\ peer' = peer
      /\ pc' = pc /\ cur' = cur /\ pc = "loop" /\ batch # << >> /\ batch' = Tail(batch)
  BY DEF AcceptFails, Accepting, net
<1>2. TypeOK'
  BY <1>1, NextBatch DEF IInv, TypeOK
<1>3. EpollAgrees'
  BY <1>1, Owners, EpollFrame DEF IInv
<1>4. BatchFresh'
  BY <1>1, NextBatch DEF BatchFresh
<1>5. HandlerState'
  BY <1>1, HandlerFrame DEF IInv, TypeOK
<1>6. ReplyState' /\ ReplyMatchesRequest'
  BY <1>1 DEF IInv, ReplyState, ReplyMatchesRequest, Conn
<1> QED
  BY <1>2, <1>3, <1>4, <1>5, <1>6 DEF IInv

-----------------------------------------------------------------------------
(* DN_AcceptRequest.                                                       *)

LEMMA ReadMoreStep ==
  ASSUME IInv, ReadMore
  PROVE  IInv'
<1>1. Conn \in Conns
  BY Running DEF ReadMore
<1>2. TypeOK'
  BY <1>1 DEF IInv, TypeOK, ReadMore, Received, main
<1> QED
  BY <1>2, NetFrame DEF ReadMore

LEMMA ReadFailsStep ==
  ASSUME IInv, ReadFails
  PROVE  IInv'
<1>1. /\ slot' = slot /\ epoll' = epoll /\ backlog' = backlog /\ sock' = sock
      /\ request' = request /\ reply' = reply /\ inflight' = inflight
      /\ pc = "read" /\ pc' = "loop" /\ cur' = DN_ACCEPT_EVENT /\ batch' = batch
  BY DEF ReadFails
<1>2. Conn \in Conns
  BY Running DEF ReadFails
<1>3. TypeOK'
  BY <1>2, Places DEF IInv, TypeOK, ReadFails, Received
<1>4. EpollAgrees'
  BY <1>1, Owners, EpollFrame DEF IInv
<1>5. BatchFresh'
  BY <1>1 DEF IInv, BatchFresh
<1>6. HandlerState'
  <2>1. \A j \in Slots : (Waiting(j) => Waiting(j)') /\ (Answering(j) => Answering(j)')
    BY <1>1 DEF Waiting, Answering, InUse
  <2> QED
    BY <1>1, <2>1, Places DEF IInv, HandlerState
<1>7. ReplyState' /\ ReplyMatchesRequest'
  BY <1>1 DEF IInv, ReplyState, ReplyMatchesRequest
<1> QED
  BY <1>3, <1>4, <1>5, <1>6, <1>7 DEF IInv

LEMMA AcceptRequestStep ==
  ASSUME IInv, AcceptRequest
  PROVE  IInv'
<1> DEFINE r == request[Conn]
           e == [slot[cur] EXCEPT !.type = Classify(r), !.arg = Argument(r),
                                  !.handler = "SendResponse"]
           e2 == [e EXCEPT !.events = "OUT", !.status = "Inuse"]
<1>1. /\ pc = "read" /\ pc' = "loop" /\ cur' = DN_ACCEPT_EVENT /\ batch' = batch
      /\ backlog' = backlog /\ sock' = sock /\ request' = request /\ reply' = reply
      /\ inflight' = inflight /\ sent' = sent /\ peer' = peer
      /\ AddEvent(cur, e, "OUT") /\ Received
  BY DEF AcceptRequest, Rearmed
<1>2. /\ Conn \in Conns /\ r \in Requests /\ cur \in 0 .. MaxEvents - 1 /\ InUse(cur)
      /\ Waiting(cur) /\ Conn = slot[cur].fd /\ cur \in Slots /\ cur # DN_ACCEPT_EVENT
  BY <1>1, Running, Places DEF Conn
<1>3. slot[cur] \in Event
  BY <1>2 DEF IInv, TypeOK
<1>4. Classify(r) \in Types /\ Argument(r) \in Paths \cup {None}
  BY <1>2, RequestsAssumption DEF Classify, Argument, Types
<1>5. /\ e2 \in Event /\ e2.fd = Conn /\ e2.events = "OUT" /\ e2.status = "Inuse"
      /\ e2.handler = "SendResponse" /\ e2.type = Classify(r) /\ e2.arg = Argument(r)
      /\ e.fd = Conn
  BY <1>2, <1>3, <1>4 DEF Event
<1> HIDE DEF r
<1>6. slot' = [slot EXCEPT ![cur] = e2]
  BY <1>1 DEF AddEvent
<1>7. slot' \in [Slots -> Event] /\ slot'[cur] = e2 /\ \A j \in Slots \ {cur} : slot'[j] = slot[j]
  BY <1>2, <1>5, <1>6 DEF IInv, TypeOK
<1>8. epoll' = {x \in epoll : x.fd # Conn} \cup {Interest(Conn, cur, "OUT")}
  BY <1>1, <1>5 DEF AddEvent
<1>9. TypeOK'
  <2>1. IsFiniteSet({x \in epoll : x.fd # Conn})
    BY FS_Subset DEF IInv, TypeOK
  <2>2. IsFiniteSet(epoll')
    BY <1>8, <2>1, FS_AddElement
  <2>3. epoll' \subseteq [fd : Fds, slot : Slots, events : {"IN", "OUT"}]
    BY <1>2, <1>8 DEF IInv, TypeOK, Interest, Fds
  <2> QED
    BY <1>1, <1>2, <1>7, <2>2, <2>3, Places DEF IInv, TypeOK, Received
<1>10. \A j \in Slots : InUse(j)' => InUse(j) /\ slot'[j].fd = slot[j].fd
  BY <1>2, <1>5, <1>7 DEF InUse
<1>11. EpollAgrees'
  <2>1. ASSUME NEW j \in Slots, InUse(j)'
        PROVE  Interest(slot'[j].fd, j, slot'[j].events) \in epoll'
    <3>1. CASE j = cur
      BY <3>1, <1>5, <1>7, <1>8
    <3>2. CASE j # cur
      <4>1. InUse(j) /\ slot'[j] = slot[j] /\ slot[j].fd # Conn
        BY <2>1, <3>2, <1>2, <1>7, <1>10 DEF IInv, EpollAgrees
      <4>2. Interest(slot[j].fd, j, slot[j].events) \in epoll
        BY <4>1 DEF IInv, EpollAgrees
      <4> QED
        BY <4>1, <4>2, <1>8 DEF Interest
    <3> QED
      BY <3>1, <3>2
  <2>2. ASSUME NEW x \in epoll'
        PROVE  InUse(x.slot)' /\ slot'[x.slot].fd = x.fd /\ slot'[x.slot].events = x.events
    <3>1. CASE x = Interest(Conn, cur, "OUT")
      BY <3>1, <1>5, <1>7 DEF InUse, Interest
    <3>2. CASE x \in epoll /\ x.fd # Conn
      <4>1. x.slot \in Slots /\ InUse(x.slot) /\ slot[x.slot].fd = x.fd /\ slot[x.slot].events = x.events
        BY <3>2 DEF IInv, TypeOK, EpollAgrees
      <4> QED
        BY <4>1, <3>2, <1>2, <1>7 DEF InUse
    <3> QED
      BY <1>8, <3>1, <3>2
  <2>3. ASSUME NEW j \in Slots, NEW k \in Slots, InUse(j)', InUse(k)', slot'[j].fd = slot'[k].fd
        PROVE  j = k
    BY <2>3, <1>10 DEF IInv, EpollAgrees
  <2>4. ASSUME NEW j \in Slots, InUse(j)', slot'[j].fd # Listener
        PROVE  sock'[slot'[j].fd] = "open"
    BY <2>4, <1>1, <1>10 DEF IInv, EpollAgrees
  <2> QED
    BY <2>1, <2>2, <2>3, <2>4 DEF EpollAgrees
<1>12. BatchFresh'
  <2>1. \A n \in DOMAIN batch : batch[n] \in epoll /\ batch[n].slot # cur
    BY <1>1 DEF IInv, BatchFresh
  <2>2. \A x \in epoll : x.slot # cur => x.fd # Conn
    BY <1>2 DEF IInv, TypeOK, EpollAgrees
  <2> QED
    BY <1>1, <1>8, <2>1, <2>2 DEF IInv, BatchFresh
<1>13. HandlerState'
  <2>2. \A j \in Slots \ {cur} : (Waiting(j) => Waiting(j)') /\ (Answering(j) => Answering(j)')
    BY <1>1, <1>7 DEF Waiting, Answering, InUse
  <2>3. ASSUME NEW j \in 0 .. MaxEvents - 1
        PROVE  \/ slot'[j].status = "Void" /\ slot'[j].handler # "AcceptEvent"
               \/ Waiting(j)'
               \/ Answering(j)'
    <3>1. CASE j = cur
      BY <3>1, <1>1, <1>2, <1>5, <1>7 DEF Answering, InUse, r
    <3>2. CASE j # cur
      BY <3>2, <1>7, <2>2, Places DEF IInv, HandlerState
    <3> QED
      BY <3>1, <3>2
  <2>4. slot'[DN_ACCEPT_EVENT] = slot[DN_ACCEPT_EVENT]
    BY <1>2, <1>7, Places
  <2> QED
    BY <1>1, <2>3, <2>4 DEF IInv, HandlerState
<1>14. ReplyState' /\ ReplyMatchesRequest'
  BY <1>1 DEF IInv, ReplyState, ReplyMatchesRequest
<1> QED
  BY <1>9, <1>11, <1>12, <1>13, <1>14 DEF IInv

-----------------------------------------------------------------------------
(* DN_SendResponse.                                                        *)

(* The reply a request calls for, in the terms of the code. *)
LEMMA WholeReply ==
  ASSUME NEW r \in Requests
  PROVE  /\ Whole[r] \in Seq(Chunks)
         /\ Len(Whole[r]) = IF Classify(r) \in {"SENDFILE", "RUNCGI"} THEN 1 + MaxBody ELSE 1
         /\ Whole[r][1] = [what |-> PageOf(Classify(r)), part |-> 0]
         /\ \A k \in 2 .. Len(Whole[r]) : Whole[r][k] = [what |-> Argument(r), part |-> k - 1]
<1> DEFINE n == IF RightPage(r) \in {"400", "404"} THEN 1 ELSE 1 + MaxBody
           W == [k \in 1 .. n |->
                   [what |-> IF k = 1 THEN RightPage(r) ELSE r.path, part |-> k - 1]]
<1>1. Whole[r] = W
  BY DEF Whole
<1>2. r.path \in Paths /\ r.method \in {"GET", "OTHER"} /\ (r.query => r.path \in Absent \cup Executable)
  BY RequestsAssumption
<1>3. RightPage(r) \in Pages /\ MaxBody \in Nat /\ n \in Nat /\ n >= 1 /\ n <= 1 + MaxBody
  BY SizesAssumption DEF RightPage, Pages
<1>4. RightPage(r) = PageOf(Classify(r))
  BY <1>2 DEF RightPage, PageOf, Classify
<1>5. RightPage(r) \in {"400", "404"} <=> Classify(r) \notin {"SENDFILE", "RUNCGI"}
  BY <1>2 DEF RightPage, Classify
<1>6. Argument(r) = r.path \/ n = 1
  BY <1>5 DEF Argument
<1>7. \A k \in 1 .. n : [what |-> IF k = 1 THEN RightPage(r) ELSE r.path, part |-> k - 1] \in Chunks
  BY <1>2, <1>3 DEF Chunks
<1> HIDE DEF n
<1>8. W \in Seq(Chunks) /\ Len(W) = n
  BY <1>3, <1>7
<1>9. \A k \in 1 .. n : W[k] = [what |-> IF k = 1 THEN RightPage(r) ELSE r.path, part |-> k - 1]
  BY <1>3
<1>10. W[1] = [what |-> RightPage(r), part |-> 0]
  BY <1>3, <1>9
<1>11. \A k \in 2 .. n : W[k] = [what |-> Argument(r), part |-> k - 1]
  BY <1>3, <1>6, <1>9
<1> QED
  BY <1>1, <1>4, <1>5, <1>8, <1>10, <1>11 DEF n

(* Steps of DN_SendResponse leave the tables and the batch alone. *)
LEMMA ResponseFrame ==
  ASSUME IInv, pc \notin {"loop", "read"}, pc' \notin {"loop", "read"},
         pc' \in {"discard", "open", "body"} => HasBody,
         slot' = slot, epoll' = epoll, backlog' = backlog, sock' = sock, request' = request,
         cur' = cur, batch' = batch
  PROVE  EpollAgrees' /\ BatchFresh' /\ HandlerState'
<1>1. EpollAgrees'
  BY Owners, EpollFrame DEF IInv
<1>2. BatchFresh'
  BY DEF IInv, BatchFresh
<1>3. HandlerState'
  <2>1. \A j \in Slots : (Waiting(j) => Waiting(j)') /\ (Answering(j) => Answering(j)')
    BY DEF Waiting, Answering, InUse
  <2>2. Answering(cur)' /\ cur # DN_ACCEPT_EVENT
    BY <2>1, Running, Places
  <2> QED
    BY <2>1, <2>2, Places DEF IInv, HandlerState, HasBody
<1> QED
  BY <1>1, <1>2, <1>3

LEMMA DiscardRequestStep ==
  ASSUME IInv, DiscardRequest
  PROVE  IInv'
<1>1. /\ slot' = slot /\ epoll' = epoll /\ backlog' = backlog /\ sock' = sock
      /\ request' = request /\ reply' = reply /\ inflight' = inflight
      /\ cur' = cur /\ batch' = batch
      /\ pc \in {"discard", "pageDiscard"} /\ pc' \in {"pageDiscard", "page"}
  BY DEF DiscardRequest, Goto
<1>2. Conn \in Conns
  BY <1>1, Running
<1>3. TypeOK'
  BY <1>1, <1>2 DEF IInv, TypeOK, DiscardRequest, Received
<1>4. EpollAgrees' /\ BatchFresh' /\ HandlerState'
  BY <1>1, ResponseFrame
<1>5. ReplyState' /\ ReplyMatchesRequest'
  BY <1>1 DEF IInv, ReplyState, ReplyMatchesRequest
<1> QED
  BY <1>3, <1>4, <1>5 DEF IInv

LEMMA DiscardForeverStep ==
  ASSUME IInv, DiscardForever
  PROVE  IInv'
<1>1. Conn \in Conns
  BY Running DEF DiscardForever
<1>2. TypeOK'
  BY <1>1 DEF IInv, TypeOK, DiscardForever, Received, main
<1> QED
  BY <1>2, NetFrame DEF DiscardForever

(* The chunk that comes next of the reply under way. *)
NextChunk == Whole[request[Conn]][Len(reply[Conn]) + 1]

(* Sending the chunk that comes next keeps replies what they should be. *)
LEMMA SendKeeps ==
  ASSUME IInv, pc # "loop", NEW chunk, Send(chunk),
         Len(reply[Conn]) < Len(Whole[request[Conn]]),
         chunk = NextChunk
  PROVE  /\ reply' \in [Conns -> Seq(Chunks)]
         /\ inflight' \in [Conns -> 0 .. Window]
         /\ reply'[Conn] # << >>
         /\ \A c \in Conns \ {Conn} : reply'[c] = reply[c] /\ inflight'[c] = inflight[c]
         /\ ReplyMatchesRequest'
<1> DEFINE W == Whole[request[Conn]]
           old == reply[Conn]
           new == Append(old, chunk)
<1>1. /\ Conn \in Conns /\ request[Conn] \in Requests /\ request' = request
      /\ reply' = [reply EXCEPT ![Conn] = new] /\ inflight[Conn] < Window
      /\ inflight' = [inflight EXCEPT ![Conn] = @ + 1]
  BY Running DEF Send
<1>2. W \in Seq(Chunks) /\ old \in Seq(Chunks) /\ Len(old) < Len(W) /\ chunk = W[Len(old) + 1]
  BY <1>1, WholeReply DEF IInv, TypeOK, NextChunk
<1>3. old # << >> => \A k \in DOMAIN old : old[k] = W[k]
  BY <1>1 DEF IInv, ReplyMatchesRequest
<1> HIDE DEF W, old
<1>4. /\ new \in Seq(Chunks) /\ Len(new) = Len(old) + 1 /\ new # << >>
      /\ Len(new) <= Len(W)
      /\ \A k \in DOMAIN new : new[k] = W[k]
  <2>1. /\ Len(old) \in Nat /\ Len(W) \in Nat /\ chunk \in Chunks
        /\ DOMAIN old = 1 .. Len(old)
    BY <1>2
  <2>2. /\ new \in Seq(Chunks) /\ Len(new) = Len(old) + 1 /\ DOMAIN new = 1 .. Len(old) + 1
        /\ new[Len(old) + 1] = chunk /\ \A k \in 1 .. Len(old) : new[k] = old[k]
    BY <1>2, <2>1
  <2>3. new # << >>
    BY <2>1, <2>2
  <2>4. ASSUME NEW k \in 1 .. Len(old) PROVE old[k] = W[k]
    BY <1>3, <2>1, <1>2
  <2> HIDE DEF new
  <2>5. ASSUME NEW k \in DOMAIN new PROVE new[k] = W[k]
    <3>1. k \in 1 .. Len(old) \/ k = Len(old) + 1
      BY <2>1, <2>2
    <3> QED
      BY <3>1, <2>2, <2>4, <1>2
  <2> QED
    BY <1>2, <2>1, <2>2, <2>3, <2>5
<1> HIDE DEF new
<1>5. /\ reply' \in [Conns -> Seq(Chunks)] /\ reply'[Conn] = new
      /\ inflight' \in [Conns -> 0 .. Window]
      /\ \A c \in Conns \ {Conn} : reply'[c] = reply[c] /\ inflight'[c] = inflight[c]
  <2>1. reply \in [Conns -> Seq(Chunks)] /\ inflight \in [Conns -> 0 .. Window]
    BY DEF IInv, TypeOK
  <2>2. inflight[Conn] + 1 \in 0 .. Window
    BY <2>1, <1>1, SizesAssumption
  <2>3. reply' \in [Conns -> Seq(Chunks)] /\ reply'[Conn] = new
        /\ \A c \in Conns \ {Conn} : reply'[c] = reply[c]
    BY <2>1, <1>1, <1>4
  <2>4. inflight' \in [Conns -> 0 .. Window]
        /\ \A c \in Conns \ {Conn} : inflight'[c] = inflight[c]
    BY <2>1, <2>2, <1>1
  <2> QED
    BY <2>3, <2>4
<1>6. ASSUME NEW c \in Conns, reply'[c] # << >>
      PROVE  /\ Len(reply'[c]) <= Len(Whole[request'[c]])
             /\ \A k \in DOMAIN reply'[c] : reply'[c][k] = Whole[request'[c]][k]
  <2>1. CASE c = Conn
    BY <2>1, <1>1, <1>4, <1>5 DEF W
  <2>2. CASE c # Conn
    BY <2>2, <1>1, <1>5, <1>6 DEF IInv, ReplyMatchesRequest
  <2> QED
    BY <2>1, <2>2
<1> QED
  BY <1>4, <1>5, <1>6 DEF ReplyMatchesRequest

(* The page and every chunk of a body are what comes next of the reply. *)
LEMMA PageIsNext ==
  ASSUME IInv, pc = "page"
  PROVE  /\ reply[Conn] = << >>
         /\ [what |-> PageOf(slot[cur].type), part |-> 0] = NextChunk
         /\ Len(reply[Conn]) < Len(Whole[request[Conn]])
<1>1. Conn \in Conns /\ request[Conn] \in Requests /\ sock[Conn] = "open" /\ Answering(cur)
  BY Running
<1>2. reply[Conn] = << >>
  BY <1>1 DEF IInv, ReplyState
<1> QED
  BY <1>1, <1>2, WholeReply, SizesAssumption DEF Answering, Conn, NextChunk

(* The length of the reply to a request for a file or a program. *)
LEMMA BodyLength ==
  ASSUME IInv, pc \in {"open", "body"}
  PROVE  /\ Len(reply[Conn]) \in Nat \ {0}
         /\ Len(reply[Conn]) <= 1 + MaxBody
         /\ Len(Whole[request[Conn]]) = 1 + MaxBody
         /\ slot[cur].type = Classify(request[Conn]) /\ slot[cur].arg = Argument(request[Conn])
<1>1. Conn \in Conns /\ request[Conn] \in Requests /\ Answering(cur)
  BY Running
<1>2. reply[Conn] # << >> /\ HasBody
  BY DEF IInv, ReplyState, HandlerState
<1>3. reply[Conn] \in Seq(Chunks)
  BY <1>1 DEF IInv, TypeOK
<1>4. Len(reply[Conn]) \in Nat \ {0}
  BY <1>2, <1>3
<1>5. /\ slot[cur].type = Classify(request[Conn]) /\ slot[cur].arg = Argument(request[Conn])
      /\ Classify(request[Conn]) \in {"SENDFILE", "RUNCGI"}
  BY <1>1, <1>2 DEF Answering, Conn, HasBody
<1>6. Len(Whole[request[Conn]]) = 1 + MaxBody
  BY <1>1, <1>5, WholeReply
<1>7. Len(reply[Conn]) <= 1 + MaxBody
  BY <1>1, <1>2, <1>6 DEF IInv, ReplyMatchesRequest
<1> QED
  BY <1>4, <1>5, <1>6, <1>7

LEMMA BodyIsNext ==
  ASSUME IInv, pc = "body", ~EndOfFile
  PROVE  /\ [what |-> slot[cur].arg, part |-> BodySent + 1] = NextChunk
         /\ Len(reply[Conn]) < Len(Whole[request[Conn]])
<1>1. request[Conn] \in Requests
  BY Running
<1>2. Len(reply[Conn]) < 1 + MaxBody
  BY BodyLength, SizesAssumption DEF EndOfFile, BodySent
<1>3. /\ Len(reply[Conn]) + 1 \in 2 .. 1 + MaxBody
      /\ BodySent + 1 = (Len(reply[Conn]) + 1) - 1
  BY <1>2, BodyLength, SizesAssumption DEF BodySent
<1>4. NextChunk = [what |-> Argument(request[Conn]), part |-> (Len(reply[Conn]) + 1) - 1]
  BY <1>1, <1>3, BodyLength, WholeReply DEF NextChunk
<1> QED
  BY <1>2, <1>3, <1>4, BodyLength

LEMMA ResponsePageStep ==
  ASSUME IInv, ResponsePage
  PROVE  IInv'
<1> DEFINE chunk == [what |-> PageOf(slot[cur].type), part |-> 0]
<1>1. /\ slot' = slot /\ epoll' = epoll /\ backlog' = backlog /\ sock' = sock
      /\ request' = request /\ sent' = sent /\ taken' = taken /\ peer' = peer
      /\ cur' = cur /\ batch' = batch /\ pc = "page" /\ Send(chunk)
      /\ pc' = IF HasBody THEN "open" ELSE "finish"
  BY DEF ResponsePage, Goto, Send
<1>2. chunk = NextChunk /\ Len(reply[Conn]) < Len(Whole[request[Conn]])
  BY <1>1, PageIsNext
<1> HIDE DEF chunk
<1>5. /\ reply' \in [Conns -> Seq(Chunks)] /\ inflight' \in [Conns -> 0 .. Window]
      /\ reply'[Conn] # << >> /\ ReplyMatchesRequest'
      /\ \A c \in Conns \ {Conn} : reply'[c] = reply[c] /\ inflight'[c] = inflight[c]
  BY <1>1, <1>2, SendKeeps
<1>6. TypeOK'
  BY <1>1, <1>5 DEF IInv, TypeOK
<1>7. EpollAgrees' /\ BatchFresh' /\ HandlerState'
  BY <1>1, ResponseFrame
<1>8. ReplyState'
  BY <1>1, <1>5 DEF IInv, ReplyState, Conn
<1> QED
  BY <1>5, <1>6, <1>7, <1>8 DEF IInv

LEMMA OpenStep ==
  ASSUME IInv, OpenFile \/ RunProgram
  PROVE  IInv'
<1>1. /\ slot' = slot /\ epoll' = epoll /\ backlog' = backlog /\ sock' = sock
      /\ request' = request /\ reply' = reply /\ inflight' = inflight
      /\ sent' = sent /\ taken' = taken /\ peer' = peer
      /\ cur' = cur /\ batch' = batch /\ pc = "open" /\ pc' \in {"body", "finish"}
  BY DEF OpenFile, RunProgram, Opening, Goto, net
<1>2. HasBody
  BY <1>1 DEF IInv, HandlerState
<1>3. TypeOK'
  BY <1>1 DEF IInv, TypeOK
<1>4. EpollAgrees' /\ BatchFresh' /\ HandlerState'
  BY <1>1, <1>2, ResponseFrame
<1>5. ReplyState' /\ ReplyMatchesRequest'
  BY <1>1 DEF IInv, ReplyState, ReplyMatchesRequest, Conn
<1> QED
  BY <1>3, <1>4, <1>5 DEF IInv

LEMMA SendBodyStep ==
  ASSUME IInv, SendBody
  PROVE  IInv'
<1> DEFINE chunk == [what |-> slot[cur].arg, part |-> BodySent + 1]
<1>1. /\ slot' = slot /\ epoll' = epoll /\ backlog' = backlog /\ sock' = sock
      /\ request' = request /\ sent' = sent /\ taken' = taken /\ peer' = peer
      /\ cur' = cur /\ batch' = batch /\ pc = "body" /\ pc' = pc /\ Send(chunk)
      /\ ~EndOfFile
  BY DEF SendBody, Send, main
<1>2. chunk = NextChunk /\ Len(reply[Conn]) < Len(Whole[request[Conn]])
  BY <1>1, BodyIsNext
<1>3. HasBody
  BY <1>1 DEF IInv, HandlerState
<1> HIDE DEF chunk
<1>5. /\ reply' \in [Conns -> Seq(Chunks)] /\ inflight' \in [Conns -> 0 .. Window]
      /\ reply'[Conn] # << >> /\ ReplyMatchesRequest'
      /\ \A c \in Conns \ {Conn} : reply'[c] = reply[c] /\ inflight'[c] = inflight[c]
  BY <1>1, <1>2, SendKeeps
<1>6. TypeOK'
  BY <1>1, <1>5 DEF IInv, TypeOK
<1>7. EpollAgrees' /\ BatchFresh' /\ HandlerState'
  BY <1>1, <1>3, ResponseFrame
<1>8. ReplyState'
  BY <1>1, <1>5 DEF IInv, ReplyState, Conn
<1> QED
  BY <1>5, <1>6, <1>7, <1>8 DEF IInv

LEMMA EndStep ==
  ASSUME IInv, EndFile \/ EndProgram
  PROVE  IInv'
<1>1. /\ slot' = slot /\ epoll' = epoll /\ backlog' = backlog /\ sock' = sock
      /\ request' = request /\ reply' = reply /\ inflight' = inflight
      /\ sent' = sent /\ taken' = taken /\ peer' = peer
      /\ cur' = cur /\ batch' = batch /\ pc = "body" /\ pc' = "finish"
  BY DEF EndFile, EndProgram, Sending, Goto, net
<1>2. TypeOK'
  BY <1>1 DEF IInv, TypeOK
<1>3. EpollAgrees' /\ BatchFresh' /\ HandlerState'
  BY <1>1, ResponseFrame
<1>4. ReplyState' /\ ReplyMatchesRequest'
  BY <1>1 DEF IInv, ReplyState, ReplyMatchesRequest, Conn
<1> QED
  BY <1>2, <1>3, <1>4 DEF IInv

LEMMA SendFailsStep ==
  ASSUME IInv, SendFails
  PROVE  IInv'
<1>1. /\ slot' = slot /\ epoll' = epoll /\ backlog' = backlog /\ sock' = sock
      /\ request' = request /\ reply' = reply /\ inflight' = inflight
      /\ sent' = sent /\ taken' = taken
      /\ cur' = cur /\ batch' = batch /\ pc \in {"page", "body"} /\ pc' = "finish"
  BY DEF SendFails, Goto
<1>2. Conn \in Conns
  BY <1>1, Running
<1>3. TypeOK'
  BY <1>1, <1>2 DEF IInv, TypeOK, SendFails
<1>4. EpollAgrees' /\ BatchFresh' /\ HandlerState'
  BY <1>1, ResponseFrame
<1>5. ReplyState' /\ ReplyMatchesRequest'
  BY <1>1 DEF IInv, ReplyState, ReplyMatchesRequest, Conn
<1> QED
  BY <1>3, <1>4, <1>5 DEF IInv

LEMMA FinishHttpStep ==
  ASSUME IInv, FinishHttp
  PROVE  IInv'
<1> DEFINE c == Conn
<1>1. /\ pc = "finish" /\ pc' = "loop" /\ cur' = DN_ACCEPT_EVENT /\ batch' = batch
      /\ backlog' = backlog /\ request' = request /\ reply' = reply
      /\ sent' = sent /\ taken' = taken /\ peer' = peer
      /\ epoll' = {x \in epoll : x.fd # c}
      /\ slot' = [slot EXCEPT ![cur] = ZeroEvent]
      /\ sock' = [sock EXCEPT ![c] = "closed"]
      /\ inflight' = [inflight EXCEPT ![c] = 0]
  BY DEF FinishHttp, DelEvent, DestoryEvent, Conn
<1>2. /\ c \in Conns /\ sock[c] = "open" /\ InUse(cur) /\ c = slot[cur].fd
      /\ cur \in 0 .. MaxEvents - 1 /\ cur \in Slots /\ cur # DN_ACCEPT_EVENT
  BY <1>1, Running, Places DEF Conn
<1> HIDE DEF c
<1>3. ZeroEvent \in Event /\ ZeroEvent.status = "Void" /\ ZeroEvent.handler # "AcceptEvent"
  BY DEF ZeroEvent, Event
<1>4. slot' \in [Slots -> Event] /\ slot'[cur] = ZeroEvent /\ \A j \in Slots \ {cur} : slot'[j] = slot[j]
  BY <1>1, <1>2, <1>3 DEF IInv, TypeOK
<1>5. \A j \in Slots : InUse(j)' => InUse(j) /\ slot'[j] = slot[j] /\ j # cur /\ slot[j].fd # c
  <2>1. ASSUME NEW j \in Slots, InUse(j)' PROVE InUse(j) /\ slot'[j] = slot[j] /\ j # cur
    BY <2>1, <1>3, <1>4 DEF InUse
  <2> QED
    BY <2>1, <1>2 DEF IInv, EpollAgrees
<1>6. \A d \in Conns \ {c} : sock'[d] = sock[d] /\ inflight'[d] = inflight[d]
  BY <1>1, <1>2 DEF IInv, TypeOK
<1>7. sock'[c] = "closed"
  BY <1>1, <1>2 DEF IInv, TypeOK
<1>8. TypeOK'
  <2>1. IsFiniteSet(epoll')
    BY <1>1, FS_Subset DEF IInv, TypeOK
  <2> QED
    BY <1>1, <1>2, <1>4, <2>1, Places, SizesAssumption DEF IInv, TypeOK
<1>9. EpollAgrees'
  <2>1. ASSUME NEW j \in Slots, InUse(j)'
        PROVE  Interest(slot'[j].fd, j, slot'[j].events) \in epoll'
    <3>1. Interest(slot[j].fd, j, slot[j].events) \in epoll /\ slot[j].fd # c /\ slot'[j] = slot[j]
      BY <2>1, <1>5 DEF IInv, EpollAgrees
    <3> QED
      BY <3>1, <1>1 DEF Interest
  <2>2. ASSUME NEW x \in epoll'
        PROVE  InUse(x.slot)' /\ slot'[x.slot].fd = x.fd /\ slot'[x.slot].events = x.events
    <3>1. x \in epoll /\ x.fd # c
      BY <1>1
    <3>2. x.slot \in Slots /\ InUse(x.slot) /\ slot[x.slot].fd = x.fd /\ slot[x.slot].events = x.events
      BY <3>1 DEF IInv, TypeOK, EpollAgrees
    <3> QED
      BY <3>1, <3>2, <1>2, <1>4 DEF InUse
  <2>3. ASSUME NEW j \in Slots, NEW k \in Slots, InUse(j)', InUse(k)', slot'[j].fd = slot'[k].fd
        PROVE  j = k
    BY <2>3, <1>5 DEF IInv, EpollAgrees
  <2>4. ASSUME NEW j \in Slots, InUse(j)', slot'[j].fd # Listener
        PROVE  sock'[slot'[j].fd] = "open"
    BY <2>4, <1>5, <1>6, Owners
  <2> QED
    BY <2>1, <2>2, <2>3, <2>4 DEF EpollAgrees
<1>10. BatchFresh'
  <2>1. \A n \in DOMAIN batch : batch[n] \in epoll /\ batch[n].slot # cur
    BY <1>1 DEF IInv, BatchFresh
  <2>2. \A x \in epoll : x.slot # cur => x.fd # c
    <3>1. ASSUME NEW x \in epoll, x.fd = c PROVE x.slot = cur
      <4>1. x.slot \in Slots /\ InUse(x.slot) /\ slot[x.slot].fd = x.fd
        BY DEF IInv, TypeOK, EpollAgrees
      <4> QED
        BY <3>1, <4>1, <1>2 DEF IInv, EpollAgrees
    <3> QED
      BY <3>1
  <2>3. \A n \in DOMAIN batch : batch[n] \in epoll' /\ batch[n].fd # c
    BY <1>1, <2>1, <2>2
  <2> QED
    BY <1>1, <2>3 DEF IInv, BatchFresh
<1>11. HandlerState'
  <2>1. \A j \in Slots \ {cur} : (Waiting(j) => Waiting(j)') /\ (Answering(j) => Answering(j)')
    BY <1>1, <1>4 DEF Waiting, Answering, InUse
  <2>2. \A j \in 0 .. MaxEvents - 1 :
          (slot'[j].status = "Void" /\ slot'[j].handler # "AcceptEvent") \/ Waiting(j)' \/ Answering(j)'
    BY <1>3, <1>4, <2>1, Places DEF IInv, HandlerState
  <2>3. slot'[DN_ACCEPT_EVENT] = slot[DN_ACCEPT_EVENT]
    BY <1>2, <1>4, Places
  <2> QED
    BY <1>1, <2>2, <2>3 DEF IInv, HandlerState
<1>12. ReplyState'
  <2>1. \A n \in DOMAIN backlog : backlog[n] \in Conns /\ backlog[n] # c
    BY <1>2 DEF IInv, TypeOK, ReplyState
  <2>2. \A n \in DOMAIN backlog' : sock'[backlog'[n]] = "backlog"
    BY <1>1, <1>6, <2>1 DEF IInv, ReplyState
  <2>3. \A d \in Conns : sock'[d] # "none" => request'[d] \in Requests
    BY <1>1, <1>2, <1>6 DEF IInv, ReplyState
  <2>4. \A d \in Conns : sock'[d] = "closed" \/ (reply'[d] = << >> /\ inflight'[d] = 0)
    BY <1>1, <1>6, <1>7 DEF IInv, ReplyState, c
  <2> QED
    BY <1>1, <2>2, <2>3, <2>4 DEF IInv, ReplyState
<1>13. ReplyMatchesRequest'
  BY <1>1 DEF IInv, ReplyMatchesRequest
<1> QED
  BY <1>8, <1>9, <1>10, <1>11, <1>12, <1>13 DEF IInv

-----------------------------------------------------------------------------
LEMMA Inductive == IInv /\ [Next]_vars => IInv'
<1> SUFFICES ASSUME IInv, [Next]_vars PROVE IInv'
  OBVIOUS
<1>1. ASSUME NEW c \in Conns, Client(c) PROVE IInv'
  BY <1>1, ClientStep
<1>2. CASE WaitEvent
  BY <1>2, WaitEventStep
<1>3. CASE RunHandler
  BY <1>3, RunHandlerStep
<1>4. CASE AcceptFails
  BY <1>4, AcceptFailsStep
<1>5. ASSUME NEW c \in Conns, AcceptEvent(c) \/ AcceptLimit(c) \/ AcceptAborted(c) PROVE IInv'
  BY <1>5, AcceptEventStep, AcceptLimitStep, AcceptAbortedStep
<1>6. CASE ReadMore \/ ReadFails \/ AcceptRequest
  BY <1>6, ReadMoreStep, ReadFailsStep, AcceptRequestStep
<1>7. CASE DiscardRequest \/ DiscardForever
  BY <1>7, DiscardRequestStep, DiscardForeverStep
<1>8. CASE \/ ResponsePage \/ OpenFile \/ RunProgram
          \/ SendBody \/ EndFile \/ EndProgram \/ SendFails
  BY <1>8, ResponsePageStep, OpenStep, SendBodyStep, EndStep, SendFailsStep
<1>9. CASE FinishHttp
  BY <1>9, FinishHttpStep
<1>10. CASE UNCHANGED vars
  <2>1. /\ slot' = slot /\ epoll' = epoll /\ backlog' = backlog /\ sock' = sock
        /\ request' = request /\ net' = net /\ reply' = reply /\ main' = main
    BY <1>10 DEF vars
  <2>2. TypeOK'
    BY <2>1 DEF IInv, TypeOK, net, main
  <2> QED
    BY <2>1, <2>2, NetFrame DEF net
<1> QED
  BY <1>1, <1>2, <1>3, <1>4, <1>5, <1>6, <1>7, <1>8, <1>9, <1>10 DEF Next, Server

(* IInv holds in every state the server can reach, whatever the number of  *)
(* clients and entries, and whatever order events are reported in.         *)
THEOREM Invariance == Spec => []IInv
<1>1. Init => IInv
  BY InitIInv
<1>2. IInv /\ [Next]_vars => IInv'
  BY Inductive
<1> QED
  BY <1>1, <1>2, PTL DEF Spec

(* The variables keep their types and epevs does not overflow. *)
THEOREM TypeCorrect == Spec => []TypeOK
<1>1. IInv => TypeOK
  BY DEF IInv
<1> QED
  BY <1>1, Invariance, PTL

(* The event table and the kernel's interest list always agree. *)
THEOREM TablesAgree == Spec => []EpollAgrees
<1>1. IInv => EpollAgrees
  BY DEF IInv
<1> QED
  BY <1>1, Invariance, PTL

(* No event is ever dispatched to a connection it was not reported for. *)
THEOREM EventsFresh == Spec => []BatchFresh
<1>1. IInv => BatchFresh
  BY DEF IInv
<1> QED
  BY <1>1, Invariance, PTL

(* The handler of an entry and what it knows fit the request it serves. *)
THEOREM HandlersFit == Spec => []HandlerState
<1>1. IInv => HandlerState
  BY DEF IInv
<1> QED
  BY <1>1, Invariance, PTL

(* No client ever receives a piece of a reply that is not its own. *)
THEOREM RepliesMatch == Spec => []ReplyMatchesRequest
<1>1. IInv => ReplyMatchesRequest
  BY DEF IInv
<1> QED
  BY <1>1, Invariance, PTL

-----------------------------------------------------------------------------
(* The service.  Places of the service are entries of the event table in   *)
(* use, the listener's left aside.                                         *)

LEMMA PhaseFacts ==
  ASSUME IInv, NEW c \in Conns
  PROVE  /\ Phase(c) = "absent" <=> sock[c] = "none"
         /\ Phase(c) = "waiting" <=> sock[c] = "backlog"
         /\ Phase(c) = "served" <=> Serving(c)
         /\ Phase(c) = "refused" <=> sock[c] = "open" /\ ~Serving(c)
         /\ Phase(c) = "done" <=> sock[c] = "closed"
         /\ Serving(c) => sock[c] = "open"
<1>1. Serving(c) => sock[c] = "open"
  <2> SUFFICES ASSUME NEW i \in 0 .. MaxEvents - 1, InUse(i), slot[i].fd = c
               PROVE  sock[c] = "open"
    BY DEF Serving
  <2> QED
    BY Places, Owners
<1>2. sock[c] \in {"none", "backlog", "open", "closed"}
  BY DEF IInv, TypeOK
<1> QED
  BY <1>1, <1>2 DEF Phase

(* Each connection served has one entry, each entry in use below the       *)
(* listener's one connection: there is a free entry as long as fewer than  *)
(* MaxEvents connections are served, and no longer.                        *)
LEMMA ServedCount ==
  ASSUME IInv
  PROVE  /\ FreeSlots # {} => Cardinality({c \in Conns : Serving(c)}) < MaxEvents
         /\ FreeSlots = {} => Cardinality({c \in Conns : Serving(c)}) = MaxEvents
<1> DEFINE All == 0 .. MaxEvents - 1
           Used == {i \in All : InUse(i)}
           Clients == {c \in Conns : Serving(c)}
           f == [i \in Used |-> slot[i].fd]
<1>1. IsFiniteSet(All) /\ Cardinality(All) = MaxEvents /\ MaxEvents \in Nat
  <2>1. MaxEvents \in Nat /\ MaxEvents > 0 /\ 0 \in Int /\ MaxEvents - 1 \in Int
    BY SizesAssumption
  <2>2. IsFiniteSet(All) /\ Cardinality(All) = IF 0 > MaxEvents - 1 THEN 0 ELSE (MaxEvents - 1) - 0 + 1
    BY <2>1, FS_Interval
  <2> QED
    BY <2>1, <2>2
<1>2. /\ IsFiniteSet(Used) /\ Cardinality(Used) <= MaxEvents
      /\ Cardinality(Used) = MaxEvents => Used = All
  BY <1>1, FS_Subset
<1>3. Cardinality(Used) \in Nat
  BY <1>2, FS_CardinalityType
<1>4. \A i \in Used : i \in Slots /\ i # DN_ACCEPT_EVENT
  BY Places
<1>5. ASSUME NEW i \in Used PROVE slot[i].fd \in Clients
  <2>1. slot[i].fd \in Conns
    BY <1>4, Owners
  <2> QED
    BY <2>1 DEF Serving
<1>6. \A i, j \in Used : slot[i].fd = slot[j].fd => i = j
  BY <1>4 DEF IInv, EpollAgrees
<1>7. \A c \in Clients : \E i \in Used : slot[i].fd = c
  BY DEF Serving
<1> HIDE DEF Used, Clients
<1>8. f \in Bijection(Used, Clients)
  BY <1>5, <1>6, <1>7 DEF Bijection, Injection, Surjection, IsInjective
<1>9. Cardinality(Clients) = Cardinality(Used)
  BY <1>2, <1>8, FS_Bijection DEF ExistsBijection
<1>10. FreeSlots = All \ Used
  BY DEF FreeSlots, Used, InUse
<1>11. Used \subseteq All
  BY DEF Used
<1>12. FreeSlots = {} => Cardinality(Clients) = MaxEvents
  <2> SUFFICES ASSUME FreeSlots = {} PROVE Cardinality(Clients) = MaxEvents
    OBVIOUS
  <2>1. Used = All
    BY <1>10, <1>11
  <2> QED
    BY <2>1, <1>1, <1>9
<1>13. FreeSlots # {} => Cardinality(Clients) < MaxEvents
  <2> SUFFICES ASSUME FreeSlots # {} PROVE Cardinality(Clients) < MaxEvents
    OBVIOUS
  <2>1. Used # All
    BY <1>10, <1>11
  <2> QED
    BY <2>1, <1>1, <1>2, <1>3, <1>9
<1> QED
  BY <1>12, <1>13 DEF Clients

(* What entries serve changes with their status and descriptors only. *)
LEMMA ServingFrame ==
  ASSUME \A i \in 0 .. MaxEvents - 1 :
           (InUse(i)' <=> InUse(i)) /\ (InUse(i) => slot'[i].fd = slot[i].fd)
  PROVE  \A c \in Conns : Serving(c)' <=> Serving(c)
  BY DEF Serving

LEMMA SameTable ==
  ASSUME slot' = slot
  PROVE  \A c \in Conns : Serving(c)' <=> Serving(c)
  BY DEF Serving, InUse

Quiet == UNCHANGED <<backlog, sock, request, reply>> /\ \A c \in Conns : Serving(c)' <=> Serving(c)

LEMMA QuietStutters ==
  ASSUME Quiet
  PROVE  UNCHANGED Service!vars
<1>1. \A c \in Conns : Phase(c)' = Phase(c)
  BY DEF Quiet, Phase
<1>2. [c \in Conns |-> Phase(c)]' = [c \in Conns |-> Phase(c)]
  BY <1>1
<1> QED
  BY <1>2 DEF Quiet, Service!vars

(* One connection changes its phase, the others keep theirs. *)
LEMMA OnePhase ==
  ASSUME NEW c \in Conns, NEW where, Phase(c)' = where,
         \A d \in Conns \ {c} : sock'[d] = sock[d] /\ (Serving(d)' <=> Serving(d))
  PROVE  [d \in Conns |-> Phase(d)]' = [[d \in Conns |-> Phase(d)] EXCEPT ![c] = where]
<1>1. \A d \in Conns \ {c} : Phase(d)' = Phase(d)
  BY DEF Phase
<1> QED
  BY <1>1

LEMMA ConnectArrives ==
  ASSUME IInv, NEW c \in Conns, NEW r \in Requests, Connect(c, r)
  PROVE  Service!Arrive(c, r)
<1>1. /\ sock[c] = "none" /\ sock' = [sock EXCEPT ![c] = "backlog"]
      /\ backlog' = Append(backlog, c) /\ request' = [request EXCEPT ![c] = r]
      /\ slot' = slot /\ reply' = reply
  BY DEF Connect
<1>2. sock'[c] = "backlog" /\ \A d \in Conns \ {c} : sock'[d] = sock[d]
  BY <1>1 DEF IInv, TypeOK
<1>3. \A d \in Conns : Serving(d)' <=> Serving(d)
  BY <1>1, SameTable
<1>4. Phase(c) = "absent" /\ Phase(c)' = "waiting"
  BY <1>1, <1>2 DEF Phase
<1>5. [d \in Conns |-> Phase(d)]' = [[d \in Conns |-> Phase(d)] EXCEPT ![c] = "waiting"]
  BY <1>2, <1>3, <1>4, OnePhase
<1> QED
  BY <1>1, <1>4, <1>5 DEF Service!Arrive

LEMMA AcceptedLeaves ==
  ASSUME IInv, NEW c \in Conns, Accepted(c), NEW where, Phase(c)' = where,
         \A d \in Conns \ {c} : Serving(d)' <=> Serving(d)
  PROVE  Service!Leave(c, where)
<1>1. /\ backlog # << >> /\ c = Head(backlog) /\ backlog' = Tail(backlog)
      /\ sock' = [sock EXCEPT ![c] = "open"] /\ request' = request /\ reply' = reply
  BY AcceptFacts
<1>2. \A d \in Conns \ {c} : sock'[d] = sock[d]
  BY <1>1 DEF IInv, TypeOK
<1>3. [d \in Conns |-> Phase(d)]' = [[d \in Conns |-> Phase(d)] EXCEPT ![c] = where]
  BY <1>2, OnePhase
<1> QED
  BY <1>1, <1>3 DEF Service!Leave

LEMMA ServedAre ==
  ASSUME IInv
  PROVE  Service!Served = {c \in Conns : Serving(c)}
  BY PhaseFacts DEF Service!Served

LEMMA AcceptEventAdmits ==
  ASSUME IInv, NEW c \in Conns, AcceptEvent(c)
  PROVE  Service!Admit(c)
<1>1. Accepted(c)
  BY DEF AcceptEvent
<1>2. PICK i \in FreeSlots : AddEvent(i, InitEvent(c, "AcceptRequest"), "IN")
  BY DEF AcceptEvent
<1>3. i \in 0 .. MaxEvents - 1 /\ ~InUse(i) /\ i \in Slots
  BY Places DEF FreeSlots, InUse
<1>4. slot'[i].fd = c /\ slot'[i].status = "Inuse" /\ \A j \in Slots \ {i} : slot'[j] = slot[j]
  BY <1>2, <1>3 DEF AddEvent, InitEvent, ZeroEvent, IInv, TypeOK
<1>5. sock'[c] = "open"
  BY <1>1, AcceptTypes
<1>6. Serving(c)'
  BY <1>3, <1>4 DEF Serving, InUse
<1>7. ASSUME NEW d \in Conns \ {c} PROVE Serving(d)' <=> Serving(d)
  BY <1>3, <1>4, Places DEF Serving, InUse
<1>8. Phase(c)' = "served"
  BY <1>5, <1>6 DEF Phase
<1>9. Service!Leave(c, "served")
  BY <1>1, <1>7, <1>8, AcceptedLeaves
<1>10. Cardinality(Service!Served) < MaxEvents
  BY ServedCount, ServedAre
<1> QED
  BY <1>9, <1>10 DEF Service!Admit, Service!Cardinality, Cardinality

LEMMA AcceptLimitRefuses ==
  ASSUME IInv, NEW c \in Conns, AcceptLimit(c)
  PROVE  Service!Refuse(c)
<1>1. Accepted(c) /\ slot' = slot /\ FreeSlots = {}
  BY DEF AcceptLimit
<1>2. \A d \in Conns : Serving(d)' <=> Serving(d)
  BY <1>1, SameTable
<1>3. sock'[c] = "open" /\ sock[c] = "backlog"
  BY <1>1, AcceptTypes, AcceptFacts
<1>4. Phase(c)' = "refused"
  BY <1>2, <1>3, PhaseFacts DEF Phase
<1>5. Service!Leave(c, "refused")
  BY <1>1, <1>2, <1>4, AcceptedLeaves
<1>6. Cardinality(Service!Served) = MaxEvents
  BY <1>1, ServedCount, ServedAre
<1> QED
  BY <1>5, <1>6 DEF Service!Refuse, Service!Cardinality, Cardinality

LEMMA AcceptAbortedRefuses ==
  ASSUME IInv, NEW c \in Conns, AcceptAborted(c)
  PROVE  Service!Refuse(c)
<1>1. Accepted(c) /\ Failures
  BY DEF AcceptAborted
<1>2. PICK i \in FreeSlots, ev \in {"NONE", "IN"} :
        slot' = [slot EXCEPT ![i] = [InitEvent(c, "AcceptRequest") EXCEPT !.events = ev]]
  BY DEF AcceptAborted
<1>3. i \in 0 .. MaxEvents - 1 /\ ~InUse(i) /\ i \in Slots
  BY Places DEF FreeSlots, InUse
<1>4. slot'[i].status = "Void" /\ \A j \in Slots \ {i} : slot'[j] = slot[j]
  BY <1>2, <1>3 DEF InitEvent, ZeroEvent, IInv, TypeOK
<1>5. \A j \in 0 .. MaxEvents - 1 :
        (InUse(j)' <=> InUse(j)) /\ (InUse(j) => slot'[j].fd = slot[j].fd)
  BY <1>3, <1>4, Places DEF InUse
<1>6. \A d \in Conns : Serving(d)' <=> Serving(d)
  BY <1>5, ServingFrame
<1>7. sock'[c] = "open" /\ sock[c] = "backlog"
  BY <1>1, AcceptTypes, AcceptFacts
<1>8. Phase(c)' = "refused"
  BY <1>6, <1>7, PhaseFacts DEF Phase
<1>9. Service!Leave(c, "refused")
  BY <1>1, <1>6, <1>8, AcceptedLeaves
<1> QED
  BY <1>1, <1>9 DEF Service!Refuse

LEMMA SendAnswers ==
  ASSUME IInv, pc # "loop", pc \in {"page", "open", "body"}, NEW chunk, Send(chunk),
         Len(reply[Conn]) < Len(Whole[request[Conn]]), chunk = NextChunk
  PROVE  Service!Answer(Conn)
<1> DEFINE c == Conn
<1>1. /\ c \in Conns /\ Serving(c) /\ sock[c] = "open"
  BY Running DEF Serving, Conn
<1>2. /\ reply' = [reply EXCEPT ![c] = Append(@, chunk)]
      /\ slot' = slot /\ backlog' = backlog /\ sock' = sock /\ request' = request
  BY DEF Send
<1>3. Phase(c) = "served"
  BY <1>1, PhaseFacts
<1>4. [d \in Conns |-> Phase(d)]' = [d \in Conns |-> Phase(d)]
  BY <1>2, SameTable DEF Phase
<1>5. ASSUME NEW d \in Conns \ {c} PROVE ~Service!MidReply(d)
  <2>1. Phase(d) = "served" => sock[d] = "open"
    BY PhaseFacts
  <2>2. sock[d] = "open" => reply[d] = << >>
    BY <1>5 DEF IInv, ReplyState
  <2> QED
    BY <2>1, <2>2 DEF Service!MidReply
<1>6. reply \in [Conns -> Seq(Chunks)]
  BY DEF IInv, TypeOK
<1>7. reply' = [reply EXCEPT ![c] = Append(@, Whole[request[c]][Len(@) + 1])]
  BY <1>1, <1>2, <1>6 DEF NextChunk
<1> HIDE DEF c
<1>8. Len(reply[c]) < Len(Whole[request[c]])
  BY DEF c
<1>9. Service!Answer(c)
  BY <1>1, <1>2, <1>3, <1>4, <1>5, <1>7, <1>8 DEF Service!Answer
<1> QED
  BY <1>9 DEF c

LEMMA FinishCloses ==
  ASSUME IInv, FinishHttp
  PROVE  Service!Close(Conn)
<1>0. PICK c \in Conns : c = Conn
  BY Running DEF FinishHttp
<1>1. /\ pc = "finish" /\ backlog' = backlog /\ request' = request /\ reply' = reply
      /\ slot' = [slot EXCEPT ![cur] = ZeroEvent]
      /\ sock' = [sock EXCEPT ![c] = "closed"]
  BY <1>0 DEF FinishHttp, DestoryEvent, Conn
<1>2. /\ c \in Conns /\ sock[c] = "open" /\ InUse(cur) /\ c = slot[cur].fd
      /\ cur \in 0 .. MaxEvents - 1 /\ cur \in Slots
  BY <1>0, <1>1, Running, Places DEF Conn
<1>3. slot'[cur].status = "Void" /\ \A j \in Slots \ {cur} : slot'[j] = slot[j]
  BY <1>1, <1>2 DEF ZeroEvent, IInv, TypeOK
<1>4. sock'[c] = "closed" /\ \A d \in Conns \ {c} : sock'[d] = sock[d]
  BY <1>1, <1>2 DEF IInv, TypeOK
<1>5. ASSUME NEW d \in Conns \ {c} PROVE Serving(d)' <=> Serving(d)
  BY <1>2, <1>3, Places DEF Serving, InUse
<1>6. Phase(c) = "served"
  BY <1>2, PhaseFacts DEF Serving
<1>7. Phase(c)' = "done"
  BY <1>4 DEF Phase
<1>8. [d \in Conns |-> Phase(d)]' = [[d \in Conns |-> Phase(d)] EXCEPT ![c] = "done"]
  BY <1>2, <1>4, <1>5, <1>7, OnePhase
<1>9. Service!Close(c)
  BY <1>1, <1>2, <1>6, <1>8 DEF Service!Close
<1> QED
  BY <1>0, <1>9

(* The steps the service does not see. *)
LEMMA OthersQuiet ==
  ASSUME IInv,
         \/ \E c \in Conns : SendPiece(c) \/ PeerFin(c) \/ PeerReset(c) \/ PeerRead(c)
         \/ WaitEvent \/ RunHandler \/ AcceptFails
         \/ ReadMore \/ ReadFails \/ AcceptRequest
         \/ DiscardRequest \/ DiscardForever
         \/ OpenFile \/ RunProgram \/ EndFile \/ EndProgram \/ SendFails
         \/ UNCHANGED vars
  PROVE  Quiet
<1>1. CASE AcceptRequest
  <2> DEFINE e == [slot[cur] EXCEPT !.type = Classify(request[Conn]),
                                    !.arg = Argument(request[Conn]), !.handler = "SendResponse"]
             e2 == [e EXCEPT !.events = "OUT", !.status = "Inuse"]
  <2>1. /\ AddEvent(cur, e, "OUT") /\ pc = "read"
        /\ UNCHANGED <<backlog, sock, request, reply>>
    BY <1>1 DEF AcceptRequest, Rearmed
  <2>2. cur \in 0 .. MaxEvents - 1 /\ cur \in Slots /\ InUse(cur)
    BY <2>1, Running, Places
  <2>3. slot \in [Slots -> Event] /\ slot[cur] \in Event
    BY <2>2 DEF IInv, TypeOK
  <2>4. e2.fd = slot[cur].fd /\ e2.status = "Inuse"
    BY <2>3 DEF Event
  <2>5. slot' = [slot EXCEPT ![cur] = e2]
    BY <2>1 DEF AddEvent
  <2> HIDE DEF e2
  <2>6. slot'[cur] = e2 /\ \A j \in Slots \ {cur} : slot'[j] = slot[j]
    BY <2>2, <2>3, <2>5
  <2>8. \A c \in Conns : Serving(c)' <=> Serving(c)
    BY <2>2, <2>4, <2>6, Places, ServingFrame DEF InUse
  <2> QED
    BY <2>1, <2>8 DEF Quiet
<1>2. CASE \E c \in Conns : SendPiece(c) \/ PeerFin(c) \/ PeerReset(c) \/ PeerRead(c)
  <2>1. UNCHANGED <<slot, backlog, sock, request, reply>>
    BY <1>2 DEF SendPiece, PeerFin, PeerReset, PeerRead
  <2> QED
    BY <2>1, SameTable DEF Quiet
<1>3. CASE WaitEvent \/ RunHandler \/ AcceptFails \/ ReadMore \/ ReadFails \/ UNCHANGED vars
  <2>1. UNCHANGED <<slot, backlog, sock, request, reply>>
    BY <1>3 DEF WaitEvent, RunHandler, AcceptFails, ReadMore, ReadFails, vars
  <2> QED
    BY <2>1, SameTable DEF Quiet
<1>4. CASE \/ DiscardRequest \/ DiscardForever
           \/ OpenFile \/ RunProgram \/ EndFile \/ EndProgram \/ SendFails
  <2>1. UNCHANGED <<slot, backlog, sock, request, reply>>
    BY <1>4 DEF DiscardRequest, DiscardForever, OpenFile, RunProgram, EndFile, EndProgram, SendFails
  <2> QED
    BY <2>1, SameTable DEF Quiet
<1> QED
  BY <1>1, <1>2, <1>3, <1>4

(* The server serves its clients as HttpService promises: first come,      *)
(* first served, nobody turned away while an entry is free and nothing has *)
(* failed, the right pieces in their order, one reply at a time.           *)
THEOREM Serves == Spec => ImplementsService
<1>1. Init => Service!Init
  <2> SUFFICES ASSUME Init PROVE Service!Init
    OBVIOUS
  <2>1. /\ \A c \in Conns : Phase(c) = "absent"
        /\ backlog = << >>
        /\ request = [c \in Conns |-> None]
        /\ reply = [c \in Conns |-> << >>]
    BY DEF Init, Phase
  <2> QED
    BY <2>1 DEF Service!Init
<1>2. IInv /\ [Next]_vars => [Service!Next]_Service!vars
  <2> SUFFICES ASSUME IInv, [Next]_vars PROVE [Service!Next]_Service!vars
    OBVIOUS
  <2>1. ASSUME NEW c \in Conns, NEW r \in Requests, Connect(c, r) PROVE Service!Next
    BY <2>1, ConnectArrives DEF Service!Next
  <2>2. ASSUME NEW c \in Conns, AcceptEvent(c) \/ AcceptLimit(c) \/ AcceptAborted(c)
        PROVE  Service!Next
    BY <2>2, AcceptEventAdmits, AcceptLimitRefuses, AcceptAbortedRefuses DEF Service!Next
  <2>3. CASE ResponsePage
    <3>1. pc = "page" /\ Send([what |-> PageOf(slot[cur].type), part |-> 0])
      BY <2>3 DEF ResponsePage
    <3>2. Service!Answer(Conn)
      BY <3>1, PageIsNext, SendAnswers
    <3>3. Conn \in Conns
      BY <3>1, Running
    <3> QED
      BY <3>2, <3>3 DEF Service!Next
  <2>4. CASE SendBody
    <3>1. pc = "body" /\ ~EndOfFile /\ Send([what |-> slot[cur].arg, part |-> BodySent + 1])
      BY <2>4 DEF SendBody
    <3>2. Service!Answer(Conn)
      BY <3>1, BodyIsNext, SendAnswers
    <3>3. Conn \in Conns
      BY <3>1, Running
    <3> QED
      BY <3>2, <3>3 DEF Service!Next
  <2>5. CASE FinishHttp
    <3>1. Conn \in Conns
      BY <2>5, Running DEF FinishHttp
    <3> QED
      BY <2>5, <3>1, FinishCloses DEF Service!Next
  <2>6. CASE \/ \E c \in Conns : SendPiece(c) \/ PeerFin(c) \/ PeerReset(c) \/ PeerRead(c)
            \/ WaitEvent \/ RunHandler \/ AcceptFails
            \/ ReadMore \/ ReadFails \/ AcceptRequest
            \/ DiscardRequest \/ DiscardForever
            \/ OpenFile \/ RunProgram \/ EndFile \/ EndProgram \/ SendFails
            \/ UNCHANGED vars
    BY <2>6, OthersQuiet, QuietStutters
  <2> QED
    BY <2>1, <2>2, <2>3, <2>4, <2>5, <2>6 DEF Next, Server, Client
<1> QED
  BY Invariance, <1>1, <1>2, PTL DEF Spec, ImplementsService, Service!Spec

-----------------------------------------------------------------------------
(* Complete replies.                                                       *)

(* The reply is whole, or the client has reset the connection, or          *)
(* something failed.                                                       *)
Complete(c) ==
  \/ Failures \/ peer[c] = "gone"
  \/ /\ reply[c] # << >>
     /\ reply[c][1].what = "200" => Len(reply[c]) = Len(Whole[request[c]])

(* A handler reaches FINISH with its reply complete. *)
RInv == ReplyComplete /\ (pc = "finish" => Complete(Conn))

LEMMA CompleteFrame ==
  ASSUME NEW c \in Conns, Complete(c), reply'[c] = reply[c], request'[c] = request[c],
         peer[c] = "gone" => peer'[c] = "gone"
  PROVE  Complete(c)'
  BY DEF Complete

(* What no step undoes for a connection that is closed or about to be. *)
LEMMA Lasting ==
  ASSUME IInv, [Next]_vars, NEW c \in Conns,
         sock[c] = "closed" \/ (sock[c] = "open" /\ pc = "finish")
  PROVE  /\ sock[c] = "closed" => sock'[c] = "closed"
         /\ reply'[c] = reply[c]
         /\ request'[c] = request[c]
         /\ peer[c] = "gone" => peer'[c] = "gone"
<1>1. /\ sock \in [Conns -> {"none", "backlog", "open", "closed"}]
      /\ peer \in [Conns -> {"alive", "fin", "rst", "gone"}]
      /\ request \in [Conns -> Requests \cup {None}]
      /\ reply \in [Conns -> Seq(Chunks)]
  BY DEF IInv, TypeOK
<1>2. pc # "loop" => Conn \in Conns /\ sock[Conn] = "open"
  BY Running
<1>3. CASE \E d \in Conns : Client(d)
  BY <1>1, <1>3 DEF Client, Connect, SendPiece, PeerFin, PeerReset, PeerRead, Connected, net
<1>4. ASSUME NEW d \in Conns, AcceptEvent(d) \/ AcceptLimit(d) \/ AcceptAborted(d)
      PROVE  /\ sock[c] = "closed" => sock'[c] = "closed"
             /\ UNCHANGED <<reply, request, peer>>
  <2>1. Accepted(d)
    BY <1>4 DEF AcceptEvent, AcceptLimit, AcceptAborted
  <2> QED
    BY <1>1, <2>1, AcceptFacts
<1>5. CASE WaitEvent \/ RunHandler \/ AcceptFails \/ ReadMore \/ AcceptRequest
           \/ DiscardForever \/ OpenFile \/ RunProgram \/ EndFile \/ EndProgram
           \/ UNCHANGED vars
  <2>1. UNCHANGED <<sock, request, reply, peer>>
    BY <1>5 DEF WaitEvent, RunHandler, AcceptFails, ReadMore, AcceptRequest,
         DiscardForever, OpenFile, RunProgram, EndFile, EndProgram, vars, net
  <2> QED
    BY <2>1
<1>6. CASE ReadFails \/ DiscardRequest \/ SendFails
  <2>1. UNCHANGED <<sock, request, reply>> /\ pc # "loop"
        /\ peer' \in {[peer EXCEPT ![Conn] = "gone"], peer}
    BY <1>1, <1>6 DEF ReadFails, DiscardRequest, SendFails
  <2> QED
    BY <1>1, <1>2, <2>1
<1>7. CASE ResponsePage \/ SendBody
  <2>1. UNCHANGED <<sock, request, peer>> /\ pc \in {"page", "body"}
        /\ \E chunk : reply' = [reply EXCEPT ![Conn] = Append(@, chunk)]
    BY <1>7 DEF ResponsePage, SendBody, Send
  <2>2. c # Conn
    BY <1>2, <2>1
  <2> QED
    BY <1>1, <1>2, <2>1, <2>2
<1>8. CASE FinishHttp
  <2>1. /\ UNCHANGED <<request, peer, reply>> /\ pc = "finish"
        /\ sock' = [sock EXCEPT ![Conn] = "closed"]
    BY <1>8 DEF FinishHttp, DestoryEvent, Conn
  <2> QED
    BY <1>1, <1>2, <2>1
<1> QED
  BY <1>3, <1>4, <1>5, <1>6, <1>7, <1>8 DEF Next, Server

(* How a handler gets to FINISH. *)
LEMMA ReachesFinish ==
  ASSUME IInv, [Next]_vars, pc # "finish", pc' = "finish"
  PROVE  Complete(Conn)' /\ Conn \in Conns /\ UNCHANGED <<slot, cur, sock>>
<1>1. \/ ResponsePage /\ ~HasBody
      \/ (OpenFile \/ RunProgram) /\ Failures
      \/ EndFile \/ EndProgram \/ SendFails
  <2>1. \A c \in Conns : ~Client(c)
    BY DEF Client, Connect, SendPiece, PeerFin, PeerReset, PeerRead, main
  <2>2. \A c \in Conns : ~(AcceptEvent(c) \/ AcceptLimit(c) \/ AcceptAborted(c))
    BY DEF AcceptEvent, AcceptLimit, AcceptAborted, Accepted
  <2>3. ~(WaitEvent \/ RunHandler \/ AcceptFails)
    BY DEF WaitEvent, RunHandler, AcceptFails, FirstStep
  <2>4. ~(ReadMore \/ ReadFails \/ AcceptRequest \/ DiscardRequest \/ DiscardForever)
    BY DEF ReadMore, ReadFails, AcceptRequest, DiscardRequest, DiscardForever, Goto, main
  <2>5. ~(SendBody \/ FinishHttp \/ UNCHANGED vars)
    BY DEF SendBody, FinishHttp, vars, main
  <2>6. ResponsePage => ~HasBody
    BY DEF ResponsePage, Goto
  <2>7. OpenFile \/ RunProgram => Failures
    BY DEF OpenFile, RunProgram, Goto
  <2> QED
    BY <2>1, <2>2, <2>3, <2>4, <2>5, <2>6, <2>7 DEF Next, Server
<1>2. pc # "loop" /\ Conn \in Conns /\ UNCHANGED <<slot, cur, sock, request>>
  <2>1. pc \in {"page", "open", "body"} /\ UNCHANGED <<slot, cur, sock, request>>
    BY <1>1 DEF ResponsePage, Send, OpenFile, RunProgram, Opening, EndFile, EndProgram, Sending,
         SendFails, Goto
  <2> QED
    BY <2>1, Running
<1>3. PICK c \in Conns : c = Conn /\ c = Conn'
  BY <1>2 DEF Conn
<1>4. request[c] \in Requests /\ Answering(cur) /\ slot[cur].fd = c
  <2>1. pc # "read"
    BY <1>1 DEF ResponsePage, OpenFile, RunProgram, Opening, EndFile, EndProgram, Sending, SendFails
  <2> QED
    BY <1>2, <1>3, <2>1, Running DEF Conn
<1>5. slot[cur].type = Classify(request[c])
  BY <1>4 DEF Answering
<1>6. reply \in [Conns -> Seq(Chunks)]
  BY DEF IInv, TypeOK
<1>7. CASE ResponsePage /\ ~HasBody
  <2>1. /\ pc = "page"
        /\ reply' = [reply EXCEPT ![c] = Append(@, [what |-> PageOf(slot[cur].type), part |-> 0])]
    BY <1>3, <1>7 DEF ResponsePage, Send
  <2>2. reply[c] = << >>
    BY <1>3, <2>1, PageIsNext
  <2>3. reply'[c] = << [what |-> PageOf(slot[cur].type), part |-> 0] >>
    BY <1>6, <2>1, <2>2
  <2>4. reply'[c] # << >> /\ reply'[c][1].what = PageOf(slot[cur].type)
    BY <2>3
  <2>5. Classify(request[c]) \in {"SEND400", "SEND404"}
    BY <1>5, <1>7 DEF HasBody, Classify
  <2>6. PageOf(slot[cur].type) # "200"
    BY <1>5, <2>5 DEF PageOf
  <2>7. Complete(c)'
    BY <2>4, <2>6 DEF Complete
  <2> QED
    BY <1>2, <1>3, <2>7
<1>8. CASE (OpenFile \/ RunProgram) /\ Failures
  BY <1>2, <1>8 DEF Complete
<1>9. CASE EndFile \/ EndProgram
  <2>1. pc = "body" /\ UNCHANGED <<reply, request, peer>>
    BY <1>9 DEF EndFile, EndProgram, Sending, net
  <2>2. reply[c] # << >>
    BY <1>3, <2>1 DEF IInv, ReplyState
  <2>3. CASE EndFile
    <3>1. Len(reply[c]) - 1 = MaxBody
      BY <1>3, <2>3 DEF EndFile, EndOfFile, BodySent
    <3>2. Len(reply[c]) = Len(Whole[request[c]])
      BY <1>3, <2>1, <3>1, BodyLength, SizesAssumption
    <3>3. Complete(c)
      BY <2>2, <3>2 DEF Complete
    <3>4. Complete(c)'
      BY <2>1, <3>3 DEF Complete
    <3> QED
      BY <1>2, <1>3, <3>4
  <2>4. CASE EndProgram
    <3>1. Classify(request[c]) = "RUNCGI"
      BY <1>5, <2>4 DEF EndProgram, Sending
    <3>2. Whole[request[c]][1].what = "200CGI"
      <4>1. Whole[request[c]][1] = [what |-> PageOf("RUNCGI"), part |-> 0]
        BY <1>4, <3>1, WholeReply
      <4>2. PageOf("RUNCGI") = "200CGI"
        BY DEF PageOf
      <4> QED
        BY <4>1, <4>2
    <3>3. 1 \in DOMAIN reply[c]
      BY <1>6, <2>2
    <3>4. reply[c][1] = Whole[request[c]][1]
      BY <2>2, <3>3 DEF IInv, ReplyMatchesRequest
    <3> QED
      BY <1>2, <1>3, <2>1, <2>2, <3>2, <3>4 DEF Complete
  <2> QED
    BY <1>9, <2>3, <2>4
<1>10. CASE SendFails
  <2>1. peer' = [peer EXCEPT ![c] = "gone"]
    BY <1>3, <1>10 DEF SendFails
  <2>2. peer'[c] = "gone"
    BY <2>1 DEF IInv, TypeOK
  <2> QED
    BY <1>2, <1>3, <2>2 DEF Complete
<1> QED
  BY <1>1, <1>7, <1>8, <1>9, <1>10

LEMMA RInvStep ==
  ASSUME IInv, RInv, [Next]_vars
  PROVE  RInv'
<1>1. ASSUME NEW c \in Conns, sock[c] = "closed" PROVE Complete(c)'
  BY <1>1, Lasting, CompleteFrame DEF RInv, ReplyComplete, Complete
<1>2. ASSUME NEW c \in Conns, sock[c] # "closed", sock'[c] = "closed" PROVE Complete(c)'
  <2>1. FinishHttp /\ c = Conn
    <3>1. \A d \in Conns : ~Client(d)
      BY <1>2 DEF Client, Connect, SendPiece, PeerFin, PeerReset, PeerRead, IInv, TypeOK
    <3>2. \A d \in Conns : ~(AcceptEvent(d) \/ AcceptLimit(d) \/ AcceptAborted(d))
      <4>1. ASSUME NEW d \in Conns, Accepted(d) PROVE FALSE
        BY <1>2, <4>1 DEF Accepted, IInv, TypeOK
      <4> QED
        BY <4>1 DEF AcceptEvent, AcceptLimit, AcceptAborted
    <3>3. FinishHttp
      BY <1>2, <3>1, <3>2 DEF Next, Server, WaitEvent, RunHandler, AcceptFails, ReadMore, ReadFails,
           AcceptRequest, DiscardRequest, DiscardForever, ResponsePage, Send, OpenFile, RunProgram,
           SendBody, EndFile, EndProgram, SendFails, vars
    <3>4. sock' = [sock EXCEPT ![Conn] = "closed"]
      BY <3>3 DEF FinishHttp, DestoryEvent, Conn
    <3> QED
      BY <1>2, <3>3, <3>4 DEF IInv, TypeOK
  <2>2. pc = "finish"
    BY <2>1 DEF FinishHttp
  <2>3. Complete(c) /\ sock[c] = "open"
    BY <2>1, <2>2, Running DEF RInv
  <2> QED
    BY <2>2, <2>3, Lasting, CompleteFrame
<1>3. ASSUME pc' = "finish" PROVE Complete(Conn)'
  <2>1. CASE pc = "finish"
    <3>1. PICK c \in Conns : c = Conn
      BY <2>1, Running
    <3>2. sock[c] = "open" /\ Complete(c)
      BY <2>1, <3>1, Running DEF RInv
    <3>3. Complete(c)'
      BY <2>1, <3>2, Lasting, CompleteFrame
    <3>4. UNCHANGED <<slot, cur>>
      <4>1. ASSUME NEW d \in Conns, Client(d) PROVE UNCHANGED <<slot, cur>>
        BY <4>1 DEF Client, Connect, SendPiece, PeerFin, PeerReset, PeerRead, main
      <4>2. \A d \in Conns : ~(AcceptEvent(d) \/ AcceptLimit(d) \/ AcceptAborted(d))
        BY <2>1 DEF AcceptEvent, AcceptLimit, AcceptAborted, Accepted, Accepting
      <4>3. ~Server
        BY <1>3, <2>1, <4>2 DEF Server, WaitEvent, RunHandler, AcceptFails, Accepting, ReadMore,
             ReadFails, AcceptRequest, DiscardRequest, DiscardForever, ResponsePage,
             OpenFile, RunProgram, Opening, SendBody, EndFile, EndProgram, Sending, SendFails,
             FinishHttp
      <4> QED
        BY <4>1, <4>3 DEF Next, vars, main
    <3> QED
      BY <3>1, <3>3, <3>4 DEF Conn
  <2>2. CASE pc # "finish"
    BY <1>3, <2>2, ReachesFinish
  <2> QED
    BY <2>1, <2>2
<1>4. ReplyComplete'
  <2>1. \A c \in Conns : sock'[c] = "closed" => Complete(c)'
    BY <1>1, <1>2
  <2> QED
    BY <2>1 DEF ReplyComplete, Complete
<1> QED
  BY <1>3, <1>4 DEF RInv

(* A connection the server closes has got its whole reply, unless its      *)
(* client reset it or something failed.                                    *)
THEOREM RepliesComplete == Spec => []ReplyComplete
<1>1. Init => RInv
  BY DEF Init, RInv, ReplyComplete
<1>2. IInv /\ RInv /\ [Next]_vars => RInv'
  BY RInvStep
<1>3. RInv => ReplyComplete
  BY DEF RInv
<1> QED
  BY Invariance, <1>1, <1>2, <1>3, PTL DEF Spec
=============================================================================
