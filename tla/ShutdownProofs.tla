--------------------------- MODULE ShutdownProofs ---------------------------
(***************************************************************************)
(* Proofs about the two threads on the event table, for every size of the  *)
(* table and every number of connections.  LInv holds whatever they do to  *)
(* each other, and keeps the listener.  HInv holds until both have been    *)
(* inside the same entry: until then every block and every descriptor in   *)
(* the table has one owner, and so no step harms another connection.  CInv *)
(* is about a signal that finds the main thread waiting: it follows each   *)
(* entry through the two loops of the signal thread.                       *)
(***************************************************************************)
EXTENDS Shutdown, TLAPS

Fields == {"in", "out", "arg"}
Entries == 0 .. MaxEvents - 1

Descriptor == [num : {0, ListenFd} \cup ConnFds, conn : 0 .. Accepts]

Event == [status : {"Void", "Unused", "Inuse"},
          handler : {"NULL", "AcceptEvent", "AcceptRequest", "SendResponse"},
          events : {"NONE", "IN", "OUT"}, fd : Descriptor, in : Nat, out : Nat, arg : Nat]

Reports == [fd : {0, ListenFd} \cup ConnFds, slot : Slots, events : {"IN", "OUT"}]

Finishing == {"del", "delCtl", "delStatus", "destory"} \cup Destorying
Booting == {"create", "listener"}
Between == {"dispatch", "call", "accept", "scan"}
Accepting == {"initZero", "initFd", "initBuff"}
Adding == {"addEvents", "addOp", "mod", "add", "addStatus"}
Handling == {"request", "setInfo", "setHandler", "respond"}

Thread == [pc : Finishing \cup Booting \cup Between \cup Accepting \cup Adding \cup Handling
                  \cup {"sigwait", "exit"},
           at : Slots, field : Fields, ev : {"IN", "OUT"}, tmp : Nat, fd : Descriptor]

Typed ==
  /\ slot \in [Slots -> Event]
  /\ reg \subseteq Reports
  /\ files \in [ConnFds -> -1 .. Accepts]
  /\ mallocs \in Nat /\ live \subseteq 1 .. mallocs
  /\ accepts \in 0 .. Accepts
  /\ epfd \in {0, EpollFd}
  /\ ready \subseteq Reports
  /\ th \in [Threads -> Thread]

(* Where the threads are. *)
Threading ==
  /\ th["sig"].pc \in Finishing \cup {"sigwait", "exit"} /\ th["sig"].at \in Entries
  /\ th["main"].pc \notin {"sigwait", "exit"}
  /\ th["main"].pc \in Finishing \cup Accepting \cup Adding \cup Handling => th["main"].at \in Entries
  /\ th["main"].pc \in {"scan", "initZero", "initFd"} => th["main"].fd.num \in ConnFds
  /\ th["main"].pc = "initBuff" => th["main"].field # "arg"

(* What is the listener's is in no other entry. *)
Foreign(i) ==
  /\ slot[i].fd.num \in {0} \cup ConnFds
  /\ slot[i].handler # "AcceptEvent"
  /\ \A f \in Fields : slot[i][f] \in {NULL} \cup 3 .. mallocs

Apart ==
  /\ \A i \in Entries : Foreign(i)
  /\ \A t \in Threads :
       /\ th[t].pc = "free" => th[t].tmp \in {NULL} \cup 3 .. mallocs
       /\ th[t].pc = "close" => th[t].fd.num \in ConnFds

Listening ==
  IF th["main"].pc \in Booting THEN mallocs = 0 /\ live = {} /\ slot[DN_ACCEPT_EVENT] = ZeroEvent
  ELSE /\ mallocs >= 2
       /\ slot[DN_ACCEPT_EVENT].handler = "AcceptEvent"
       /\ slot[DN_ACCEPT_EVENT].status = "Inuse"
       /\ slot[DN_ACCEPT_EVENT].events = "IN"
       /\ slot[DN_ACCEPT_EVENT].fd.num = ListenFd
       /\ slot[DN_ACCEPT_EVENT].in = 1 /\ slot[DN_ACCEPT_EVENT].out = 2
       /\ slot[DN_ACCEPT_EVENT].arg = NULL
       /\ {1, 2} \subseteq live
       /\ Interest(ListenFd, DN_ACCEPT_EVENT, "IN") \in reg

(* The invariant about the listener. *)
LInv == Typed /\ Threading /\ Apart /\ Listening

(* A block is in one field of one entry. *)
OneOwner ==
  \A i, j \in Slots, f, g \in Fields :
    slot[i][f] # NULL /\ slot[i][f] = slot[j][g] => i = j /\ f = g

InField(t, i, f) == th[t].at = i /\ th[t].field = f

(* A block in an entry is allocated, until a thread has freed it and is    *)
(* about to clear the field.                                               *)
Allocated ==
  \A i \in Slots, f \in Fields :
    slot[i][f] # NULL =>
      slot[i][f] \in live \/ \E t \in Threads : At(t, "clear") /\ InField(t, i, f)

(* A thread that frees has the block of the field it is in. *)
Freeing ==
  \A t \in Threads :
    /\ th[t].pc \in {"load", "free", "clear"} => Entry(t)[th[t].field] # NULL
    /\ th[t].pc = "free" => th[t].tmp = Entry(t)[th[t].field]

(* The path is kept for the handler that sends. *)
Arguments ==
  \A i \in Entries :
    \/ slot[i].arg = NULL
    \/ slot[i].handler = "SendResponse"
    \/ At("main", "setHandler") /\ th["main"].at = i

(* The handler that reads has not set it yet. *)
Requesting == th["main"].pc \in {"initFd", "request", "setInfo"} => Entry("main").arg = NULL

Pending == th["main"].pc \in {"scan", "initZero", "initFd"}

(* A connection is in one entry, or not in any yet. *)
OneEntry ==
  /\ \A i \in Entries : slot[i].fd.num # 0 => slot[i].fd.conn \in 1 .. accepts
  /\ \A i, j \in Entries :
       slot[i].fd.num # 0 /\ slot[j].fd.num # 0 /\ slot[i].fd.conn = slot[j].fd.conn => i = j
  /\ Pending => /\ th["main"].fd.conn = accepts /\ accepts > 0
                /\ \A i \in Entries : slot[i].fd.num # 0 => slot[i].fd.conn # accepts

(* The descriptor in an entry is that of its connection, until a thread    *)
(* has closed it and is about to zero the entry.                           *)
OpenFiles ==
  /\ \A i \in Entries :
       slot[i].fd.num # 0 =>
         files[slot[i].fd.num] = slot[i].fd.conn \/ \E t \in Threads : At(t, "zero") /\ th[t].at = i
  /\ Pending => files[th["main"].fd.num] = th["main"].fd.conn
  /\ \A t \in Threads : th[t].pc = "close" => th[t].fd = Entry(t).fd

Disjoint ==
  /\ ~Overlap /\ ~twice /\ ~stray
  /\ OneOwner /\ Allocated /\ Freeing /\ Arguments /\ Requesting /\ OneEntry /\ OpenFiles

HInv == overlapped \/ Disjoint

-----------------------------------------------------------------------------
LEMMA Indices ==
  /\ Entries \subseteq Slots /\ DN_ACCEPT_EVENT \in Slots /\ DN_ACCEPT_EVENT \notin Entries
  /\ \A i \in Slots : i \in Entries \/ i = DN_ACCEPT_EVENT
  /\ 0 \in Entries
  /\ \A i \in Entries : ~LoopEnds(i) => i + 1 \in Entries
  BY BoundsAssumption DEF Entries, Slots, DN_ACCEPT_EVENT, LoopEnds

LEMMA Numbers ==
  /\ \A n \in ConnFds : n \in Nat /\ n > 2 /\ n # 0 /\ n # ListenFd
  /\ 0 \in 0 .. Accepts /\ ListenFd # 0 /\ -1 \notin 1 .. Accepts /\ 0 \notin 1 .. Accepts
  /\ ZeroFd \in Descriptor /\ ZeroEvent \in Event
  BY BoundsAssumption DEF ConnFds, ListenFd, ZeroFd, Fd, Descriptor, ZeroEvent, Event, NULL

LEMMA InitLInv == Init => LInv
<1> SUFFICES ASSUME Init PROVE LInv
  OBVIOUS
<1>1. Typed
  <2>1. slot \in [Slots -> Event] /\ th \in [Threads -> Thread]
    BY Indices, Numbers DEF Init, Thread, Finishing, Booting, Fields, NULL
  <2> QED
    BY <2>1, BoundsAssumption DEF Init, Typed, NoFile
<1>2. Threading
  BY Indices DEF Init, Threading, Threads, Finishing, Booting, Accepting, Adding, Handling, Destorying
<1>3. Apart
  BY Indices DEF Init, Apart, Foreign, ZeroEvent, ZeroFd, Fd, NULL, Fields
<1>4. Listening
  BY Indices DEF Init, Listening, Booting, Threads
<1> QED
  BY <1>1, <1>2, <1>3, <1>4 DEF LInv

-----------------------------------------------------------------------------
(* The moves of a thread in DN_DelEvent and DN_DestoryEvent. *)

Keeps(t) == \A u \in Threads \ {t} : th'[u] = th[u]

LEMMA AfterDelMove ==
  ASSUME Typed, NEW t \in Threads, th[t].at \in Entries, AfterDelEvent(t)
  PROVE  /\ th' \in [Threads -> Thread] /\ Keeps(t)
         /\ th'[t].pc \in {"del", "destory"} /\ th'[t].at \in Entries
         /\ t = "main" => th'[t] = [th[t] EXCEPT !.pc = "destory"]
<1>1. th \in [Threads -> Thread] /\ th[t] \in Thread
  BY DEF Typed
<1>2. CASE t = "sig" /\ ~LoopEnds(th[t].at)
  <2>1. th[t].at + 1 \in Entries /\ th[t].at + 1 \in Slots
    BY <1>2, Indices
  <2>2. th' = [th EXCEPT ![t].pc = "del", ![t].at = th[t].at + 1]
    BY <1>2 DEF AfterDelEvent
  <2> QED
    BY <1>1, <1>2, <2>1, <2>2 DEF Thread, Keeps, Finishing
<1>3. CASE ~(t = "sig" /\ ~LoopEnds(th[t].at))
  <2>1. th' = [th EXCEPT ![t].pc = "destory", ![t].at = IF t = "sig" THEN 0 ELSE th[t].at]
    BY <1>3 DEF AfterDelEvent
  <2> QED
    BY <1>1, <2>1, Indices DEF Thread, Keeps, Finishing
<1> QED
  BY <1>2, <1>3

LEMMA AfterDestoryMove ==
  ASSUME Typed, NEW t \in Threads, th[t].at \in Entries, AfterDestoryEvent(t)
  PROVE  /\ th' \in [Threads -> Thread] /\ Keeps(t) /\ th'[t].at \in Entries
         /\ t = "sig" => th'[t].pc \in {"destory", "exit"}
         /\ t = "main" => th'[t].pc = "dispatch"
<1>1. th \in [Threads -> Thread] /\ th[t] \in Thread
  BY DEF Typed
<1>2. CASE t = "main"
  <2>1. th' = [th EXCEPT ![t].pc = "dispatch"]
    BY <1>2 DEF AfterDestoryEvent
  <2> QED
    BY <1>1, <1>2, <2>1 DEF Thread, Keeps, Between
<1>3. CASE t # "main" /\ LoopEnds(th[t].at)
  <2>1. th' = [th EXCEPT ![t].pc = "exit"]
    BY <1>3 DEF AfterDestoryEvent
  <2> QED
    BY <1>1, <1>3, <2>1 DEF Thread, Keeps
<1>4. CASE t # "main" /\ ~LoopEnds(th[t].at)
  <2>1. th[t].at + 1 \in Entries /\ th[t].at + 1 \in Slots
    BY <1>4, Indices
  <2>2. th' = [th EXCEPT ![t].pc = "destory", ![t].at = th[t].at + 1]
    BY <1>4 DEF AfterDestoryEvent
  <2> QED
    BY <1>1, <1>4, <2>1, <2>2 DEF Thread, Keeps, Finishing
<1> QED
  BY <1>2, <1>3, <1>4

LEMMA AfterFieldMove ==
  ASSUME Typed, NEW t \in Threads, AfterField(t)
  PROVE  /\ th' \in [Threads -> Thread] /\ Keeps(t)
         /\ th'[t].pc \in {"fd", "test"} /\ th'[t].at = th[t].at
<1>1. th \in [Threads -> Thread] /\ th[t] \in Thread
  BY DEF Typed
<1> QED
  BY <1>1 DEF AfterField, Thread, Keeps, Finishing, Destorying, Fields

LEMMA GotoMove ==
  ASSUME Typed, NEW t \in Threads, NEW l, Goto(t, l),
         l \in Finishing \cup Booting \cup Between \cup Accepting \cup Adding \cup Handling
  PROVE  /\ th' \in [Threads -> Thread] /\ Keeps(t)
         /\ th'[t] = [th[t] EXCEPT !.pc = l]
         /\ th'[t].pc = l /\ th'[t].at = th[t].at /\ th'[t].field = th[t].field
         /\ th'[t].tmp = th[t].tmp /\ th'[t].fd = th[t].fd /\ th'[t].ev = th[t].ev
<1>1. th \in [Threads -> Thread] /\ th[t] \in Thread
  BY DEF Typed
<1>2. th' = [th EXCEPT ![t].pc = l]
  BY DEF Goto
<1> QED
  BY <1>1, <1>2 DEF Thread, Keeps

LEMMA WriteEffect ==
  ASSUME Typed, NEW t \in Threads, NEW f \in Fields, NEW x \in Nat, Write(t, f, x)
  PROVE  /\ slot' \in [Slots -> Event]
         /\ \A i \in Slots : i # th[t].at => slot'[i] = slot[i]
         /\ slot'[th[t].at][f] = x
         /\ \A g \in Fields : g # f => slot'[th[t].at][g] = Entry(t)[g]
         /\ slot'[th[t].at].fd = Entry(t).fd /\ slot'[th[t].at].handler = Entry(t).handler
         /\ slot'[th[t].at].status = Entry(t).status
<1>1. th[t].at \in Slots /\ slot \in [Slots -> Event] /\ slot[th[t].at] \in Event
  BY DEF Typed, Thread
<1> QED
  BY <1>1 DEF Write, Entry, Event, Fields

(* A step of DN_DelEvent or DN_DestoryEvent keeps the invariant, whatever  *)
(* it does to the thread's own entry.                                      *)
LEMMA LFinish ==
  ASSUME LInv, NEW t \in Threads, NEW k \in Entries, th[t].pc \in Finishing, th[t].at = k,
         th' \in [Threads -> Thread], Keeps(t), th'[t].at \in Entries,
         \/ th'[t].pc \in Finishing
         \/ t = "sig" /\ th'[t].pc = "exit"
         \/ t = "main" /\ th'[t].pc = "dispatch",
         th'[t].pc = "free" => th'[t].tmp \in {NULL} \cup 3 .. mallocs,
         th'[t].pc = "close" => th'[t].fd.num \in ConnFds,
         slot' \in [Slots -> Event], \A i \in Slots : i # k => slot'[i] = slot[i],
         Foreign(k)',
         reg' \subseteq reg, \A x \in reg : x.fd = ListenFd => x \in reg',
         files' \in [ConnFds -> -1 .. Accepts],
         live' \subseteq live, live \cap {1, 2} \subseteq live',
         UNCHANGED <<mallocs, accepts, epfd, ready>>
  PROVE  LInv'
<1>1. Typed'
  BY DEF LInv, Typed
<1>2. Threading'
  BY DEF LInv, Threading, Threads, Keeps, Finishing, Booting, Between, Accepting, Adding,
         Handling, Destorying
<1>3. Apart'
  <2>1. \A i \in Entries : Foreign(i)'
    <3> SUFFICES ASSUME NEW i \in Entries, i # k PROVE Foreign(i)'
      OBVIOUS
    <3>1. slot'[i] = slot[i] /\ mallocs' = mallocs
      BY Indices
    <3> QED
      BY <3>1 DEF LInv, Apart, Foreign
  <2>2. \A u \in Threads :
          /\ th'[u].pc = "free" => th'[u].tmp \in {NULL} \cup 3 .. mallocs'
          /\ th'[u].pc = "close" => th'[u].fd.num \in ConnFds
    BY DEF LInv, Apart, Keeps
  <2> QED
    BY <2>1, <2>2 DEF Apart
<1>4. Listening'
  <2>1. slot'[DN_ACCEPT_EVENT] = slot[DN_ACCEPT_EVENT]
    BY Indices
  <2>2. th'["main"].pc \in Booting <=> th["main"].pc \in Booting
    BY DEF Keeps, Threads, Finishing, Booting, Destorying
  <2>3. CASE th["main"].pc \in Booting
    BY <2>1, <2>2, <2>3 DEF LInv, Listening
  <2>4. CASE th["main"].pc \notin Booting
    <3>1. Interest(ListenFd, DN_ACCEPT_EVENT, "IN").fd = ListenFd
      BY DEF Interest
    <3> QED
      BY <2>1, <2>2, <2>4, <3>1 DEF LInv, Listening
  <2> QED
    BY <2>3, <2>4
<1> QED
  BY <1>1, <1>2, <1>3, <1>4 DEF LInv

LEMMA InFinish ==
  ASSUME LInv, NEW t \in Threads, th[t].pc \in Finishing
  PROVE  th[t].at \in Entries /\ th[t] \in Thread /\ Entry(t) \in Event /\ Foreign(th[t].at)
<1>1. th[t].at \in Entries
  BY DEF LInv, Threading, Threads
<1> QED
  BY <1>1, Indices DEF LInv, Typed, Apart, Entry

LEMMA DelTestLInv ==
  ASSUME LInv, NEW t \in Threads, DelTest(t), UNCHANGED <<mallocs, accepts, epfd, ready>> PROVE LInv'
<1>1. th[t].pc \in Finishing /\ Typed
  BY DEF DelTest, At, Finishing, LInv
<1>2. PICK k \in Entries : k = th[t].at /\ Foreign(k)
  BY <1>1, InFinish
<1>3. UNCHANGED <<slot, reg, files, live>>
  BY DEF DelTest, kernel, heap
<1>4. /\ th' \in [Threads -> Thread] /\ Keeps(t) /\ th'[t].at \in Entries
      /\ th'[t].pc \in {"del", "destory", "delCtl"}
  <2>1. CASE Entry(t).status = "Inuse"
    BY <1>2, <2>1, GotoMove DEF DelTest, Finishing, LInv
  <2>2. CASE Entry(t).status # "Inuse"
    BY <1>2, <2>2, AfterDelMove DEF DelTest, LInv
  <2> QED
    BY <2>1, <2>2
<1>5. Foreign(k)'
  BY <1>2, <1>3 DEF Foreign
<1> QED
  BY <1>1, <1>2, <1>3, <1>4, <1>5, LFinish DEF Finishing, LInv, Typed

LEMMA DelCtlLInv ==
  ASSUME LInv, NEW t \in Threads, DelCtl(t), UNCHANGED <<mallocs, accepts, epfd, ready>> PROVE LInv'
<1>1. th[t].pc \in Finishing /\ Typed
  BY DEF DelCtl, At, Finishing, LInv
<1>2. PICK k \in Entries : k = th[t].at /\ Foreign(k)
  BY <1>1, InFinish
<1>3. UNCHANGED <<slot, files, live>>
  BY DEF DelCtl, kernel, heap
<1>4. /\ th' \in [Threads -> Thread] /\ Keeps(t) /\ th'[t].at \in Entries
      /\ th'[t].pc \in {"del", "destory", "delStatus"}
  BY <1>1, <1>2, GotoMove, AfterDelMove DEF DelCtl, Finishing
<1>5. Foreign(k)'
  BY <1>2, <1>3 DEF Foreign
<1>6. reg' \subseteq reg /\ \A x \in reg : x.fd = ListenFd => x \in reg'
  BY <1>2, Numbers DEF DelCtl, Foreign, Entry
<1> QED
  BY <1>1, <1>2, <1>3, <1>4, <1>5, <1>6, LFinish DEF Finishing, LInv, Typed

LEMMA DelStatusLInv ==
  ASSUME LInv, NEW t \in Threads, DelStatus(t), UNCHANGED <<mallocs, accepts, epfd, ready>> PROVE LInv'
<1>1. th[t].pc \in Finishing /\ Typed
  BY DEF DelStatus, At, Finishing, LInv
<1>2. PICK k \in Entries : k = th[t].at /\ Foreign(k) /\ k \in Slots
  BY <1>1, InFinish, Indices
<1>3. UNCHANGED <<reg, files, live>> /\ slot' = [slot EXCEPT ![k]["status"] = "Unused"]
  BY <1>2 DEF DelStatus, kernel, heap, Write
<1>4. /\ th' \in [Threads -> Thread] /\ Keeps(t) /\ th'[t].at \in Entries
      /\ th'[t].pc \in {"del", "destory"}
  BY <1>1, <1>2, AfterDelMove DEF DelStatus
<1>5. slot' \in [Slots -> Event] /\ \A i \in Slots : i # k => slot'[i] = slot[i]
  BY <1>1, <1>2, <1>3 DEF Typed, Event
<1>6. Foreign(k)'
  BY <1>1, <1>2, <1>3 DEF Foreign, Typed, Event, Fields
<1> QED
  BY <1>1, <1>2, <1>3, <1>4, <1>5, <1>6, LFinish DEF Finishing, LInv, Typed

LEMMA DestoryTestLInv ==
  ASSUME LInv, NEW t \in Threads, DestoryTest(t), UNCHANGED <<mallocs, accepts, epfd, ready>> PROVE LInv'
<1>1. th[t].pc \in Finishing /\ Typed /\ th \in [Threads -> Thread]
  BY DEF DestoryTest, At, Finishing, LInv, Typed
<1>2. PICK k \in Entries : k = th[t].at /\ Foreign(k)
  BY <1>1, InFinish
<1>3. UNCHANGED <<slot, reg, files, live>>
  BY DEF DestoryTest, kernel, heap
<1>4. /\ th' \in [Threads -> Thread] /\ Keeps(t) /\ th'[t].at \in Entries
      /\ \/ th'[t].pc \in {"destory", "test"}
         \/ t = "sig" /\ th'[t].pc = "exit"
         \/ t = "main" /\ th'[t].pc = "dispatch"
  <2>1. CASE Entry(t).status = "Void"
    BY <1>1, <1>2, <2>1, AfterDestoryMove DEF DestoryTest, Threads
  <2>2. CASE Entry(t).status # "Void"
    <3>1. th' = [th EXCEPT ![t].pc = "test", ![t].field = "in"]
      BY <2>2 DEF DestoryTest
    <3> QED
      BY ZenonT(40), <1>1, <1>2, <3>1 DEF Thread, Keeps, Finishing, Destorying, Fields
  <2> QED
    BY <2>1, <2>2
<1>5. Foreign(k)'
  BY <1>2, <1>3 DEF Foreign
<1> QED
  BY <1>1, <1>2, <1>3, <1>4, <1>5, LFinish DEF Finishing, Destorying, LInv, Typed

LEMMA TestPointerLInv ==
  ASSUME LInv, NEW t \in Threads, TestPointer(t), UNCHANGED <<mallocs, accepts, epfd, ready>> PROVE LInv'
<1>1. th[t].pc \in Finishing /\ Typed
  BY DEF TestPointer, At, Finishing, Destorying, LInv
<1>2. PICK k \in Entries : k = th[t].at /\ Foreign(k)
  BY <1>1, InFinish
<1>3. UNCHANGED <<slot, reg, files, live>>
  BY DEF TestPointer, kernel, heap
<1>4. /\ th' \in [Threads -> Thread] /\ Keeps(t) /\ th'[t].at \in Entries
      /\ th'[t].pc \in {"fd", "test", "load"}
  <2>1. CASE Entry(t)[th[t].field] = NULL
    BY <1>1, <1>2, <2>1, AfterFieldMove DEF TestPointer
  <2>2. CASE Entry(t)[th[t].field] # NULL
    BY <1>1, <1>2, <2>2, GotoMove DEF TestPointer, Finishing, Destorying
  <2> QED
    BY <2>1, <2>2
<1>5. Foreign(k)'
  BY <1>2, <1>3 DEF Foreign
<1> QED
  BY <1>1, <1>2, <1>3, <1>4, <1>5, LFinish DEF Finishing, Destorying, LInv, Typed

LEMMA LoadPointerLInv ==
  ASSUME LInv, NEW t \in Threads, LoadPointer(t), UNCHANGED <<mallocs, accepts, epfd, ready>> PROVE LInv'
<1>1. th[t].pc \in Finishing /\ Typed /\ th \in [Threads -> Thread] /\ th[t] \in Thread
  BY DEF LoadPointer, At, Finishing, Destorying, LInv, Typed
<1>2. PICK k \in Entries : k = th[t].at /\ Foreign(k)
  BY <1>1, InFinish
<1>3. UNCHANGED <<slot, reg, files, live>>
  BY DEF LoadPointer, kernel, heap
<1>4. /\ th' = [th EXCEPT ![t].pc = "free", ![t].tmp = Entry(t)[th[t].field]]
      /\ th[t].field \in Fields /\ mallocs \in Nat
      /\ Entry(t)[th[t].field] \in {NULL} \cup 3 .. mallocs
  BY <1>1, <1>2 DEF LoadPointer, Thread, Foreign, Entry, Typed
<1>5. /\ th' \in [Threads -> Thread] /\ Keeps(t) /\ th'[t].at \in Entries
      /\ th'[t].pc = "free" /\ th'[t].tmp \in {NULL} \cup 3 .. mallocs
  <2>1. Entry(t)[th[t].field] \in Nat
    BY <1>4 DEF NULL
  <2> QED
    BY <1>1, <1>2, <1>4, <2>1 DEF Thread, Keeps, Finishing, Destorying
<1>6. Foreign(k)'
  BY <1>2, <1>3 DEF Foreign
<1> QED
  BY <1>1, <1>2, <1>3, <1>5, <1>6, LFinish DEF Finishing, Destorying, LInv, Typed

LEMMA FreeLInv ==
  ASSUME LInv, NEW t \in Threads, Free(t), UNCHANGED <<mallocs, accepts, epfd, ready>> PROVE LInv'
<1>1. th[t].pc \in Finishing /\ Typed
  BY DEF Free, At, Finishing, Destorying, LInv
<1>2. PICK k \in Entries : k = th[t].at /\ Foreign(k)
  BY <1>1, InFinish
<1>3. UNCHANGED <<slot, reg, files>> /\ live' = live \ {th[t].tmp}
  BY DEF Free, kernel
<1>4. /\ th' \in [Threads -> Thread] /\ Keeps(t) /\ th'[t].at \in Entries
      /\ th'[t].pc = "clear"
  BY <1>1, <1>2, GotoMove DEF Free, Finishing, Destorying
<1>5. th[t].tmp \notin {1, 2}
  BY DEF LInv, Apart, Free, At, NULL
<1>6. Foreign(k)'
  BY <1>2, <1>3 DEF Foreign
<1> QED
  BY <1>1, <1>2, <1>3, <1>4, <1>5, <1>6, LFinish DEF Finishing, Destorying, LInv, Typed

LEMMA ClearPointerLInv ==
  ASSUME LInv, NEW t \in Threads, ClearPointer(t), UNCHANGED <<mallocs, accepts, epfd, ready>> PROVE LInv'
<1>1. th[t].pc \in Finishing /\ Typed /\ th[t].field \in Fields
  BY DEF ClearPointer, At, Finishing, Destorying, LInv, Typed, Thread
<1>2. PICK k \in Entries : k = th[t].at /\ Foreign(k) /\ k \in Slots
  BY <1>1, InFinish, Indices
<1>3. UNCHANGED <<reg, files, live>> /\ Write(t, th[t].field, NULL) /\ NULL \in Nat
  BY DEF ClearPointer, kernel, heap, NULL
<1>4. /\ th' \in [Threads -> Thread] /\ Keeps(t) /\ th'[t].at \in Entries
      /\ th'[t].pc \in {"fd", "test"}
  BY <1>1, <1>2, AfterFieldMove DEF ClearPointer
<1>5. Foreign(k)'
  <2>1. \A g \in Fields : slot'[k][g] \in {NULL} \cup 3 .. mallocs
    <3>1. PICK f \in Fields : f = th[t].field
      BY <1>1
    <3>2. Write(t, f, NULL)
      BY <1>3, <3>1 DEF Write
    <3>3. /\ slot'[th[t].at][f] = NULL
          /\ \A g \in Fields : g # f => slot'[th[t].at][g] = Entry(t)[g]
      BY <1>1, <1>3, <3>2, WriteEffect
    <3> QED
      BY <1>2, <3>3 DEF Foreign, Entry
  <2>2. slot'[k].fd = slot[k].fd /\ slot'[k].handler = slot[k].handler
    BY <1>1, <1>2, <1>3, WriteEffect DEF Entry
  <2> QED
    BY <1>2, <2>1, <2>2 DEF Foreign
<1>6. slot' \in [Slots -> Event] /\ \A i \in Slots : i # k => slot'[i] = slot[i]
  BY <1>1, <1>2, <1>3, WriteEffect
<1> QED
  BY <1>1, <1>2, <1>3, <1>4, <1>5, <1>6, LFinish DEF Finishing, Destorying, LInv, Typed

LEMMA LoadFdLInv ==
  ASSUME LInv, NEW t \in Threads, LoadFd(t), UNCHANGED <<mallocs, accepts, epfd, ready>> PROVE LInv'
<1>1. th[t].pc \in Finishing /\ Typed /\ th \in [Threads -> Thread] /\ th[t] \in Thread
  BY DEF LoadFd, At, Finishing, Destorying, LInv, Typed
<1>2. PICK k \in Entries : k = th[t].at /\ Foreign(k) /\ Entry(t) \in Event
  BY <1>1, InFinish
<1>3. UNCHANGED <<slot, reg, files, live>>
  BY DEF LoadFd, kernel, heap
<1>4. /\ th' = [th EXCEPT ![t].pc = IF Entry(t).fd.num > 0 THEN "close" ELSE "zero",
                          ![t].fd = Entry(t).fd]
      /\ Entry(t).fd \in Descriptor /\ Entry(t).fd.num \in {0} \cup ConnFds
  BY <1>2 DEF LoadFd, Event, Foreign, Entry
<1>5. /\ th' \in [Threads -> Thread] /\ Keeps(t) /\ th'[t].at \in Entries
      /\ th'[t].pc \in {"close", "zero"} /\ th'[t].fd = Entry(t).fd
      /\ th'[t].pc = "close" => Entry(t).fd.num > 0
  BY <1>1, <1>2, <1>4 DEF Thread, Keeps, Finishing, Destorying
<1>6. Foreign(k)'
  BY <1>2, <1>3 DEF Foreign
<1> QED
  BY <1>1, <1>2, <1>3, <1>4, <1>5, <1>6, LFinish DEF Finishing, Destorying, LInv, Typed

LEMMA CloseFdLInv ==
  ASSUME LInv, NEW t \in Threads, CloseFd(t), UNCHANGED <<mallocs, accepts, epfd, ready>> PROVE LInv'
<1>1. th[t].pc \in Finishing /\ Typed /\ th[t].fd.num \in ConnFds
  BY DEF CloseFd, At, Finishing, Destorying, LInv, Apart
<1>2. PICK k \in Entries : k = th[t].at /\ Foreign(k)
  BY <1>1, InFinish
<1>3. /\ UNCHANGED <<slot, live>> /\ reg' = {x \in reg : x.fd # th[t].fd.num}
      /\ files' = [n \in ConnFds |-> IF n = th[t].fd.num THEN NoFile ELSE files[n]]
  BY DEF CloseFd, heap
<1>4. /\ th' \in [Threads -> Thread] /\ Keeps(t) /\ th'[t].at \in Entries
      /\ th'[t].pc = "zero"
  BY <1>1, <1>2, GotoMove DEF CloseFd, Finishing, Destorying
<1>5. files' \in [ConnFds -> -1 .. Accepts]
  BY <1>1, <1>3, BoundsAssumption DEF Typed, NoFile
<1>6. Foreign(k)'
  BY <1>2, <1>3 DEF Foreign
<1> QED
  BY <1>1, <1>2, <1>3, <1>4, <1>5, <1>6, Numbers, LFinish DEF Finishing, Destorying, LInv, Typed

LEMMA ZeroEntryLInv ==
  ASSUME LInv, NEW t \in Threads, ZeroEntry(t), UNCHANGED <<mallocs, accepts, epfd, ready>> PROVE LInv'
<1>1. th[t].pc \in Finishing /\ Typed
  BY DEF ZeroEntry, At, Finishing, Destorying, LInv
<1>2. PICK k \in Entries : k = th[t].at /\ Foreign(k) /\ k \in Slots
  BY <1>1, InFinish, Indices
<1>3. UNCHANGED <<reg, files, live>> /\ slot' = [slot EXCEPT ![k] = ZeroEvent]
  BY <1>2 DEF ZeroEntry, Cleared, kernel, heap
<1>4. /\ th' \in [Threads -> Thread] /\ Keeps(t) /\ th'[t].at \in Entries
      /\ \/ th'[t].pc = "destory"
         \/ t = "sig" /\ th'[t].pc = "exit"
         \/ t = "main" /\ th'[t].pc = "dispatch"
  BY <1>1, <1>2, AfterDestoryMove DEF ZeroEntry, Threads
<1>5. Foreign(k)'
  BY <1>1, <1>2, <1>3 DEF Typed, Foreign, ZeroEvent, ZeroFd, Fd, Fields, NULL
<1>6. slot' \in [Slots -> Event] /\ \A i \in Slots : i # k => slot'[i] = slot[i]
  BY <1>1, <1>2, <1>3, Numbers DEF Typed
<1> QED
  BY <1>1, <1>2, <1>3, <1>4, <1>5, <1>6, LFinish DEF Finishing, LInv, Typed

LEMMA FinishLInv ==
  ASSUME LInv, NEW t \in Threads, FinishEvent(t), UNCHANGED <<mallocs, accepts, epfd, ready>> PROVE LInv'
  BY DelTestLInv, DelCtlLInv, DelStatusLInv, DestoryTestLInv, TestPointerLInv, LoadPointerLInv,
     FreeLInv, ClearPointerLInv, LoadFdLInv, CloseFdLInv, ZeroEntryLInv DEF FinishEvent

-----------------------------------------------------------------------------
(* The other steps of the main thread. *)

LEMMA LMain ==
  ASSUME LInv, th["main"].pc \notin Booting,
         th' \in [Threads -> Thread], Keeps("main"),
         th'["main"].pc \notin Booting \cup {"sigwait", "exit", "free", "close"},
         th'["main"].pc \in Finishing \cup Accepting \cup Adding \cup Handling
           => th'["main"].at \in Entries,
         th'["main"].pc \in {"scan", "initZero", "initFd"} => th'["main"].fd.num \in ConnFds,
         th'["main"].pc = "initBuff" => th'["main"].field # "arg",
         slot' \in [Slots -> Event], slot'[DN_ACCEPT_EVENT] = slot[DN_ACCEPT_EVENT],
         \A i \in Entries : slot'[i] = slot[i] \/ Foreign(i)',
         reg' \subseteq Reports, \A x \in reg : x.fd = ListenFd => x \in reg',
         files' \in [ConnFds -> -1 .. Accepts],
         mallocs' \in Nat, mallocs' >= mallocs, live \subseteq live', live' \subseteq 1 .. mallocs',
         accepts' \in 0 .. Accepts, ready' \subseteq Reports, UNCHANGED epfd
  PROVE  LInv'
<1>1. Typed'
  BY DEF LInv, Typed
<1>2. Threading'
  BY DEF LInv, Threading, Threads, Keeps
<1>3. Apart'
  <2>1. \A i \in Entries : Foreign(i)'
    <3> SUFFICES ASSUME NEW i \in Entries, slot'[i] = slot[i] PROVE Foreign(i)'
      OBVIOUS
    <3>1. Foreign(i) /\ mallocs \in Nat
      BY DEF LInv, Apart, Typed
    <3> QED
      BY <3>1 DEF Foreign
  <2>2. \A t \in Threads :
          /\ th'[t].pc = "free" => th'[t].tmp \in {NULL} \cup 3 .. mallocs'
          /\ th'[t].pc = "close" => th'[t].fd.num \in ConnFds
    BY DEF LInv, Apart, Keeps, Typed, Threads
  <2> QED
    BY <2>1, <2>2 DEF Apart
<1>4. Listening'
  <2>1. Interest(ListenFd, DN_ACCEPT_EVENT, "IN").fd = ListenFd
    BY DEF Interest
  <2>2. mallocs \in Nat
    BY DEF LInv, Typed
  <2> QED
    BY <2>1, <2>2 DEF LInv, Listening
<1> QED
  BY <1>1, <1>2, <1>3, <1>4 DEF LInv

LEMMA MainTyped ==
  ASSUME LInv
  PROVE  /\ th["main"] \in Thread /\ th \in [Threads -> Thread] /\ slot \in [Slots -> Event]
         /\ "main" \in Threads /\ th["main"].at \in Slots
         /\ \A i \in Entries : i \in Slots /\ i # DN_ACCEPT_EVENT /\ Foreign(i)
         /\ mallocs \in Nat /\ live \subseteq 1 .. mallocs /\ mallocs >= mallocs
         /\ accepts \in 0 .. Accepts /\ ready \subseteq Reports /\ reg \subseteq Reports
         /\ files \in [ConnFds -> -1 .. Accepts]
  BY Indices DEF LInv, Typed, Threads, Apart, Thread

LEMMA MainGoto ==
  ASSUME LInv, NEW l, Goto("main", l),
         l \in Finishing \cup Booting \cup Between \cup Accepting \cup Adding \cup Handling
  PROVE  /\ th' \in [Threads -> Thread] /\ Keeps("main") /\ th'["main"].pc = l
         /\ th'["main"].at = th["main"].at /\ th'["main"].field = th["main"].field
         /\ th'["main"].fd = th["main"].fd /\ th'["main"].ev = th["main"].ev
  BY GotoMove, MainTyped DEF LInv

LEMMA EpollCreateLInv == ASSUME LInv, EpollCreate PROVE LInv'
<1>1. /\ UNCHANGED <<slot, reg, files, live, mallocs, accepts, ready>> /\ epfd' = EpollFd
      /\ th["main"].pc = "create" /\ Goto("main", "listener") /\ Typed
  BY DEF EpollCreate, kernel, heap, LInv, At
<1>2. /\ th' \in [Threads -> Thread] /\ Keeps("main") /\ th'["main"].pc = "listener"
      /\ th'["sig"] = th["sig"]
  BY <1>1, GotoMove, MainTyped DEF Booting, Keeps, Threads
<1>3. Typed'
  BY <1>1, <1>2 DEF Typed
<1>4. Threading'
  BY <1>1, <1>2 DEF LInv, Threading, Finishing, Accepting, Adding, Handling, Destorying
<1>5. Apart'
  BY <1>1, <1>2 DEF LInv, Apart, Foreign, Threads
<1>6. Listening'
  BY <1>1, <1>2 DEF LInv, Listening, Booting
<1> QED
  BY <1>3, <1>4, <1>5, <1>6 DEF LInv

LEMMA AddListenerLInv == ASSUME LInv, AddListener PROVE LInv'
<1> DEFINE e == [status |-> "Inuse", handler |-> "AcceptEvent", events |-> "IN",
                 fd |-> Fd(ListenFd, 0), in |-> 1, out |-> 2, arg |-> NULL]
<1>1. /\ UNCHANGED <<files, accepts, epfd, ready>> /\ slot' = [slot EXCEPT ![DN_ACCEPT_EVENT] = e]
      /\ th["main"].pc = "listener" /\ Goto("main", "dispatch") /\ Typed
      /\ reg' = {Interest(ListenFd, DN_ACCEPT_EVENT, "IN")} /\ live' = {1, 2} /\ mallocs' = 2
      /\ mallocs = 0
  BY DEF AddListener, LInv, At, Listening, Booting
<1>2. /\ th' \in [Threads -> Thread] /\ Keeps("main") /\ th'["main"].pc = "dispatch"
      /\ th'["sig"] = th["sig"]
  BY <1>1, GotoMove, MainTyped DEF Between, Keeps, Threads
<1>3. Typed'
  <2>1. e \in Event
    BY Numbers DEF Event, Descriptor, Fd, NULL
  <2>2. slot' \in [Slots -> Event]
    BY <1>1, <2>1, MainTyped
  <2>3. reg' \subseteq Reports
    BY <1>1, Indices DEF Interest, Reports
  <2> QED
    BY <1>1, <1>2, <2>2, <2>3 DEF Typed
<1>4. Threading'
  BY <1>1, <1>2 DEF LInv, Threading, Finishing, Accepting, Adding, Handling, Destorying
<1>5. Apart'
  <2>1. \A i \in Entries : slot'[i] = slot[i]
    BY <1>1, MainTyped
  <2>2. \A i \in Entries : Foreign(i)'
    BY <1>1, <2>1, MainTyped DEF Foreign
  <2> QED
    BY <1>1, <1>2, <2>2 DEF LInv, Apart, Threads
<1>6. Listening'
  <2>1. slot'[DN_ACCEPT_EVENT] = e
    BY <1>1, Indices, MainTyped
  <2> HIDE DEF e
  <2>2. /\ e.status = "Inuse" /\ e.handler = "AcceptEvent" /\ e.events = "IN" /\ e.arg = NULL
        /\ e.fd.num = ListenFd /\ e.in = 1 /\ e.out = 2
    BY DEF e, Fd
  <2> QED
    BY <1>1, <1>2, <2>1, <2>2 DEF Listening, Booting
<1> QED
  BY <1>3, <1>4, <1>5, <1>6 DEF LInv

(* A call of the accepting handler fails, or the one that re-arms. *)
Fails == InitBuffFails \/ AddCtlFails

LEMMA FailsGoto ==
  ASSUME Fails
  PROVE  /\ UNCHANGED <<slot, reg, files, live, mallocs, accepts, epfd, ready>>
         /\ Goto("main", "dispatch") /\ th["main"].pc \in {"initBuff", "mod", "add"}
  BY DEF Fails, InitBuffFails, AddCtlFails, kernel, At

(* Steps that leave the table, the heap and the descriptors alone. *)
LEMMA WalkLInv ==
  ASSUME LInv, WaitEvent \/ AddOp \/ ReadHead \/ SendResponse \/ CallHandler \/ Fails
               \/ \E x \in ready : DispatchEvent(x)
  PROVE  LInv'
<1>1. /\ UNCHANGED <<slot, reg, files, live, mallocs, accepts, epfd>>
      /\ ready' \subseteq Reports /\ th["main"].pc \notin Booting /\ Typed
  BY MainTyped, FailsGoto DEF WaitEvent, AddOp, ReadHead, SendResponse, CallHandler, DispatchEvent,
     kernel, heap, Booting, At, LInv
<1>2. /\ th' \in [Threads -> Thread] /\ Keeps("main")
      /\ th'["main"].pc \in Between \cup {"mod", "add", "setInfo", "request", "respond", "del"}
      /\ th'["main"].pc # "scan"
      /\ th'["main"].pc \notin Between => th'["main"].at \in Entries
  <2>1. CASE WaitEvent
    BY <2>1, MainTyped DEF WaitEvent, Keeps, At, Between
  <2>2. CASE AddOp
    <3>1. th["main"].at \in Entries
      BY <2>2 DEF AddOp, At, LInv, Threading, Adding
    <3> QED
      BY <2>2, <3>1, MainTyped DEF AddOp, Keeps, Thread, Adding, Between
  <2>3. CASE ReadHead
    <3>1. th["main"].at \in Entries
      BY <2>3 DEF ReadHead, At, LInv, Threading, Handling
    <3>2. CASE Goto("main", "setInfo")
      BY <3>1, <3>2, MainGoto DEF Handling, Between
    <3>3. CASE Goto("main", "dispatch")
      BY <3>1, <3>3, MainGoto DEF Between
    <3> QED
      BY <2>3, <3>2, <3>3 DEF ReadHead
  <2>4. CASE SendResponse
    <3>1. th["main"].at \in Entries
      BY <2>4 DEF SendResponse, At, LInv, Threading, Handling
    <3> QED
      BY <2>4, <3>1, MainTyped DEF SendResponse, Keeps, Thread, Finishing, Between, EpollFd
  <2>5. CASE CallHandler
    <3>1. Entry("main").handler # "AcceptEvent" => th["main"].at \in Entries
      BY <1>1, MainTyped, Indices DEF Entry, LInv, Listening
    <3>2. /\ Entry("main").handler = "AcceptEvent" => Goto("main", "accept")
          /\ Entry("main").handler = "AcceptRequest" => Goto("main", "request")
          /\ Entry("main").handler = "SendResponse" => Goto("main", "respond")
      BY <2>5 DEF CallHandler
    <3>3. Entry("main").handler \in {"AcceptEvent", "AcceptRequest", "SendResponse"}
      BY <2>5, MainTyped DEF CallHandler, Entry, Event
    <3>4. CASE Goto("main", "accept")
      BY <3>4, MainGoto DEF Between
    <3>5. CASE Goto("main", "request") /\ th["main"].at \in Entries
      BY <3>5, MainGoto DEF Handling, Between
    <3>6. CASE Goto("main", "respond") /\ th["main"].at \in Entries
      BY <3>6, MainGoto DEF Handling, Between
    <3> QED
      BY <3>1, <3>2, <3>3, <3>4, <3>5, <3>6
  <2>6. CASE \E x \in ready : DispatchEvent(x)
    <3>1. PICK x \in ready : DispatchEvent(x)
      BY <2>6
    <3>2. x.slot \in Slots
      BY MainTyped DEF Reports
    <3> QED
      BY <3>1, <3>2, MainTyped DEF DispatchEvent, Keeps, Thread, Between
  <2>7. CASE Fails
    BY <2>7, FailsGoto, MainGoto DEF Between
  <2> QED
    BY <2>1, <2>2, <2>3, <2>4, <2>5, <2>6, <2>7
<1> QED
  BY <1>1, <1>2, MainTyped, LMain
     DEF Between, Booting, Finishing, Destorying, Accepting, Adding, Handling

LEMMA AcceptLInv == ASSUME LInv, Accept PROVE LInv'
<1>1. /\ UNCHANGED <<slot, reg, live, mallocs, epfd, ready>> /\ Typed
      /\ th["main"].pc \notin Booting
  BY DEF Accept, LInv, At, Booting, heap
<1>2. CASE Goto("main", "dispatch") /\ UNCHANGED <<files, accepts>>
  <2>1. th' \in [Threads -> Thread] /\ Keeps("main") /\ th'["main"].pc = "dispatch"
    BY <1>1, <1>2, GotoMove, MainTyped DEF Between
  <2> QED
    BY <1>1, <1>2, <2>1, MainTyped, LMain
       DEF Booting, Finishing, Destorying, Accepting, Adding, Handling
<1>3. ASSUME accepts < Accepts, NEW n \in ConnFds, files' = [files EXCEPT ![n] = accepts + 1],
             accepts' = accepts + 1,
             th' = [th EXCEPT !["main"].pc = "scan", !["main"].at = 0,
                              !["main"].fd = Fd(n, accepts + 1)]
      PROVE  LInv'
  <2>1. accepts + 1 \in 0 .. Accepts /\ accepts + 1 \in -1 .. Accepts
    BY <1>3, MainTyped, BoundsAssumption
  <2>2. Fd(n, accepts + 1) \in Descriptor /\ Fd(n, accepts + 1).num = n
    BY <2>1 DEF Fd, Descriptor
  <2>3. /\ th' \in [Threads -> Thread] /\ Keeps("main") /\ th'["main"].pc = "scan"
        /\ th'["main"].fd.num = n
    BY <1>3, <2>2, MainTyped, Indices DEF Thread, Keeps, Between
  <2>4. files' \in [ConnFds -> -1 .. Accepts]
    BY <1>3, <2>1, MainTyped
  <2> QED
    BY <1>1, <1>3, <2>1, <2>3, <2>4, MainTyped, LMain
       DEF Booting, Finishing, Destorying, Accepting, Adding, Handling
<1> QED
  BY <1>2, <1>3 DEF Accept

LEMMA ScanEntryLInv == ASSUME LInv, ScanEntry PROVE LInv'
<1>1. /\ UNCHANGED <<slot, reg, live, mallocs, accepts, epfd, ready>> /\ Typed
      /\ th["main"].pc = "scan" /\ th["main"].fd.num \in ConnFds
  BY DEF ScanEntry, LInv, At, heap, Threading
<1>2. /\ th' \in [Threads -> Thread] /\ Keeps("main")
      /\ \/ th'["main"].pc = "dispatch"
         \/ th'["main"].pc \in {"scan", "initZero"} /\ th'["main"].fd = th["main"].fd
      /\ th'["main"].pc = "initZero" => th'["main"].at \in Entries
      /\ files' \in [ConnFds -> -1 .. Accepts]
  <2>1. CASE files' = [files EXCEPT ![th["main"].fd.num] = Lost] /\ Goto("main", "dispatch")
    <3>1. files' \in [ConnFds -> -1 .. Accepts]
      <4>1. files \in [ConnFds -> -1 .. Accepts] /\ Lost \in -1 .. Accepts
        BY MainTyped, BoundsAssumption DEF Lost
      <4> QED
        BY <2>1, <4>1
    <3> QED
      BY <2>1, <3>1, MainGoto DEF Between
  <2>2. ASSUME th["main"].at < MaxEvents, UNCHANGED files,
               IF Entry("main").status = "Inuse" THEN th' = [th EXCEPT !["main"].at = @ + 1]
               ELSE Goto("main", "initZero")
        PROVE  /\ th' \in [Threads -> Thread] /\ Keeps("main")
               /\ th'["main"].pc \in {"scan", "initZero"} /\ th'["main"].fd = th["main"].fd
               /\ th'["main"].pc = "initZero" => th'["main"].at \in Entries
               /\ files' \in [ConnFds -> -1 .. Accepts]
    <3>1. th["main"].at \in Entries /\ th["main"].at + 1 \in Slots
      BY <2>2, MainTyped, BoundsAssumption DEF Entries, Slots
    <3>2. CASE Entry("main").status = "Inuse"
      <4>1. th' = [th EXCEPT !["main"].at = th["main"].at + 1]
        BY <2>2, <3>2
      <4> QED
        BY <1>1, <2>2, <3>1, <4>1, MainTyped DEF Thread, Keeps
    <3>3. CASE Entry("main").status # "Inuse"
      BY <1>1, <2>2, <3>1, <3>3, GotoMove, MainTyped DEF Accepting
    <3> QED
      BY <3>2, <3>3
  <2> QED
    BY <2>1, <2>2 DEF ScanEntry
<1> QED
  BY <1>1, <1>2, MainTyped, LMain
     DEF Booting, Finishing, Destorying, Accepting, Adding, Handling

LEMMA InitZeroLInv == ASSUME LInv, InitZero PROVE LInv'
<1>1. /\ UNCHANGED <<reg, files, live, mallocs, accepts, epfd, ready>>
      /\ th["main"].pc = "initZero" /\ th["main"].fd.num \in ConnFds /\ th["main"].at \in Entries
      /\ slot' = [slot EXCEPT ![th["main"].at] = ZeroEvent] /\ Goto("main", "initFd")
  BY DEF InitZero, LInv, At, kernel, heap, Threading, Accepting
<1>2. PICK k \in Entries : k = th["main"].at
  BY <1>1
<1>3. slot' \in [Slots -> Event] /\ slot'[k] = ZeroEvent /\ \A i \in Slots : i # k => slot'[i] = slot[i]
  BY <1>1, <1>2, MainTyped, Numbers
<1>4. Foreign(k)'
  BY <1>3 DEF Foreign, ZeroEvent, ZeroFd, Fd, Fields, NULL
<1>5. /\ th' \in [Threads -> Thread] /\ Keeps("main") /\ th'["main"].pc = "initFd"
      /\ th'["main"].at = k /\ th'["main"].fd = th["main"].fd
  BY <1>1, <1>2, MainGoto DEF Accepting
<1> QED
  BY <1>1, <1>3, <1>4, <1>5, MainTyped, Indices, LMain
     DEF Booting, Finishing, Destorying, Accepting, Adding, Handling

LEMMA InitFdLInv == ASSUME LInv, InitFd PROVE LInv'
<1>1. /\ UNCHANGED <<reg, files, live, mallocs, accepts, epfd, ready>>
      /\ th["main"].pc = "initFd" /\ th["main"].fd.num \in ConnFds /\ th["main"].at \in Entries
      /\ slot' = [slot EXCEPT ![th["main"].at].handler = "AcceptRequest",
                              ![th["main"].at].fd = th["main"].fd]
      /\ th' = [th EXCEPT !["main"].pc = "initBuff", !["main"].field = "in"]
  BY DEF InitFd, LInv, At, kernel, heap, Threading, Accepting
<1>2. PICK k \in Entries : k = th["main"].at
  BY <1>1
<1>3. /\ slot' \in [Slots -> Event] /\ \A i \in Slots : i # k => slot'[i] = slot[i]
      /\ slot'[k].fd = th["main"].fd /\ slot'[k].handler = "AcceptRequest"
      /\ slot'[k].in = slot[k].in /\ slot'[k].out = slot[k].out /\ slot'[k].arg = slot[k].arg
  BY SMTT(30), <1>1, <1>2, MainTyped DEF Thread, Event
<1>4. Foreign(k)'
  <2>1. Foreign(k)
    BY MainTyped
  <2> QED
    BY <1>1, <1>3, <2>1 DEF Foreign, Fields
<1>5. /\ th' \in [Threads -> Thread] /\ Keeps("main") /\ th'["main"].pc = "initBuff"
      /\ th'["main"].at = k /\ th'["main"].field = "in"
  BY <1>1, <1>2, MainTyped DEF Accepting, Thread, Keeps, Fields
<1> QED
  BY <1>1, <1>3, <1>4, <1>5, MainTyped, Indices, LMain
     DEF Booting, Finishing, Destorying, Accepting, Adding, Handling

(* A block allocated into an entry. *)
LEMMA AllocForeign ==
  ASSUME LInv, th["main"].pc \notin Booting, NEW k \in Entries, k = th["main"].at,
         NEW f \in Fields, Write("main", f, mallocs + 1), mallocs' = mallocs + 1
  PROVE  /\ slot' \in [Slots -> Event] /\ \A i \in Slots : i # k => slot'[i] = slot[i]
         /\ Foreign(k)'
<1>1. PICK x \in Nat : x = mallocs + 1
  BY MainTyped
<1>2. Write("main", f, x) /\ Typed /\ "main" \in Threads
  BY <1>1 DEF Write, LInv, Threads
<1>3. /\ slot' \in [Slots -> Event] /\ \A i \in Slots : i # k => slot'[i] = slot[i]
      /\ slot'[th["main"].at][f] = x
      /\ \A g \in Fields : g # f => slot'[th["main"].at][g] = Entry("main")[g]
      /\ slot'[th["main"].at].fd = Entry("main").fd
      /\ slot'[th["main"].at].handler = Entry("main").handler
  BY <1>2, WriteEffect
<1>4. Foreign(k) /\ mallocs \in Nat /\ mallocs >= 2
  BY MainTyped DEF LInv, Listening
<1>5. x \in 3 .. mallocs' /\ \A y \in 3 .. mallocs : y \in 3 .. mallocs'
  BY <1>1, <1>4
<1> QED
  BY <1>3, <1>4, <1>5 DEF Foreign, Entry

LEMMA InitBuffLInv == ASSUME LInv, InitBuff PROVE LInv'
<1>1. /\ UNCHANGED <<reg, files, accepts, epfd, ready>>
      /\ th["main"].pc = "initBuff" /\ th["main"].at \in Entries /\ th["main"].field \in Fields
      /\ live' = live \cup {mallocs + 1} /\ mallocs' = mallocs + 1
      /\ Write("main", th["main"].field, mallocs + 1)
  BY MainTyped DEF InitBuff, LInv, At, kernel, heap, Threading, Accepting, Thread
<1>2. PICK k \in Entries, f \in Fields : k = th["main"].at /\ f = th["main"].field
  BY <1>1
<1>3. /\ slot' \in [Slots -> Event] /\ \A i \in Slots : i # k => slot'[i] = slot[i]
      /\ Foreign(k)'
  <2>1. Write("main", f, mallocs + 1)
    BY <1>1, <1>2 DEF Write
  <2> QED
    BY <1>1, <1>2, <2>1, AllocForeign DEF Booting
<1>4. /\ th' \in [Threads -> Thread] /\ Keeps("main") /\ th'["main"].pc \in {"initBuff", "addEvents"}
      /\ th'["main"].at = k
      /\ th'["main"].pc = "initBuff" => th'["main"].field = "out"
  BY <1>1, <1>2, MainTyped DEF InitBuff, Adding, Thread, Keeps, Fields
<1>5. live' \subseteq 1 .. mallocs' /\ mallocs' \in Nat /\ mallocs' >= mallocs
  BY <1>1, MainTyped
<1> QED
  BY <1>1, <1>3, <1>4, <1>5, MainTyped, Indices, LMain
     DEF Booting, Finishing, Destorying, Accepting, Adding, Handling

LEMMA SetInfoLInv == ASSUME LInv, SetInfo PROVE LInv'
<1>1. /\ UNCHANGED <<reg, files, accepts, epfd, ready>>
      /\ th["main"].pc = "setInfo" /\ th["main"].at \in Entries /\ Goto("main", "setHandler")
  BY DEF SetInfo, LInv, At, kernel, heap, Threading, Handling
<1>2. PICK k \in Entries : k = th["main"].at
  BY <1>1
<1>3. /\ slot' \in [Slots -> Event] /\ \A i \in Slots : i # k => slot'[i] = slot[i]
      /\ slot'[k] = slot[k] \/ Foreign(k)'
      /\ live' \subseteq 1 .. mallocs' /\ mallocs' \in Nat /\ mallocs' >= mallocs
      /\ live \subseteq live'
  <2>1. CASE UNCHANGED <<slot, live, mallocs>>
    BY <2>1, MainTyped
  <2>2. CASE /\ Write("main", "arg", mallocs + 1)
             /\ live' = live \cup {mallocs + 1} /\ mallocs' = mallocs + 1
    <3>1. live' \subseteq 1 .. mallocs' /\ mallocs' \in Nat /\ mallocs' >= mallocs
      BY <2>2, MainTyped
    <3> QED
      BY <1>1, <1>2, <2>2, <3>1, AllocForeign DEF Booting, Fields
  <2> QED
    BY <2>1, <2>2 DEF SetInfo
<1>4. /\ th' \in [Threads -> Thread] /\ Keeps("main") /\ th'["main"].pc = "setHandler"
      /\ th'["main"].at = k
  BY <1>1, <1>2, MainGoto DEF Handling
<1> QED
  BY <1>1, <1>3, <1>4, MainTyped, Indices, LMain
     DEF Booting, Finishing, Destorying, Accepting, Adding, Handling

(* Writes of a plain field of the entry. *)
LEMMA PlainForeign ==
  ASSUME LInv, NEW k \in Entries, k = th["main"].at, NEW x,
         \/ Write("main", "events", x) /\ x \in {"IN", "OUT"}
         \/ Write("main", "status", x) /\ x = "Inuse"
         \/ Write("main", "handler", x) /\ x = "SendResponse",
         mallocs' = mallocs
  PROVE  /\ slot' \in [Slots -> Event] /\ \A i \in Slots : i # k => slot'[i] = slot[i]
         /\ Foreign(k)'
<1>1. slot[k] \in Event /\ Foreign(k) /\ k \in Slots /\ slot \in [Slots -> Event]
  BY MainTyped
<1>2. /\ slot' \in [Slots -> Event] /\ \A i \in Slots : i # k => slot'[i] = slot[i]
      /\ slot'[k].fd = slot[k].fd /\ slot'[k].handler \in {slot[k].handler, "SendResponse"}
      /\ slot'[k].in = slot[k].in /\ slot'[k].out = slot[k].out /\ slot'[k].arg = slot[k].arg
  <2>1. CASE Write("main", "events", x) /\ x \in {"IN", "OUT"}
    BY <1>1, <2>1 DEF Write, Event
  <2>2. CASE Write("main", "status", x) /\ x = "Inuse"
    BY <1>1, <2>2 DEF Write, Event
  <2>3. CASE Write("main", "handler", x) /\ x = "SendResponse"
    BY <1>1, <2>3 DEF Write, Event
  <2> QED
    BY <2>1, <2>2, <2>3
<1> QED
  BY <1>1, <1>2 DEF Foreign, Fields

LEMMA ArmLInv == ASSUME LInv, AddEvents \/ AddStatus \/ SetEvent PROVE LInv'
<1>1. /\ UNCHANGED <<reg, files, live, mallocs, accepts, epfd, ready>>
      /\ th["main"].pc \in Adding \cup Handling /\ th["main"].at \in Entries
  BY DEF AddEvents, AddStatus, SetEvent, LInv, At, kernel, heap, Threading, Adding, Handling
<1>2. PICK k \in Entries : k = th["main"].at
  BY <1>1
<1>3. /\ slot' \in [Slots -> Event] /\ \A i \in Slots : i # k => slot'[i] = slot[i]
      /\ Foreign(k)'
  <2>1. CASE AddEvents
    <3>1. PICK x \in {"IN", "OUT"} : x = th["main"].ev
      BY MainTyped DEF Thread
    <3>2. Write("main", "events", x)
      BY <2>1, <3>1 DEF AddEvents, Write
    <3> QED
      BY <1>1, <1>2, <3>2, PlainForeign
  <2>2. CASE AddStatus
    BY <1>1, <1>2, <2>2, PlainForeign DEF AddStatus
  <2>3. CASE SetEvent
    BY <1>1, <1>2, <2>3, PlainForeign DEF SetEvent
  <2> QED
    BY <2>1, <2>2, <2>3
<1>4. /\ th' \in [Threads -> Thread] /\ Keeps("main")
      /\ th'["main"].pc \in {"addOp", "dispatch", "addEvents"} /\ th'["main"].at = k
  <2>1. CASE SetEvent
    BY <1>2, <2>1, MainTyped DEF SetEvent, Thread, Keeps, Adding
  <2>2. CASE AddEvents
    BY <1>2, <2>2, MainGoto DEF AddEvents, Adding
  <2>3. CASE AddStatus
    BY <1>2, <2>3, MainGoto DEF AddStatus, Between
  <2> QED
    BY <2>1, <2>2, <2>3
<1> QED
  BY <1>1, <1>3, <1>4, MainTyped, Indices, LMain
     DEF Booting, Finishing, Destorying, Accepting, Adding, Handling

LEMMA AddCtlLInv == ASSUME LInv, AddCtl PROVE LInv'
<1>1. /\ UNCHANGED <<slot, files, live, mallocs, accepts, epfd, ready>>
      /\ th["main"].pc \in {"mod", "add"} /\ th["main"].at \in Entries
  BY DEF AddCtl, LInv, At, heap, Threading, Adding
<1>2. Entry("main").fd.num \in {0} \cup ConnFds /\ th["main"].ev \in {"IN", "OUT"}
  BY <1>1, MainTyped DEF Entry, Foreign, Thread
<1>3. /\ th' \in [Threads -> Thread] /\ Keeps("main")
      /\ th'["main"].pc = "addStatus" /\ th'["main"].at \in Entries
      /\ reg' \subseteq Reports /\ \A x \in reg : x.fd = ListenFd => x \in reg'
  <2>1. /\ reg' = {x \in reg : x.fd # Entry("main").fd.num}
                     \cup {Interest(Entry("main").fd.num, th["main"].at, th["main"].ev)}
        /\ Goto("main", "addStatus")
    BY DEF AddCtl
  <2>2. Interest(Entry("main").fd.num, th["main"].at, th["main"].ev) \in Reports
    BY <1>1, <1>2, Indices DEF Interest, Reports
  <2>3. reg' \subseteq Reports /\ \A x \in reg : x.fd = ListenFd => x \in reg'
    BY <1>2, <2>1, <2>2, MainTyped, Numbers
  <2> QED
    BY <1>1, <2>1, <2>3, MainGoto DEF Adding
<1> QED
  BY <1>1, <1>3, MainTyped, LMain
     DEF Booting, Finishing, Destorying, Accepting, Adding, Handling

-----------------------------------------------------------------------------
LEMMA SigWaitLInv == ASSUME LInv, NEW s \in Signals, SigWait(s) PROVE LInv'
<1>1. UNCHANGED <<slot, reg, files, live, mallocs, accepts, epfd, ready>> /\ th["sig"].pc = "sigwait"
  BY DEF SigWait, kernel, heap, At
<1>2. /\ th' \in [Threads -> Thread] /\ th'["main"] = th["main"]
      /\ th'["sig"].pc \in {"sigwait", "del"} /\ th'["sig"].at \in Entries
  <2>1. epfd \in Nat /\ 0 \in Entries /\ 0 \in Slots
    BY Indices DEF LInv, Typed, EpollFd
  <2>2. th \in [Threads -> Thread] /\ th["sig"].at \in Entries
    BY DEF LInv, Typed, Threading
  <2>3. CASE th' = th
    BY <1>1, <2>2, <2>3
  <2>4. CASE th' = [th EXCEPT !["sig"].pc = "del", !["sig"].at = 0, !["sig"].tmp = epfd]
    BY <2>1, <2>2, <2>4 DEF Threads, Thread, Finishing
  <2> QED
    BY <2>3, <2>4 DEF SigWait
<1>3. Typed'
  BY <1>1, <1>2 DEF LInv, Typed
<1>4. Threading'
  BY <1>1, <1>2 DEF LInv, Threading, Finishing
<1>5. Apart'
  BY <1>1, <1>2 DEF LInv, Apart, Foreign, Threads
<1>6. Listening'
  BY <1>1, <1>2 DEF LInv, Listening
<1> QED
  BY <1>3, <1>4, <1>5, <1>6 DEF LInv

LEMMA LInvStep == LInv /\ [Next]_vars => LInv'
<1> SUFFICES ASSUME LInv, [Next]_vars PROVE LInv'
  OBVIOUS
<1>1. ASSUME UNCHANGED <<slot, reg, files, live, mallocs, accepts, epfd, ready, th>> PROVE LInv'
  BY <1>1 DEF LInv, Typed, Threading, Apart, Foreign, Listening
<1>2. ASSUME NEW t \in Threads, FinishEvent(t),
             UNCHANGED <<mallocs, left, accepts, epfd, ready, signals, stopped>>
      PROVE  LInv'
  BY <1>2, FinishLInv
<1>3. ASSUME NEW t \in Threads, Crash(t) PROVE LInv'
  BY <1>1, <1>3 DEF Crash, kernel, heap
<1>4. CASE SigStep
  BY <1>1, <1>2, <1>3, <1>4, SigWaitLInv DEF SigStep, Sig, Exit, kernel, heap, Threads
<1>5. CASE MainStep
  BY <1>2, <1>3, <1>5, EpollCreateLInv, AddListenerLInv, WalkLInv, AcceptLInv, ScanEntryLInv,
     InitZeroLInv, InitFdLInv, InitBuffLInv, ArmLInv, AddCtlLInv, SetInfoLInv
     DEF MainStep, Main, Threads, Fails
<1>6. CASE KillStep
  BY <1>1, <1>6 DEF KillStep, Kill, kernel, heap
<1>7. CASE UNCHANGED vars
  BY <1>1, <1>7 DEF vars, kernel, heap
<1> QED
  BY <1>4, <1>5, <1>6, <1>7 DEF Next

(* From the moment the listener's entry is made until the process stops it *)
(* stays in use and registered and keeps its buffers, for any size of the  *)
(* table: both loops of the signal thread end before it, and no other      *)
(* entry ever has its descriptor or its blocks.                            *)
THEOREM ListenerStays == Spec => []ListenerKept
<1>1. LInv => ListenerKept
  BY DEF LInv, Listening, ListenerKept, Booting, At
<1> QED
  BY <1>1, InitLInv, LInvStep, PTL DEF Spec

-----------------------------------------------------------------------------
(* As long as the threads have not overlapped: HInv is kept. *)

(* An entry that keeps its blocks, its descriptor and its handler. *)
Same(i) ==
  /\ slot'[i].fd = slot[i].fd /\ slot'[i].handler = slot[i].handler
  /\ \A f \in Fields : slot'[i][f] = slot[i][f]

LEMMA Unshared ==
  ASSUME ~Overlap, NEW t \in Threads, NEW u \in Threads, t # u, th[t].at = th[u].at,
         th[t].pc \in Destorying
  PROVE  th[u].pc \notin Destorying
  BY DEF Overlap, Threads

LEMMA Blocks ==
  ASSUME LInv
  PROVE  \A i \in Slots, f \in Fields : slot[i][f] \in 0 .. mallocs
<1> SUFFICES ASSUME NEW i \in Slots, NEW f \in Fields PROVE slot[i][f] \in 0 .. mallocs
  OBVIOUS
<1>1. mallocs \in Nat
  BY MainTyped
<1>2. CASE i \in Entries
  <2>1. slot[i][f] \in {NULL} \cup 3 .. mallocs
    BY <1>2, MainTyped DEF Foreign
  <2> QED
    BY <1>1, <2>1 DEF NULL
<1>3. CASE i = DN_ACCEPT_EVENT
  <2>1. slot[i].in \in 0 .. mallocs /\ slot[i].out \in 0 .. mallocs /\ slot[i].arg \in 0 .. mallocs
    BY <1>1, <1>3 DEF LInv, Listening, ZeroEvent, NULL
  <2> QED
    BY <2>1 DEF Fields
<1> QED
  BY <1>2, <1>3, Indices

LEMMA InitHInv == Init => HInv
<1> SUFFICES ASSUME Init PROVE Disjoint
  BY DEF HInv
<1>1. \A i \in Slots : slot[i] = ZeroEvent
  BY DEF Init
<1>2. \A i \in Slots, f \in Fields : slot[i][f] = NULL
  BY <1>1 DEF ZeroEvent, Fields
<1>3. \A i \in Slots : slot[i].arg = NULL /\ slot[i].fd.num = 0
  BY <1>1 DEF ZeroEvent, ZeroFd, Fd
<1>4. \A t \in Threads : th[t].pc \in {"sigwait", "create"}
  BY DEF Init
<1>5. th["main"].pc = "create" /\ ~twice /\ ~stray
  BY DEF Init, Threads
<1> QED
  BY <1>2, <1>3, <1>4, <1>5, Indices
     DEF Disjoint, Overlap, Destorying, OneOwner, Allocated, Freeing, Arguments, Requesting,
         OneEntry, OpenFiles, Pending, Accepting

(* A step of the thread t that changes no block, descriptor or handler. *)
LEMMA Frame ==
  ASSUME LInv, LInv', Disjoint, ~Overlap', NEW t \in Threads, Keeps(t),
         th[t].pc \notin {"clear", "zero", "setHandler"},
         \A i \in Slots : Same(i),
         UNCHANGED <<live, accepts, files, twice, stray>>,
         th'[t].pc \in {"load", "free", "clear"} => slot[th'[t].at][th'[t].field] # NULL,
         th'[t].pc = "free" => th'[t].tmp = slot[th'[t].at][th'[t].field],
         th'[t].pc = "close" => th'[t].fd = slot[th'[t].at].fd,
         t = "main" => Requesting',
         t = "main" /\ Pending' => Pending /\ th'["main"].fd = th["main"].fd
  PROVE  Disjoint'
<1>1. ~twice' /\ ~stray'
  BY DEF Disjoint
<1>2. OneOwner'
  BY DEF Disjoint, OneOwner, Same
<1>3. Allocated'
  BY DEF Disjoint, Allocated, Same, Keeps, InField, At
<1>4. Freeing'
  <2> SUFFICES ASSUME NEW u \in Threads
               PROVE  /\ th'[u].pc \in {"load", "free", "clear"} => Entry(u)[th[u].field]' # NULL
                      /\ th'[u].pc = "free" => th'[u].tmp = Entry(u)[th[u].field]'
    BY DEF Freeing
  <2>1. th'[u].at \in Slots /\ th'[u].field \in Fields
    BY DEF LInv, Typed, Thread
  <2>2. Entry(u)[th[u].field]' = slot[th'[u].at][th'[u].field]
    BY <2>1 DEF Same, Entry
  <2>3. CASE u = t
    BY <2>2, <2>3
  <2>4. CASE u # t
    BY <2>2, <2>4 DEF Disjoint, Freeing, Keeps, Entry
  <2> QED
    BY <2>3, <2>4
<1>5. Arguments'
  <2> SUFFICES ASSUME NEW i \in Entries
               PROVE  \/ slot'[i].arg = NULL
                      \/ slot'[i].handler = "SendResponse"
                      \/ th'["main"].pc = "setHandler" /\ th'["main"].at = i
    BY DEF Arguments, At
  <2>1. slot'[i].arg = slot[i].arg /\ slot'[i].handler = slot[i].handler
    BY Indices DEF Same, Fields
  <2> QED
    BY <2>1 DEF Disjoint, Arguments, At, Keeps, Threads
<1>6. Requesting'
  <2>1. CASE t = "main"
    BY <2>1
  <2>2. CASE t # "main"
    <3>1. th'["main"] = th["main"] /\ th["main"].at \in Slots
      BY <2>2, MainTyped DEF Keeps
    <3>2. slot'[th["main"].at].arg = slot[th["main"].at].arg
      BY <3>1 DEF Same, Fields
    <3> QED
      BY <3>1, <3>2 DEF Disjoint, Requesting, Entry
  <2> QED
    BY <2>1, <2>2
<1>7. \A i \in Entries : slot'[i].fd = slot[i].fd
  BY Indices DEF Same
<1>8. Pending' => Pending /\ th'["main"].fd = th["main"].fd
  BY DEF Pending, Keeps, Threads
<1>9. OneEntry'
  BY <1>7, <1>8 DEF Disjoint, OneEntry
<1>10. OpenFiles'
  <2>1. \A i \in Entries :
          slot'[i].fd.num # 0 =>
            files'[slot'[i].fd.num] = slot'[i].fd.conn
              \/ \E u \in Threads : th'[u].pc = "zero" /\ th'[u].at = i
    BY <1>7 DEF Disjoint, OpenFiles, Keeps, At
  <2>2. \A u \in Threads : th'[u].pc = "close" => th'[u].fd = Entry(u).fd'
    <3> SUFFICES ASSUME NEW u \in Threads, th'[u].pc = "close" PROVE th'[u].fd = slot'[th'[u].at].fd
      BY DEF Entry
    <3>1. slot'[th'[u].at].fd = slot[th'[u].at].fd
      BY DEF LInv, Typed, Thread, Same
    <3>2. CASE u = t
      BY <3>1, <3>2
    <3>3. CASE u # t
      BY <3>1, <3>3 DEF Keeps, Disjoint, OpenFiles, Entry
    <3> QED
      BY <3>2, <3>3
  <2>3. Pending' => files'[th'["main"].fd.num] = th'["main"].fd.conn
    BY <1>8 DEF Disjoint, OpenFiles
  <2> QED
    BY <2>1, <2>2, <2>3 DEF OpenFiles, At
<1> QED
  BY <1>1, <1>2, <1>3, <1>4, <1>5, <1>6, <1>9, <1>10 DEF Disjoint

-----------------------------------------------------------------------------
LEMMA UnchangedFields ==
  ASSUME UNCHANGED slot PROVE \A i \in Slots : Same(i)
  BY DEF Same

LEMMA PlainWrite ==
  ASSUME LInv, NEW t \in Threads, NEW x,
         Write(t, "status", x) \/ Write(t, "events", x)
  PROVE  \A i \in Slots : Same(i)
<1>1. slot \in [Slots -> Event]
  BY MainTyped
<1>2. CASE Write(t, "status", x)
  BY <1>1, <1>2 DEF Write, Same, Fields, Event
<1>3. CASE Write(t, "events", x)
  BY <1>1, <1>3 DEF Write, Same, Fields, Event
<1> QED
  BY <1>2, <1>3

(* The steps of DN_DelEvent and DN_DestoryEvent that only look. *)
LEMMA DelHarmless ==
  ASSUME LInv, LInv', Disjoint, ~Overlap', NEW t \in Threads,
         DelTest(t) \/ DelCtl(t) \/ DelStatus(t), UNCHANGED accepts
  PROVE  Disjoint'
<1>1. th[t].pc \in {"del", "delCtl", "delStatus"} /\ th[t].at \in Entries /\ Typed
  BY InFinish DEF DelTest, DelCtl, DelStatus, At, Finishing, LInv
<1>2. UNCHANGED <<live, files, twice, stray>>
  BY DEF DelTest, DelCtl, DelStatus, kernel, heap, history
<1>3. \A i \in Slots : Same(i)
  BY PlainWrite, UnchangedFields DEF DelTest, DelCtl, DelStatus
<1>4. Keeps(t) /\ th'[t].pc \in {"del", "destory", "delCtl", "delStatus"}
  <2>1. CASE AfterDelEvent(t)
    BY <1>1, <2>1, AfterDelMove
  <2>2. CASE Goto(t, "delCtl") \/ Goto(t, "delStatus")
    BY <1>1, <2>2, GotoMove DEF Finishing
  <2> QED
    BY <2>1, <2>2 DEF DelTest, DelCtl, DelStatus
<1> QED
  BY <1>1, <1>2, <1>3, <1>4, Frame DEF Requesting, Pending

LEMMA LookHarmless ==
  ASSUME LInv, LInv', Disjoint, ~Overlap', NEW t \in Threads,
         DestoryTest(t) \/ TestPointer(t) \/ LoadPointer(t) \/ LoadFd(t), UNCHANGED accepts
  PROVE  Disjoint'
<1>1. /\ th[t].pc \in {"destory", "test", "load", "fd"} /\ th[t].at \in Entries /\ Typed
      /\ th[t] \in Thread /\ th \in [Threads -> Thread]
  BY InFinish DEF DestoryTest, TestPointer, LoadPointer, LoadFd, At, Finishing, Destorying, LInv,
     Typed
<1>2. UNCHANGED <<slot, live, files, twice, stray>>
  BY DEF DestoryTest, TestPointer, LoadPointer, LoadFd, kernel, heap, history
<1>3. \A i \in Slots : Same(i)
  BY <1>2, UnchangedFields
<1>4. /\ Keeps(t)
      /\ \/ th'[t].pc \in {"test", "destory", "dispatch", "exit", "fd", "zero"}
         \/ th'[t].pc = "load" /\ slot[th'[t].at][th'[t].field] # NULL
         \/ /\ th'[t].pc = "free" /\ slot[th'[t].at][th'[t].field] # NULL
            /\ th'[t].tmp = slot[th'[t].at][th'[t].field]
         \/ th'[t].pc = "close" /\ th'[t].fd = slot[th'[t].at].fd
  <2>1. CASE DestoryTest(t)
    <3>1. CASE Entry(t).status = "Void"
      BY <1>1, <2>1, <3>1, AfterDestoryMove DEF DestoryTest, Threads
    <3>2. CASE Entry(t).status # "Void"
      <4>1. th' = [th EXCEPT ![t].pc = "test", ![t].field = "in"]
        BY <2>1, <3>2 DEF DestoryTest
      <4> QED
        BY <1>1, <4>1 DEF Thread, Keeps
    <3> QED
      BY <3>1, <3>2
  <2>2. CASE TestPointer(t)
    <3>1. CASE Entry(t)[th[t].field] = NULL
      BY <1>1, <2>2, <3>1, AfterFieldMove DEF TestPointer
    <3>2. CASE Entry(t)[th[t].field] # NULL
      <4>1. Keeps(t) /\ th'[t].pc = "load" /\ th'[t].at = th[t].at /\ th'[t].field = th[t].field
        BY <1>1, <2>2, <3>2, GotoMove DEF TestPointer, Finishing, Destorying
      <4> QED
        BY <3>2, <4>1 DEF Entry
    <3> QED
      BY <3>1, <3>2
  <2>3. CASE LoadPointer(t)
    <3>1. th' = [th EXCEPT ![t].pc = "free", ![t].tmp = Entry(t)[th[t].field]]
      BY <2>3 DEF LoadPointer
    <3>2. /\ Keeps(t) /\ th'[t].pc = "free" /\ th'[t].at = th[t].at /\ th'[t].field = th[t].field
          /\ th'[t].tmp = Entry(t)[th[t].field]
      BY <1>1, <3>1 DEF Thread, Keeps
    <3>3. Entry(t)[th[t].field] # NULL
      BY <2>3 DEF LoadPointer, At, Disjoint, Freeing
    <3> QED
      BY <3>2, <3>3 DEF Entry
  <2>4. CASE LoadFd(t)
    <3>1. th' = [th EXCEPT ![t].pc = IF Entry(t).fd.num > 0 THEN "close" ELSE "zero",
                          ![t].fd = Entry(t).fd]
      BY <2>4 DEF LoadFd
    <3>2. /\ Keeps(t) /\ th'[t].pc \in {"close", "zero"} /\ th'[t].at = th[t].at
          /\ th'[t].fd = Entry(t).fd
      BY <1>1, <3>1 DEF Thread, Keeps
    <3> QED
      BY <3>2 DEF Entry
  <2> QED
    BY <2>1, <2>2, <2>3, <2>4
<1>5. UNCHANGED <<live, accepts, files, twice, stray>>
  BY <1>2
<1>6. t = "main" => Requesting' /\ ~Pending'
  BY <1>4 DEF Requesting, Pending
<1> QED
  BY <1>1, <1>3, <1>4, <1>5, <1>6, Frame

(* The block a thread frees is allocated, and in no other entry. *)
LEMMA FreeHarmless ==
  ASSUME LInv, LInv', Disjoint, ~Overlap', NEW t \in Threads, Free(t), UNCHANGED accepts
  PROVE  Disjoint'
<1>1. /\ th[t].pc = "free" /\ th[t].at \in Entries /\ Typed /\ th[t].field \in Fields
      /\ th[t].tmp = Entry(t)[th[t].field] /\ Entry(t)[th[t].field] # NULL
  BY InFinish DEF Free, At, Finishing, Destorying, LInv, Typed, Thread, Disjoint, Freeing
<1>2. PICK k \in Entries, f \in Fields : k = th[t].at /\ f = th[t].field
  BY <1>1
<1>3. /\ UNCHANGED <<slot, files, stray>> /\ live' = live \ {slot[k][f]}
      /\ twice' = (twice \/ slot[k][f] \notin live \cup {NULL})
  BY <1>1, <1>2 DEF Free, kernel, heap, Entry
<1>4. Keeps(t) /\ th'[t].pc = "clear" /\ th'[t].at = k /\ th'[t].field = f
  BY <1>1, <1>2, GotoMove DEF Free, Finishing, Destorying
<1>5. slot[k][f] # NULL /\ slot[k][f] \in live
  <2>1. slot[k][f] \in live \/ \E u \in Threads : th[u].pc = "clear" /\ th[u].at = k
    BY <1>1, <1>2, Indices DEF Disjoint, Allocated, At, InField, Entry
  <2>2. ASSUME NEW u \in Threads, th[u].pc = "clear", th[u].at = k PROVE FALSE
    BY <1>1, <1>2, <2>2, Unshared DEF Disjoint, Destorying
  <2> QED
    BY <1>1, <1>2, <2>1, <2>2 DEF Entry
<1>6. ~twice' /\ ~stray' /\ OneOwner'
  <2>1. ~twice /\ ~stray
    BY DEF Disjoint
  <2>2. ~twice' /\ ~stray'
    BY <1>3, <1>5, <2>1
  <2> QED
    BY <1>3, <2>2 DEF Disjoint, OneOwner
<1>7. Allocated'
  <2> SUFFICES ASSUME NEW i \in Slots, NEW g \in Fields, slot'[i][g] # NULL, slot'[i][g] \notin live'
               PROVE  \E u \in Threads : th'[u].pc = "clear" /\ th'[u].at = i /\ th'[u].field = g
    BY DEF Allocated, At, InField
  <2>1. CASE slot[i][g] \in live
    <3>1. slot[i][g] = slot[k][f]
      BY <1>3, <2>1
    <3>2. i = k /\ g = f
      BY <1>3, <3>1, Indices DEF Disjoint, OneOwner
    <3> QED
      BY <1>4, <3>2
  <2>2. CASE slot[i][g] \notin live
    <3>1. PICK u \in Threads : th[u].pc = "clear" /\ th[u].at = i /\ th[u].field = g
      BY <1>3, <2>2 DEF Disjoint, Allocated, At, InField
    <3> QED
      BY <1>1, <3>1, <1>4 DEF Keeps
  <2> QED
    BY <2>1, <2>2
<1>8. Freeing'
  <2>1. Entry(t)[th[t].field]' = slot[k][f] /\ slot[k][f] # NULL
    BY <1>3, <1>4, <1>5 DEF Entry
  <2>2. \A u \in Threads \ {t} : th'[u] = th[u] /\ Entry(u)' = Entry(u)
    BY <1>3, <1>4 DEF Keeps, Entry
  <2>3. ASSUME NEW u \in Threads
        PROVE  /\ th'[u].pc \in {"load", "free", "clear"} => Entry(u)[th[u].field]' # NULL
               /\ th'[u].pc = "free" => th'[u].tmp = Entry(u)[th[u].field]'
    <3>1. CASE u = t
      BY <1>4, <2>1, <3>1
    <3>2. CASE u # t
      BY <2>2, <3>2 DEF Disjoint, Freeing
    <3> QED
      BY <3>1, <3>2
  <2> QED
    BY <2>3 DEF Freeing
<1>9. Arguments' /\ Requesting'
  BY <1>1, <1>3, <1>4 DEF Disjoint, Arguments, Requesting, Keeps, Threads, At, Entry
<1>10. Pending' => Pending /\ th'["main"].fd = th["main"].fd
  BY <1>4 DEF Pending, Keeps, Threads
<1>11. OneEntry'
  BY <1>3, <1>10 DEF Disjoint, OneEntry
<1>12. OpenFiles'
  BY <1>1, <1>3, <1>4, <1>10 DEF Disjoint, OpenFiles, Keeps, At, Entry
<1> QED
  BY <1>6, <1>7, <1>8, <1>9, <1>11, <1>12 DEF Disjoint

LEMMA ClearHarmless ==
  ASSUME LInv, LInv', Disjoint, ~Overlap', NEW t \in Threads, ClearPointer(t), UNCHANGED accepts
  PROVE  Disjoint'
<1>1. /\ th[t].pc = "clear" /\ th[t].at \in Entries /\ Typed /\ th[t].field \in Fields
  BY InFinish DEF ClearPointer, At, Finishing, Destorying, LInv, Typed, Thread
<1>2. PICK k \in Entries, f \in Fields : k = th[t].at /\ f = th[t].field
  BY <1>1
<1>3. UNCHANGED <<files, live, twice, stray>> /\ Write(t, f, 0)
  BY <1>2 DEF ClearPointer, kernel, heap, history, Write, NULL
<1>4. /\ \A i \in Slots : i # k => slot'[i] = slot[i]
      /\ slot'[k][f] = NULL /\ \A g \in Fields : g # f => slot'[k][g] = slot[k][g]
      /\ slot'[k].fd = slot[k].fd /\ slot'[k].handler = slot[k].handler
  <2>1. /\ \A i \in Slots : i # th[t].at => slot'[i] = slot[i]
        /\ slot'[th[t].at][f] = 0
        /\ \A g \in Fields : g # f => slot'[th[t].at][g] = Entry(t)[g]
        /\ slot'[th[t].at].fd = Entry(t).fd /\ slot'[th[t].at].handler = Entry(t).handler
    BY <1>1, <1>3, WriteEffect
  <2> QED
    BY <1>2, <2>1 DEF Entry, NULL
<1>5. /\ Keeps(t) /\ th'[t].pc \in {"fd", "test"} /\ th'[t].at = k
  BY <1>1, <1>2, AfterFieldMove DEF ClearPointer
<1>6. \A i \in Slots, g \in Fields : slot'[i][g] = NULL \/ slot'[i][g] = slot[i][g]
  BY <1>4
<1>7. ~twice' /\ ~stray' /\ OneOwner'
  BY <1>3, <1>6 DEF Disjoint, OneOwner
<1>8. Allocated'
  <2> SUFFICES ASSUME NEW i \in Slots, NEW g \in Fields, slot'[i][g] # NULL, slot'[i][g] \notin live'
               PROVE  \E u \in Threads : th'[u].pc = "clear" /\ th'[u].at = i /\ th'[u].field = g
    BY DEF Allocated, At, InField
  <2>1. slot[i][g] # NULL /\ slot[i][g] \notin live /\ (i # k \/ g # f)
    BY <1>3, <1>4, <1>6
  <2>2. PICK u \in Threads : th[u].pc = "clear" /\ th[u].at = i /\ th[u].field = g
    BY <2>1 DEF Disjoint, Allocated, At, InField
  <2>3. u # t
    BY <1>2, <2>1, <2>2
  <2> QED
    BY <1>5, <2>2, <2>3 DEF Keeps
<1>9. \A u \in Threads \ {t} : th'[u] = th[u] /\ (th[u].pc \in Destorying => th[u].at # k)
  BY <1>1, <1>2, <1>5, Unshared DEF Keeps, Disjoint, Destorying
<1>10. Freeing'
  BY <1>4, <1>5, <1>9 DEF Disjoint, Freeing, Entry, Destorying, LInv, Typed, Thread
<1>11. Arguments' /\ Requesting'
  <2>1. \A i \in Slots : slot'[i].handler = slot[i].handler /\ slot'[i].arg \in {NULL, slot[i].arg}
    BY <1>4, <1>6 DEF Fields
  <2>2. Arguments'
    BY <1>1, <1>5, <2>1, Indices DEF Disjoint, Arguments, Keeps, Threads, At
  <2>3. Requesting'
    BY <1>1, <1>5, <2>1, MainTyped DEF Disjoint, Requesting, Keeps, Threads, Entry
  <2> QED
    BY <2>2, <2>3
<1>12. Pending' => Pending /\ th'["main"].fd = th["main"].fd
  BY <1>5 DEF Pending, Keeps, Threads
<1>13. \A i \in Slots : slot'[i].fd = slot[i].fd
  BY <1>4
<1>14. OneEntry'
  BY <1>12, <1>13, Indices DEF Disjoint, OneEntry
<1>15. OpenFiles'
  <2>1. \A u \in Threads : th'[u].pc = "close" => th'[u].fd = slot'[th'[u].at].fd
    BY <1>5, <1>13 DEF Disjoint, OpenFiles, Keeps, Entry, LInv, Typed, Thread
  <2> QED
    BY <1>1, <1>3, <1>5, <1>12, <1>13, <2>1, Indices DEF Disjoint, OpenFiles, Keeps, At, Entry
<1> QED
  BY <1>7, <1>8, <1>10, <1>11, <1>14, <1>15 DEF Disjoint

LEMMA CloseHarmless ==
  ASSUME LInv, LInv', Disjoint, ~Overlap', NEW t \in Threads, CloseFd(t), UNCHANGED accepts
  PROVE  Disjoint'
<1>1. /\ th[t].pc = "close" /\ th[t].at \in Entries /\ Typed /\ th[t].fd = Entry(t).fd
      /\ th[t].fd.num \in ConnFds
  BY InFinish DEF CloseFd, At, Finishing, Destorying, LInv, Disjoint, OpenFiles, Apart
<1>2. PICK k \in Entries : k = th[t].at /\ th[t].fd = slot[k].fd /\ slot[k].fd.num # 0
  BY <1>1, Numbers DEF Entry
<1>3. /\ UNCHANGED <<slot, live, twice>>
      /\ files' = [n \in ConnFds |-> IF n = slot[k].fd.num THEN NoFile ELSE files[n]]
      /\ stray' = (stray \/ (slot[k].fd.num \in ConnFds
                             /\ files[slot[k].fd.num] \notin {NoFile, slot[k].fd.conn}))
  BY <1>2 DEF CloseFd, heap
<1>4. Keeps(t) /\ th'[t].pc = "zero" /\ th'[t].at = k
  BY <1>1, <1>2, GotoMove DEF CloseFd, Finishing, Destorying
<1>5. files[slot[k].fd.num] = slot[k].fd.conn
  <2>1. ASSUME NEW u \in Threads, th[u].pc = "zero", th[u].at = k PROVE FALSE
    BY <1>1, <1>2, <2>1, Unshared DEF Disjoint, Destorying
  <2> QED
    BY <1>2, <2>1 DEF Disjoint, OpenFiles, At
<1>6. ~twice' /\ ~stray' /\ OneOwner'
  <2>1. ~twice /\ ~stray
    BY DEF Disjoint
  <2>2. ~twice' /\ ~stray'
    BY <1>3, <1>5, <2>1
  <2> QED
    BY <1>3, <2>2 DEF Disjoint, OneOwner
<1>7. Allocated' /\ Freeing'
  BY <1>1, <1>3, <1>4 DEF Disjoint, Allocated, Freeing, Entry, Keeps, At, InField
<1>8. Arguments' /\ Requesting'
  BY <1>1, <1>3, <1>4 DEF Disjoint, Arguments, Requesting, Keeps, Threads, At, Entry
<1>9. Pending' => Pending /\ th'["main"].fd = th["main"].fd
  BY <1>4 DEF Pending, Keeps, Threads
<1>10. OneEntry'
  BY <1>3, <1>9 DEF Disjoint, OneEntry
<1>11. OpenFiles'
  <2>1. ASSUME NEW i \in Entries, slot[i].fd.num # 0
        PROVE  \/ files'[slot[i].fd.num] = slot[i].fd.conn
               \/ \E u \in Threads : th'[u].pc = "zero" /\ th'[u].at = i
    <3>1. CASE \E u \in Threads : th[u].pc = "zero" /\ th[u].at = i
      BY <1>1, <1>4, <3>1 DEF Keeps
    <3>2. CASE files[slot[i].fd.num] = slot[i].fd.conn /\ slot[i].fd.num = slot[k].fd.num
      <4>1. i = k
        BY <1>2, <1>5, <2>1, <3>2 DEF Disjoint, OneEntry
      <4> QED
        BY <1>4, <4>1
    <3>3. CASE files[slot[i].fd.num] = slot[i].fd.conn /\ slot[i].fd.num # slot[k].fd.num
      <4>1. slot[i].fd.num \in ConnFds
        BY <2>1, MainTyped DEF Foreign
      <4> QED
        BY <1>3, <3>3, <4>1
    <3> QED
      BY <2>1, <3>1, <3>2, <3>3 DEF Disjoint, OpenFiles, At
  <2>2. ASSUME Pending' PROVE files'[th'["main"].fd.num] = th'["main"].fd.conn
    <3>1. Pending /\ th'["main"].fd = th["main"].fd /\ th["main"].fd.num \in ConnFds
      BY <1>9, <2>2 DEF Pending, LInv, Threading
    <3>2. th["main"].fd.num # slot[k].fd.num
      BY <1>2, <1>5, <3>1 DEF Disjoint, OneEntry, OpenFiles
    <3> QED
      BY <1>3, <3>1, <3>2 DEF Disjoint, OpenFiles
  <2>3. \A u \in Threads : th'[u].pc = "close" => th'[u].fd = Entry(u)'.fd
    BY <1>3, <1>4 DEF Disjoint, OpenFiles, Keeps, Entry
  <2> QED
    BY <1>3, <2>1, <2>2, <2>3 DEF OpenFiles, At
<1> QED
  BY <1>6, <1>7, <1>8, <1>10, <1>11 DEF Disjoint

(* An entry is zeroed by the only thread that is inside it. *)
LEMMA ZeroedEntry ==
  ASSUME LInv, LInv', Disjoint, ~Overlap', NEW t \in Threads, NEW k \in Entries, k = th[t].at,
         th[t].pc = "zero" \/ (t = "main" /\ th["main"].pc = "initZero"),
         slot' = [slot EXCEPT ![k] = ZeroEvent], Keeps(t),
         th'[t].pc \in {"destory", "exit", "dispatch"}
           \/ (th[t].pc = "initZero" /\ th'[t].pc = "initFd" /\ th'[t].at = k /\ th'[t].fd = th[t].fd),
         UNCHANGED <<files, live, accepts, twice, stray>>
  PROVE  Disjoint'
<1>1. /\ slot'[k] = ZeroEvent /\ \A i \in Slots : i # k => slot'[i] = slot[i]
      /\ ZeroEvent.fd.num = 0 /\ ZeroEvent.arg = NULL /\ \A f \in Fields : ZeroEvent[f] = NULL
  BY Indices, MainTyped DEF ZeroEvent, ZeroFd, Fd, Fields
<1> HIDE DEF ZeroEvent
<1>2. \A u \in Threads \ {t} : th'[u] = th[u] /\ (th[u].pc \in Destorying => th[u].at # k)
  <2>1. ASSUME NEW u \in Threads, u # t, th[u].pc \in Destorying, th[u].at = k PROVE FALSE
    <3>1. CASE th[t].pc = "zero"
      BY <2>1, <3>1, Unshared DEF Disjoint, Destorying
    <3>2. CASE t = "main" /\ th["main"].pc = "initZero"
      BY <2>1, <3>2 DEF Disjoint, Overlap, Threads
    <3> QED
      BY <3>1, <3>2
  <2> QED
    BY <2>1 DEF Keeps
<1>3. \A i \in Slots, g \in Fields : slot'[i][g] = NULL \/ (i # k /\ slot'[i][g] = slot[i][g])
  BY <1>1
<1>4. ~twice' /\ ~stray' /\ OneOwner'
  BY <1>3 DEF Disjoint, OneOwner
<1>5. Allocated'
  <2> SUFFICES ASSUME NEW i \in Slots, NEW g \in Fields, slot'[i][g] # NULL, slot'[i][g] \notin live'
               PROVE  \E u \in Threads : th'[u].pc = "clear" /\ th'[u].at = i /\ th'[u].field = g
    BY DEF Allocated, At, InField
  <2>1. slot[i][g] # NULL /\ slot[i][g] \notin live
    BY <1>3
  <2>2. PICK u \in Threads : th[u].pc = "clear" /\ th[u].at = i /\ th[u].field = g
    BY <2>1 DEF Disjoint, Allocated, At, InField
  <2> QED
    BY <1>2, <2>2
<1>6. Freeing'
  <2>1. ASSUME NEW u \in Threads, u # t, th[u].pc \in Destorying
        PROVE  Entry(u)' = Entry(u)
    BY <1>1, <1>2, <2>1 DEF Entry, LInv, Typed, Thread
  <2> QED
    BY <1>2, <2>1 DEF Disjoint, Freeing, Destorying
<1>7. Arguments'
  BY <1>1, <1>2, Indices DEF Disjoint, Arguments, Threads, At
<1>8. Requesting'
  BY <1>1, <1>2, MainTyped DEF Disjoint, Requesting, Threads, Entry
<1>9. Pending' => Pending /\ th'["main"].fd = th["main"].fd
  BY <1>2 DEF Pending, Threads
<1>10. OneEntry'
  BY <1>1, <1>9, Indices DEF Disjoint, OneEntry
<1>11. OpenFiles'
  <2>1. ASSUME NEW i \in Entries, slot'[i].fd.num # 0
        PROVE  \/ files'[slot'[i].fd.num] = slot'[i].fd.conn
               \/ \E u \in Threads : th'[u].pc = "zero" /\ th'[u].at = i
    <3>1. i # k /\ slot'[i] = slot[i]
      BY <1>1, <2>1, Indices
    <3>2. CASE files[slot[i].fd.num] = slot[i].fd.conn
      BY <3>1, <3>2
    <3>3. CASE \E u \in Threads : th[u].pc = "zero" /\ th[u].at = i
      BY <1>2, <3>1, <3>3
    <3> QED
      BY <2>1, <3>1, <3>2, <3>3 DEF Disjoint, OpenFiles, At
  <2>2. Pending' => files'[th'["main"].fd.num] = th'["main"].fd.conn
    BY <1>9 DEF Disjoint, OpenFiles
  <2>3. ASSUME NEW u \in Threads, th'[u].pc = "close" PROVE th'[u].fd = Entry(u)'.fd
    <3>1. u # t
      BY <2>3
    <3>2. th'[u] = th[u] /\ th[u].at # k
      BY <1>2, <2>3, <3>1 DEF Destorying
    <3>3. Entry(u)' = Entry(u)
      BY <1>1, <3>2 DEF Entry, LInv, Typed, Thread
    <3> QED
      BY <2>3, <3>2, <3>3 DEF Disjoint, OpenFiles
  <2> QED
    BY <2>1, <2>2, <2>3 DEF OpenFiles, At
<1> QED
  BY <1>4, <1>5, <1>6, <1>7, <1>8, <1>10, <1>11 DEF Disjoint

LEMMA ZeroHarmless ==
  ASSUME LInv, LInv', Disjoint, ~Overlap', NEW t \in Threads, ZeroEntry(t), UNCHANGED accepts
  PROVE  Disjoint'
<1>1. th[t].pc = "zero" /\ th[t].at \in Entries /\ Typed
  BY InFinish DEF ZeroEntry, At, Finishing, Destorying, LInv
<1>2. PICK k \in Entries : k = th[t].at
  BY <1>1
<1>3. UNCHANGED <<files, live, twice, stray>> /\ slot' = [slot EXCEPT ![k] = ZeroEvent]
  BY <1>2 DEF ZeroEntry, Cleared, kernel, heap, history
<1>4. Keeps(t) /\ th'[t].pc \in {"destory", "exit", "dispatch"}
  BY <1>1, <1>2, AfterDestoryMove DEF ZeroEntry, Threads
<1> QED
  BY <1>1, <1>2, <1>3, <1>4, ZeroedEntry

LEMMA FinishHarmless ==
  ASSUME LInv, LInv', Disjoint, ~Overlap', NEW t \in Threads, FinishEvent(t), UNCHANGED accepts
  PROVE  Disjoint'
  BY DelHarmless, LookHarmless, FreeHarmless, ClearHarmless, CloseHarmless, ZeroHarmless
     DEF FinishEvent

-----------------------------------------------------------------------------
(* Steps of the main thread that change no block, descriptor or handler. *)
LEMMA WalkHarmless ==
  ASSUME LInv, LInv', Disjoint, ~Overlap', UNCHANGED history,
         \/ EpollCreate \/ WaitEvent \/ \E x \in ready : DispatchEvent(x)
         \/ CallHandler \/ AddEvents \/ AddOp \/ AddCtl \/ AddStatus \/ ReadHead \/ SendResponse
         \/ Fails
  PROVE  Disjoint'
<1>1. UNCHANGED <<live, files, accepts, twice, stray>>
  BY FailsGoto
     DEF EpollCreate, WaitEvent, DispatchEvent, CallHandler, AddEvents, AddOp, AddCtl, AddStatus,
     ReadHead, SendResponse, kernel, heap, history
<1>2. \A i \in Slots : Same(i)
  <2>1. CASE UNCHANGED slot
    BY <2>1, UnchangedFields
  <2>2. CASE AddEvents
    <3>1. PICK x \in {"IN", "OUT"} : x = th["main"].ev
      BY MainTyped DEF Thread
    <3> QED
      BY <2>2, <3>1, PlainWrite, MainTyped DEF AddEvents, Write
  <2>3. CASE AddStatus
    BY <2>3, PlainWrite, MainTyped DEF AddStatus
  <2> QED
    BY <2>1, <2>2, <2>3, FailsGoto
       DEF EpollCreate, WaitEvent, DispatchEvent, CallHandler, AddOp, AddCtl, ReadHead, SendResponse
<1>3. /\ Keeps("main") /\ th["main"].pc \notin {"clear", "zero", "setHandler"}
      /\ th'["main"].pc \notin {"load", "free", "clear", "close", "scan", "initZero", "initFd"}
      /\ th'["main"].pc \in {"request", "setInfo"} => slot[th'["main"].at].arg = NULL
  <2>1. CASE EpollCreate
    BY <2>1, MainGoto DEF EpollCreate, Booting, At
  <2>2. CASE WaitEvent
    BY <2>2 DEF WaitEvent, Keeps, At
  <2>3. CASE \E x \in ready : DispatchEvent(x)
    <3>1. PICK x \in ready : DispatchEvent(x)
      BY <2>3
    <3>2. x.slot \in Slots
      BY MainTyped DEF Reports
    <3> QED
      BY <3>1, <3>2, MainTyped DEF DispatchEvent, Keeps, Thread, At
  <2>4. CASE CallHandler
    <3>1. th["main"].pc = "call"
      BY <2>4 DEF CallHandler, At
    <3>2. /\ Entry("main").handler = "AcceptEvent" => Goto("main", "accept")
          /\ Entry("main").handler = "AcceptRequest" => Goto("main", "request")
          /\ Entry("main").handler = "SendResponse" => Goto("main", "respond")
      BY <2>4 DEF CallHandler
    <3>3. Entry("main").handler \in {"AcceptEvent", "AcceptRequest", "SendResponse"}
      BY <2>4, MainTyped DEF CallHandler, Entry, Event
    <3>4. CASE Goto("main", "accept")
      BY <3>1, <3>4, MainGoto DEF Between
    <3>5. CASE Goto("main", "request") /\ Entry("main").handler = "AcceptRequest"
      <4>1. th["main"].at \in Entries
        BY <3>1, <3>5, MainTyped, Indices DEF Entry, LInv, Listening, Booting
      <4>2. Entry("main").arg = NULL
        BY <3>1, <3>5, <4>1 DEF Disjoint, Arguments, At, Entry
      <4> QED
        BY <3>1, <3>5, <4>2, MainGoto DEF Handling, Entry
    <3>6. CASE Goto("main", "respond")
      BY <3>1, <3>6, MainGoto DEF Handling
    <3> QED
      BY <3>2, <3>3, <3>4, <3>5, <3>6
  <2>5. CASE AddEvents
    BY <2>5, MainGoto DEF AddEvents, Adding, At
  <2>6. CASE AddOp
    BY <2>6, MainTyped DEF AddOp, Keeps, Thread, Adding, At
  <2>7. CASE AddCtl
    <3>1. th["main"].pc \in {"mod", "add"} /\ Goto("main", "addStatus")
      BY <2>7 DEF AddCtl, At
    <3> QED
      BY <3>1, MainGoto DEF Adding
  <2>8. CASE AddStatus
    BY <2>8, MainGoto DEF AddStatus, Between, At
  <2>9. CASE ReadHead
    <3>1. th["main"].pc = "request" /\ Entry("main").arg = NULL
      BY <2>9 DEF ReadHead, At, Disjoint, Requesting
    <3>2. CASE Goto("main", "setInfo")
      BY <3>1, <3>2, MainGoto DEF Handling, Entry
    <3>3. CASE Goto("main", "dispatch")
      BY <3>1, <3>3, MainGoto DEF Between
    <3> QED
      BY <2>9, <3>2, <3>3 DEF ReadHead
  <2>10. CASE SendResponse
    BY <2>10, MainTyped DEF SendResponse, Keeps, Thread, At
  <2>11. CASE Fails
    BY <2>11, FailsGoto, MainGoto DEF Between
  <2> QED
    BY <2>1, <2>2, <2>3, <2>4, <2>5, <2>6, <2>7, <2>8, <2>9, <2>10, <2>11
<1>4. Requesting'
  <2>1. th'["main"].at \in Slots
    BY MainTyped DEF LInv, Typed, Thread
  <2>2. slot'[th'["main"].at].arg = slot[th'["main"].at].arg
    BY <1>2, <2>1 DEF Same, Fields
  <2> QED
    BY <1>3, <2>2 DEF Requesting, Entry
<1>5. ~Pending'
  BY <1>3 DEF Pending
<1> QED
  BY <1>1, <1>2, <1>3, <1>4, <1>5, MainTyped, Frame

LEMMA AddListenerHarmless ==
  ASSUME LInv, LInv', Disjoint, ~Overlap', UNCHANGED history, AddListener
  PROVE  Disjoint'
<1> DEFINE e == [status |-> "Inuse", handler |-> "AcceptEvent", events |-> "IN",
                 fd |-> Fd(ListenFd, 0), in |-> 1, out |-> 2, arg |-> NULL]
<1>1. /\ UNCHANGED <<files, accepts, twice, stray>> /\ slot' = [slot EXCEPT ![DN_ACCEPT_EVENT] = e]
      /\ th["main"].pc = "listener" /\ Goto("main", "dispatch") /\ live' = {1, 2} /\ mallocs = 0
  BY DEF AddListener, LInv, At, Listening, Booting, history
<1>2. Keeps("main") /\ th'["main"].pc = "dispatch" /\ th'["sig"] = th["sig"]
  BY <1>1, MainGoto DEF Between, Keeps, Threads
<1>3. \A i \in Entries : slot'[i] = slot[i]
  BY <1>1, MainTyped
<1>4. /\ slot'[DN_ACCEPT_EVENT].in = 1 /\ slot'[DN_ACCEPT_EVENT].out = 2
      /\ slot'[DN_ACCEPT_EVENT].arg = NULL
  BY <1>1, MainTyped, Indices
<1>5. \A i \in Entries, f \in Fields : slot'[i][f] = NULL
  BY <1>1, <1>3, MainTyped DEF Foreign, NULL
<1>6. OneOwner' /\ Allocated'
  <2>1. \A f \in Fields : slot'[DN_ACCEPT_EVENT][f] \in {NULL, 1, 2}
    BY <1>4 DEF Fields
  <2>2. \A f, g \in Fields : slot'[DN_ACCEPT_EVENT][f] # NULL
          /\ slot'[DN_ACCEPT_EVENT][f] = slot'[DN_ACCEPT_EVENT][g] => f = g
    BY <1>4 DEF Fields
  <2> QED
    BY <1>1, <1>5, <2>1, <2>2, Indices DEF OneOwner, Allocated, NULL
<1>7. Entry("sig")' = Entry("sig")
  BY <1>2, <1>3 DEF Entry, LInv, Threading
<1>8. ~twice' /\ ~stray'
  BY <1>1 DEF Disjoint
<1>9. Freeing'
  BY <1>2, <1>7 DEF Disjoint, Freeing, Threads
<1>10. Arguments' /\ Requesting' /\ OneEntry'
  BY <1>1, <1>2, <1>3, <1>5 DEF Disjoint, Arguments, Requesting, OneEntry, Pending, Fields
<1>11. OpenFiles'
  BY <1>1, <1>2, <1>3, <1>7 DEF Disjoint, OpenFiles, Pending, Threads, At
<1> QED
  BY <1>6, <1>8, <1>9, <1>10, <1>11 DEF Disjoint

(* The main thread takes a new connection, or loses one: only files and    *)
(* its own walk change.                                                    *)
LEMMA AcceptHarmless ==
  ASSUME LInv, LInv', Disjoint, ~Overlap', UNCHANGED history, Accept
  PROVE  Disjoint'
<1>1. UNCHANGED <<slot, live, twice, stray>> /\ th["main"].pc = "accept"
  BY DEF Accept, heap, history, At
<1>2. \A i \in Slots : Same(i)
  BY <1>1, UnchangedFields
<1>3. CASE Goto("main", "dispatch") /\ UNCHANGED <<files, accepts>>
  <2>1. Keeps("main") /\ th'["main"].pc = "dispatch"
    BY <1>3, MainGoto DEF Between
  <2> QED
    BY <1>1, <1>2, <1>3, <2>1, MainTyped, Frame DEF Requesting, Pending
<1>4. ASSUME NEW n \in ConnFds, files[n] = NoFile, files' = [files EXCEPT ![n] = accepts + 1],
             accepts' = accepts + 1,
             th' = [th EXCEPT !["main"].pc = "scan", !["main"].at = 0,
                              !["main"].fd = Fd(n, accepts + 1)]
      PROVE  Disjoint'
  <2>1. /\ Keeps("main") /\ th'["main"].pc = "scan" /\ th'["main"].fd.num = n
        /\ th'["main"].fd.conn = accepts + 1 /\ accepts \in Nat
    BY <1>4, MainTyped, BoundsAssumption DEF Thread, Keeps, Fd
  <2>2. ~twice' /\ ~stray' /\ OneOwner'
    BY <1>1 DEF Disjoint, OneOwner
  <2>3. Allocated' /\ Freeing' /\ Arguments' /\ Requesting'
    BY <1>1, <2>1
       DEF Disjoint, Allocated, Freeing, Arguments, Requesting, Entry, Keeps, At, InField, Threads
  <2>4. \A i \in Entries : slot[i].fd.num # 0 => slot[i].fd.conn \in 1 .. accepts
    BY DEF Disjoint, OneEntry
  <2>5. OneEntry'
    <3>1. \A c \in 1 .. accepts : c \in 1 .. accepts' /\ c # accepts'
      BY <1>4, <2>1
    <3>2. accepts' > 0
      BY <1>4, <2>1
    <3> QED
      BY <1>1, <1>4, <2>1, <2>4, <3>1, <3>2 DEF Disjoint, OneEntry
  <2>6. OpenFiles'
    <3>1. ASSUME NEW i \in Entries, slot[i].fd.num # 0
          PROVE  \/ files'[slot[i].fd.num] = slot[i].fd.conn
                 \/ \E u \in Threads : th'[u].pc = "zero" /\ th'[u].at = i
      <4>1. CASE \E u \in Threads : th[u].pc = "zero" /\ th[u].at = i
        BY <1>1, <2>1, <4>1 DEF Keeps
      <4>2. CASE files[slot[i].fd.num] = slot[i].fd.conn
        <5>1. slot[i].fd.num # n
          BY <1>4, <2>1, <2>4, <3>1, <4>2 DEF NoFile
        <5>2. slot[i].fd.num \in ConnFds
          BY <3>1, MainTyped DEF Foreign
        <5> QED
          BY <1>4, <4>2, <5>1, <5>2, MainTyped
      <4> QED
        BY <3>1, <4>1, <4>2 DEF Disjoint, OpenFiles, At
    <3>2. files'[th'["main"].fd.num] = th'["main"].fd.conn
      BY <1>4, <2>1, MainTyped
    <3>3. \A u \in Threads : th'[u].pc = "close" => th'[u].fd = Entry(u)'.fd
      BY <1>1, <2>1 DEF Disjoint, OpenFiles, Keeps, Entry
    <3> QED
      BY <1>1, <3>1, <3>2, <3>3 DEF OpenFiles, At
  <2> QED
    BY <2>2, <2>3, <2>5, <2>6 DEF Disjoint
<1> QED
  BY <1>3, <1>4 DEF Accept

LEMMA ScanHarmless ==
  ASSUME LInv, LInv', Disjoint, ~Overlap', UNCHANGED history, ScanEntry
  PROVE  Disjoint'
<1>1. /\ UNCHANGED <<slot, live, accepts, twice, stray>> /\ th["main"].pc = "scan"
      /\ th["main"].fd.num \in ConnFds
  BY DEF ScanEntry, heap, history, At, LInv, Threading
<1>2. \A i \in Slots : Same(i)
  BY <1>1, UnchangedFields
<1>3. ASSUME UNCHANGED files,
             IF Entry("main").status = "Inuse" THEN th' = [th EXCEPT !["main"].at = @ + 1]
             ELSE Goto("main", "initZero")
      PROVE  Disjoint'
  <2>1. /\ Keeps("main") /\ th'["main"].pc \in {"scan", "initZero"}
        /\ th'["main"].fd = th["main"].fd
    <3>1. CASE Entry("main").status = "Inuse"
      <4>1. th' = [th EXCEPT !["main"].at = th["main"].at + 1]
        BY <1>3, <3>1
      <4> QED
        BY <1>1, <4>1, MainTyped DEF Thread, Keeps
    <3>2. CASE Entry("main").status # "Inuse"
      BY <1>3, <3>2, MainGoto DEF Accepting
    <3> QED
      BY <3>1, <3>2
  <2>2. Requesting'
    BY <2>1 DEF Requesting
  <2> QED
    BY <1>1, <1>2, <1>3, <2>1, <2>2, MainTyped, Frame DEF Pending
<1>4. CASE files' = [files EXCEPT ![th["main"].fd.num] = Lost] /\ Goto("main", "dispatch")
  <2>1. files' = [files EXCEPT ![th["main"].fd.num] = Lost] /\ Goto("main", "dispatch")
    BY <1>4
  <2>2. Keeps("main") /\ th'["main"].pc = "dispatch"
    BY <2>1, MainGoto DEF Between
  <2>3. ~twice' /\ ~stray' /\ OneOwner'
    BY <1>1 DEF Disjoint, OneOwner
  <2>4. Allocated' /\ Freeing' /\ Arguments' /\ Requesting'
    BY <1>1, <2>2
       DEF Disjoint, Allocated, Freeing, Arguments, Requesting, Entry, Keeps, At, InField, Threads
  <2>5. OneEntry'
    BY <1>1, <2>2 DEF Disjoint, OneEntry, Pending
  <2>6. ASSUME NEW i \in Entries, slot[i].fd.num # 0
        PROVE  \/ files'[slot[i].fd.num] = slot[i].fd.conn
               \/ \E u \in Threads : th'[u].pc = "zero" /\ th'[u].at = i
    <3>1. CASE \E u \in Threads : th[u].pc = "zero" /\ th[u].at = i
      BY <1>1, <2>2, <3>1 DEF Keeps
    <3>2. CASE files[slot[i].fd.num] = slot[i].fd.conn
      <4>1. slot[i].fd.num # th["main"].fd.num
        BY <1>1, <2>6, <3>2 DEF Disjoint, OneEntry, OpenFiles, Pending
      <4>2. slot[i].fd.num \in ConnFds
        BY <2>6, MainTyped DEF Foreign
      <4> QED
        BY <2>1, <3>2, <4>1, <4>2, MainTyped
    <3> QED
      BY <2>6, <3>1, <3>2 DEF Disjoint, OpenFiles, At
  <2>7. OpenFiles'
    <3>1. \A u \in Threads : th'[u].pc = "close" => th'[u].fd = Entry(u)'.fd
      BY <1>1, <2>2 DEF Disjoint, OpenFiles, Keeps, Entry
    <3> QED
      BY <1>1, <2>2, <2>6, <3>1 DEF OpenFiles, At, Pending
  <2> QED
    BY <2>3, <2>4, <2>5, <2>7 DEF Disjoint
<1> QED
  BY <1>3, <1>4 DEF ScanEntry

LEMMA InitZeroHarmless ==
  ASSUME LInv, LInv', Disjoint, ~Overlap', UNCHANGED history, InitZero
  PROVE  Disjoint'
<1>1. th["main"].pc = "initZero" /\ th["main"].at \in Entries
  BY DEF InitZero, At, LInv, Threading, Accepting
<1>2. PICK k \in Entries : k = th["main"].at
  BY <1>1
<1>3. UNCHANGED <<files, live, accepts, twice, stray>> /\ slot' = [slot EXCEPT ![k] = ZeroEvent]
  BY <1>2 DEF InitZero, kernel, heap, history
<1>4. /\ Keeps("main") /\ th'["main"].pc = "initFd" /\ th'["main"].at = k
      /\ th'["main"].fd = th["main"].fd
  BY <1>2, MainGoto DEF InitZero, Accepting
<1> QED
  BY <1>1, <1>2, <1>3, <1>4, MainTyped, ZeroedEntry

LEMMA InitFdHarmless ==
  ASSUME LInv, LInv', Disjoint, ~Overlap', UNCHANGED history, InitFd
  PROVE  Disjoint'
<1>0. UNCHANGED <<files, live, accepts, twice, stray>>
  BY DEF InitFd, kernel, heap, history
<1>1. /\ th["main"].pc = "initFd" /\ th["main"].at \in Entries /\ th["main"].fd.num \in ConnFds
      /\ Entry("main").arg = NULL
  BY DEF InitFd, At, LInv, Threading, Accepting, Disjoint, Requesting
<1>2. PICK k \in Entries : k = th["main"].at /\ slot[k].arg = NULL
  BY <1>1 DEF Entry
<1>3. /\ slot' = [slot EXCEPT ![k].handler = "AcceptRequest", ![k].fd = th["main"].fd]
      /\ th' = [th EXCEPT !["main"].pc = "initBuff", !["main"].field = "in"]
  BY <1>2 DEF InitFd
<1>4. /\ \A i \in Slots : i # k => slot'[i] = slot[i]
      /\ slot'[k].fd = th["main"].fd
      /\ \A f \in Fields : slot'[k][f] = slot[k][f]
  BY <1>3, MainTyped DEF Event, Fields
<1>5. Keeps("main") /\ th'["main"].pc = "initBuff" /\ th'["main"].at = k
  BY <1>2, <1>3, MainTyped DEF Thread, Keeps
<1>6. \A i \in Slots, f \in Fields : slot'[i][f] = slot[i][f]
  BY <1>4
<1>7. th'["sig"] = th["sig"] /\ (th["sig"].pc \in Destorying => th["sig"].at # k)
  BY <1>1, <1>2, <1>5 DEF Keeps, Threads, Disjoint, Overlap
<1>8. ~twice' /\ ~stray' /\ OneOwner'
  BY <1>0, <1>6 DEF Disjoint, OneOwner
<1>9. Allocated'
  BY <1>0, <1>1, <1>5, <1>6 DEF Disjoint, Allocated, Keeps, At, InField
<1>10. Freeing'
  <2>1. th["sig"].pc \in Destorying => Entry("sig")' = Entry("sig")
    BY <1>4, <1>7, Indices DEF Entry, LInv, Threading
  <2> QED
    BY <1>5, <1>7, <2>1 DEF Disjoint, Freeing, Threads, Destorying
<1>11. Arguments' /\ Requesting'
  <2>1. slot'[k].arg = NULL
    BY <1>2, <1>4 DEF Fields
  <2> QED
    BY <1>1, <1>4, <1>5, <2>1, Indices DEF Disjoint, Arguments, Requesting, At
<1>12. /\ th["main"].fd.conn = accepts /\ accepts \in 1 .. accepts
       /\ files[th["main"].fd.num] = th["main"].fd.conn
       /\ \A i \in Entries : slot[i].fd.num # 0 => slot[i].fd.conn # accepts
  BY <1>1, MainTyped DEF Disjoint, OneEntry, OpenFiles, Pending
<1>13. OneEntry'
  BY <1>0, <1>4, <1>5, <1>12, Indices DEF Disjoint, OneEntry, Pending
<1>14. OpenFiles'
  <2>1. ASSUME NEW i \in Entries, slot'[i].fd.num # 0
        PROVE  \/ files'[slot'[i].fd.num] = slot'[i].fd.conn
               \/ \E u \in Threads : th'[u].pc = "zero" /\ th'[u].at = i
    <3>1. CASE i = k
      BY <1>0, <1>4, <1>12, <3>1
    <3>2. CASE i # k
      <4>1. slot'[i] = slot[i]
        BY <1>4, <3>2, Indices
      <4> QED
        BY <1>0, <1>1, <1>5, <2>1, <4>1 DEF Disjoint, OpenFiles, At, Keeps
    <3> QED
      BY <3>1, <3>2
  <2>2. th["sig"].pc = "close" => Entry("sig")' = Entry("sig")
    BY <1>4, <1>7, Indices DEF Entry, LInv, Threading, Destorying
  <2>3. \A u \in Threads : th'[u].pc = "close" => th'[u].fd = Entry(u)'.fd
    BY <1>5, <1>7, <2>2 DEF Disjoint, OpenFiles, Threads
  <2> QED
    BY <1>5, <2>1, <2>3 DEF OpenFiles, At, Pending
<1> QED
  BY <1>8, <1>9, <1>10, <1>11, <1>13, <1>14 DEF Disjoint

(* A new block in a field that was free. *)
LEMMA NewBlock ==
  ASSUME LInv, LInv', Disjoint, NEW k \in Entries, k = th["main"].at, NEW f \in Fields,
         th["main"].pc \in {"initBuff", "setInfo"},
         Write("main", f, mallocs + 1), live' = live \cup {mallocs + 1},
         UNCHANGED <<files, accepts, twice, stray>>, Keeps("main"), th'["main"].at = k,
         th'["main"].pc \in {"initBuff", "addEvents", "setHandler"},
         f = "arg" => th["main"].pc = "setInfo" /\ th'["main"].pc = "setHandler",
         th["main"].pc = "setInfo" => f = "arg",
         ~Overlap'
  PROVE  Disjoint'
<1>1. PICK x \in Nat : x = mallocs + 1
  BY MainTyped
<1>2. /\ \A i \in Slots : i # k => slot'[i] = slot[i]
      /\ slot'[k][f] = x /\ \A g \in Fields : g # f => slot'[k][g] = slot[k][g]
      /\ slot'[k].fd = slot[k].fd /\ slot'[k].handler = slot[k].handler
  <2>1. Write("main", f, x) /\ Typed
    BY <1>1 DEF Write, LInv
  <2>2. /\ \A i \in Slots : i # th["main"].at => slot'[i] = slot[i]
        /\ slot'[th["main"].at][f] = x
        /\ \A g \in Fields : g # f => slot'[th["main"].at][g] = Entry("main")[g]
        /\ slot'[th["main"].at].fd = Entry("main").fd
        /\ slot'[th["main"].at].handler = Entry("main").handler
    BY <2>1, MainTyped, WriteEffect
  <2> QED
    BY <2>2 DEF Entry
<1>3. \A i \in Slots, g \in Fields : slot[i][g] # x /\ (i # k \/ g # f => slot'[i][g] = slot[i][g])
  BY <1>1, <1>2, Blocks, MainTyped
<1>4. ~twice' /\ ~stray'
  BY DEF Disjoint
<1>5. OneOwner'
  BY <1>2, <1>3 DEF Disjoint, OneOwner
<1>6. Allocated'
  <2> SUFFICES ASSUME NEW i \in Slots, NEW g \in Fields, slot'[i][g] # NULL, slot'[i][g] \notin live'
               PROVE  \E u \in Threads : th'[u].pc = "clear" /\ th'[u].at = i /\ th'[u].field = g
    BY DEF Allocated, At, InField
  <2>1. slot[i][g] # NULL /\ slot[i][g] \notin live
    BY <1>1, <1>2, <1>3
  <2>2. PICK u \in Threads : th[u].pc = "clear" /\ th[u].at = i /\ th[u].field = g
    BY <2>1 DEF Disjoint, Allocated, At, InField
  <2> QED
    BY <2>2 DEF Keeps
<1>7. th'["sig"] = th["sig"]
  BY DEF Keeps, Threads
<1>8. Freeing'
  <2>1. ASSUME th["sig"].pc \in {"load", "free", "clear"}
        PROVE  Entry("sig")[th["sig"].field]' = Entry("sig")[th["sig"].field]
    <3>1. th["sig"].at \in Slots /\ th["sig"].field \in Fields
      BY DEF LInv, Typed, Thread, Threads
    <3>2. CASE th["main"].pc = "initBuff"
      <4>1. th["sig"].at # k
        BY <2>1, <3>2 DEF Disjoint, Overlap, Destorying
      <4> QED
        BY <1>2, <1>7, <3>1, <4>1 DEF Entry
    <3>3. CASE th["main"].pc = "setInfo"
      <4>1. slot[k].arg = NULL
        BY <3>3 DEF Disjoint, Requesting, Entry
      <4>2. slot[th["sig"].at][th["sig"].field] # NULL
        BY <2>1 DEF Disjoint, Freeing, Threads, Entry
      <4>3. ~(th["sig"].at = k /\ th["sig"].field = "arg")
        BY <4>1, <4>2
      <4> QED
        BY <1>3, <1>7, <3>1, <3>3, <4>3 DEF Entry
    <3> QED
      BY <3>2, <3>3
  <2> QED
    BY <1>7, <2>1 DEF Disjoint, Freeing, Threads
<1>9. Arguments'
  <2>1. \A i \in Entries : slot'[i].handler = slot[i].handler
    BY <1>2, Indices
  <2>2. \A i \in Entries : (i # k \/ f # "arg") => slot'[i].arg = slot[i].arg
    BY <1>3, Indices DEF Fields
  <2> QED
    BY <2>1, <2>2 DEF Disjoint, Arguments, At
<1>10. Requesting' /\ ~Pending /\ ~Pending'
  BY DEF Requesting, Pending
<1>11. \A i \in Entries : slot'[i].fd = slot[i].fd
  BY <1>2, Indices
<1>12. OneEntry'
  BY <1>10, <1>11 DEF Disjoint, OneEntry
<1>13. OpenFiles'
  <2>1. \A u \in Threads : th'[u].pc = "close" => th'[u].fd = Entry(u)'.fd
    BY <1>7, <1>11 DEF Disjoint, OpenFiles, Threads, Entry, LInv, Threading
  <2> QED
    BY <1>10, <1>11, <2>1 DEF Disjoint, OpenFiles, Keeps, At
<1> QED
  BY <1>4, <1>5, <1>6, <1>8, <1>9, <1>10, <1>12, <1>13 DEF Disjoint

LEMMA InitBuffHarmless ==
  ASSUME LInv, LInv', Disjoint, ~Overlap', UNCHANGED history, InitBuff
  PROVE  Disjoint'
<1>1. /\ th["main"].pc = "initBuff" /\ th["main"].at \in Entries /\ th["main"].field \in Fields
      /\ th["main"].field # "arg" /\ live' = live \cup {mallocs + 1}
      /\ UNCHANGED <<files, accepts, twice, stray>>
  BY MainTyped DEF InitBuff, At, LInv, Threading, Accepting, Thread, kernel, history
<1>2. PICK k \in Entries, f \in Fields : k = th["main"].at /\ f = th["main"].field
  BY <1>1
<1>3. Write("main", f, mallocs + 1)
  BY <1>2 DEF InitBuff, Write
<1>4. /\ Keeps("main") /\ th'["main"].at = k /\ th'["main"].pc \in {"initBuff", "addEvents"}
  BY <1>1, <1>2, MainTyped DEF InitBuff, Thread, Keeps
<1> QED
  BY <1>1, <1>2, <1>3, <1>4, NewBlock

LEMMA SetInfoHarmless ==
  ASSUME LInv, LInv', Disjoint, ~Overlap', UNCHANGED history, SetInfo
  PROVE  Disjoint'
<1>1. /\ th["main"].pc = "setInfo" /\ th["main"].at \in Entries
      /\ UNCHANGED <<files, accepts, twice, stray>> /\ Goto("main", "setHandler")
  BY DEF SetInfo, At, LInv, Threading, Handling, kernel, history
<1>2. PICK k \in Entries : k = th["main"].at
  BY <1>1
<1>3. Keeps("main") /\ th'["main"].at = k /\ th'["main"].pc = "setHandler"
  BY <1>1, <1>2, MainGoto DEF Handling
<1>4. CASE UNCHANGED <<slot, live, mallocs>>
  <2>1. UNCHANGED live /\ \A i \in Slots : Same(i)
    BY <1>4, UnchangedFields
  <2>2. Requesting' /\ ~Pending'
    BY <1>3 DEF Requesting, Pending
  <2> QED
    BY <1>1, <1>3, <2>1, <2>2, MainTyped, Frame
<1>5. CASE Write("main", "arg", mallocs + 1) /\ live' = live \cup {mallocs + 1}
  BY <1>1, <1>2, <1>3, <1>5, NewBlock DEF Fields
<1> QED
  BY <1>4, <1>5 DEF SetInfo

LEMMA SetEventHarmless ==
  ASSUME LInv, LInv', Disjoint, ~Overlap', UNCHANGED history, SetEvent
  PROVE  Disjoint'
<1>0. th["main"].pc = "setHandler"
  BY DEF SetEvent, At
<1>1. /\ th["main"].at \in Entries
      /\ Write("main", "handler", "SendResponse")
      /\ th' = [th EXCEPT !["main"].pc = "addEvents", !["main"].ev = "OUT"]
  BY DEF SetEvent, At, LInv, Threading, Handling
<1>2. UNCHANGED <<files, live, accepts, twice, stray>>
  BY DEF SetEvent, kernel, heap, history
<1>3. PICK k \in Entries : k = th["main"].at
  BY <1>1
<1>4. /\ Keeps("main") /\ th'["main"].at = k /\ th'["main"].pc = "addEvents"
      /\ th'["sig"] = th["sig"]
  BY <1>1, <1>3, MainTyped DEF Thread, Keeps, Threads
<1>5. /\ \A i \in Slots : slot'[i].fd = slot[i].fd /\ \A g \in Fields : slot'[i][g] = slot[i][g]
      /\ \A i \in Slots : i # k => slot'[i].handler = slot[i].handler
      /\ slot'[k].handler = "SendResponse"
  BY <1>1, <1>3, MainTyped DEF Write, Event, Fields
<1>6. ~twice' /\ ~stray' /\ OneOwner'
  BY <1>2, <1>5 DEF Disjoint, OneOwner
<1>7. Allocated'
  BY <1>0, <1>2, <1>4, <1>5 DEF Disjoint, Allocated, Keeps, At, InField
<1>8. th["sig"].at \in Slots /\ th["sig"].field \in Fields
  BY DEF LInv, Typed, Thread, Threads
<1>9. Freeing'
  BY <1>4, <1>5, <1>8 DEF Disjoint, Freeing, Threads, Entry
<1>10. Arguments'
  <2>1. \A i \in Entries : slot'[i].arg = slot[i].arg
    BY <1>5, Indices DEF Fields
  <2> QED
    BY <1>3, <1>5, <2>1, Indices DEF Disjoint, Arguments, At
<1>11. Requesting' /\ ~Pending /\ ~Pending'
  BY <1>0, <1>4 DEF Requesting, Pending
<1>12. OneEntry'
  BY <1>2, <1>5, <1>11, Indices DEF Disjoint, OneEntry
<1>13. OpenFiles'
  <2>1. \A u \in Threads : th'[u].pc = "close" => th'[u].fd = Entry(u)'.fd
    BY <1>4, <1>5, <1>8 DEF Disjoint, OpenFiles, Threads, Entry
  <2> QED
    BY <1>0, <1>2, <1>4, <1>5, <1>11, <2>1, Indices DEF Disjoint, OpenFiles, Keeps, At
<1> QED
  BY <1>6, <1>7, <1>9, <1>10, <1>11, <1>12, <1>13 DEF Disjoint

-----------------------------------------------------------------------------
LEMMA SigWaitHarmless ==
  ASSUME LInv, LInv', Disjoint, ~Overlap', NEW s \in Signals, SigWait(s)
  PROVE  Disjoint'
<1>1. UNCHANGED <<slot, files, live, accepts, twice, stray>> /\ th["sig"].pc = "sigwait"
  BY DEF SigWait, kernel, heap, history, At
<1>2. Keeps("sig") /\ th'["sig"].pc \in {"sigwait", "del"} /\ "sig" \in Threads
  BY <1>1, MainTyped DEF SigWait, Keeps, Threads, Thread
<1> QED
  BY <1>1, <1>2, UnchangedFields, Frame

LEMMA HInvStep == LInv /\ HInv /\ [Next]_vars => HInv'
<1> SUFFICES ASSUME LInv, HInv, [Next]_vars, ~overlapped' PROVE Disjoint'
  BY DEF HInv
<1>1. LInv'
  BY LInvStep
<1>2. CASE UNCHANGED vars
  <2>1. UNCHANGED <<slot, files, live, th, accepts, twice, stray, overlapped>>
    BY <1>2 DEF vars, kernel, heap, history
  <2>2. Overlap' = Overlap
    BY <2>1 DEF Overlap
  <2>3. OneOwner' = OneOwner /\ Allocated' = Allocated /\ Freeing' = Freeing
    BY <2>1 DEF OneOwner, Allocated, Freeing, At, InField, Entry
  <2>4. Arguments' = Arguments /\ Requesting' = Requesting
    BY <2>1 DEF Arguments, Requesting, At, Entry
  <2>5. OneEntry' = OneEntry /\ OpenFiles' = OpenFiles
    BY <2>1 DEF OneEntry, OpenFiles, Pending, At, Entry
  <2> QED
    BY <2>1, <2>2, <2>3, <2>4, <2>5 DEF HInv, Disjoint
<1>3. CASE Next
  <2>1. overlapped' = (overlapped \/ Overlap')
    BY <1>3 DEF Next, SigStep, MainStep, KillStep, Noted
  <2>2. ~overlapped /\ ~Overlap'
    BY <2>1
  <2>3. Disjoint
    BY <2>2 DEF HInv
  <2>4. ASSUME UNCHANGED <<slot, files, live, accepts, th, twice, stray>> PROVE Disjoint'
    BY <2>2, <2>3, <2>4 DEF Disjoint, OneOwner, Allocated, Freeing, Arguments, Requesting,
       OneEntry, OpenFiles, Pending, At, InField, Entry
  <2>5. ASSUME NEW t \in Threads, FinishEvent(t), UNCHANGED accepts PROVE Disjoint'
    BY <1>1, <2>2, <2>3, <2>5, FinishHarmless
  <2>6. ASSUME NEW t \in Threads, Crash(t) PROVE Disjoint'
    BY <2>4, <2>6 DEF Crash, kernel, heap, history
  <2>7. CASE SigStep
    BY <1>1, <2>2, <2>3, <2>4, <2>5, <2>6, <2>7, SigWaitHarmless
       DEF SigStep, Sig, Exit, kernel, heap, history, Threads
  <2>8. CASE MainStep
    BY <1>1, <2>2, <2>3, <2>5, <2>6, <2>8, WalkHarmless, AddListenerHarmless, AcceptHarmless,
       ScanHarmless, InitZeroHarmless, InitFdHarmless, InitBuffHarmless, SetInfoHarmless,
       SetEventHarmless DEF MainStep, Main, Threads, Fails
  <2>9. CASE KillStep
    BY <2>4, <2>9 DEF KillStep, Kill, kernel, heap, history
  <2> QED
    BY <1>3, <2>7, <2>8, <2>9 DEF Next
<1> QED
  BY <1>2, <1>3

(* Whatever the two threads do to the table, in any order and for any size *)
(* of it, no block is freed twice and no other connection's descriptor is  *)
(* closed before both threads have been inside the same entry at once: the *)
(* race of DN_DestoryEvent with itself, or with DN_InitEvent, is the only  *)
(* way to such harm.                                                       *)
THEOREM OverlapOnly == Spec => []HarmNeedsOverlap
<1>1. HInv => HarmNeedsOverlap
  BY DEF HInv, Disjoint, HarmNeedsOverlap
<1>2. Init => LInv /\ HInv
  BY InitLInv, InitHInv
<1>3. LInv /\ HInv /\ [Next]_vars => LInv' /\ HInv'
  BY LInvStep, HInvStep
<1> QED
  BY <1>1, <1>2, <1>3, PTL DEF Spec

-----------------------------------------------------------------------------
(* The entry has a connection, whose descriptor is open. *)
Taken(i) == slot[i].fd.num \in ConnFds /\ files[slot[i].fd.num] = slot[i].fd.conn

Armed(i)   == Taken(i) /\ Registered(slot[i].fd.num)
Unarmed(i) == Taken(i) /\ ~Registered(slot[i].fd.num)

(* What an entry can be when no thread is inside it. *)
Blank(i)   == slot[i] = ZeroEvent
Serving(i) == slot[i].status = "Inuse" /\ Armed(i)
Removed(i) == slot[i].status = "Unused" /\ Unarmed(i)
Dropped(i) == Abandoned(i) /\ Unarmed(i)

(* What DN_DelEvent and DN_DestoryEvent pass over. *)
Spare(i) == Blank(i) \/ Dropped(i)

(* An entry made by the accepting handler and not added yet. *)
Fresh(i) == slot[i].status = "Void" /\ Unarmed(i)

FieldsBefore(f) == {g \in Fields : (f = "out" /\ g = "in") \/ (f = "arg" /\ g # "arg")}

InDel == {"del", "delCtl", "delStatus"}
InDestory == {"destory"} \cup Destorying

(* The entry a thread is inside, step by step. *)
Deleting(t, i) ==
  /\ th[t].pc = "del" => Spare(i) \/ Serving(i)
  /\ th[t].pc = "delCtl" => Serving(i)
  /\ th[t].pc \in InDel => th[t].tmp = EpollFd
  /\ th[t].pc = "delStatus" => Unarmed(i)

Destroying(t, i) ==
  /\ th[t].pc = "destory" => Spare(i) \/ Removed(i)
  /\ th[t].pc \in {"test", "load", "free", "clear", "fd", "close"} => Unarmed(i)
  /\ th[t].pc \in {"test", "load", "free", "clear"} =>
       \A f \in FieldsBefore(th[t].field) : slot[i][f] = NULL
  /\ th[t].pc = "clear" => slot[i][th[t].field] \notin live
  /\ th[t].pc \in {"fd", "close", "zero"} => \A f \in Fields : slot[i][f] = NULL
  /\ th[t].pc = "zero" => /\ slot[i].fd.num \in ConnFds /\ files[slot[i].fd.num] = NoFile
                          /\ ~Registered(slot[i].fd.num)

Arming(i) ==
  /\ th["main"].pc = "initZero" => Spare(i)
  /\ th["main"].pc = "initFd" => Blank(i)
  /\ th["main"].pc \in {"initBuff", "add"} => Fresh(i)
  /\ th["main"].pc = "initBuff" =>
       \A f \in Fields \ FieldsBefore(th["main"].field) : slot[i][f] = NULL
  /\ th["main"].pc \in {"addEvents", "addOp"} => Fresh(i) \/ Serving(i)
  /\ th["main"].pc = "mod" => Serving(i)
  /\ th["main"].pc = "addStatus" => Armed(i)
  /\ th["main"].pc \in {"request", "setInfo", "respond"} => Dropped(i) \/ Serving(i)
  /\ th["main"].pc = "setHandler" => Fresh(i) \/ Serving(i)

Working == Finishing \cup Accepting \cup Adding \cup Handling
Inside(t, i) == th[t].pc \in Working /\ th[t].at = i
Owned(t) == \A i \in Entries :
              Inside(t, i) => Deleting(t, i) /\ Destroying(t, i) /\ (t = "main" => Arming(i))

(* Everything the process has is the listener's, or in an entry, or lost   *)
(* at the limit, or about to be put into an entry, or was left in an entry *)
(* by an accept that failed.                                               *)
Accounted ==
  /\ \A x \in reg : \/ x = Interest(ListenFd, DN_ACCEPT_EVENT, "IN")
                    \/ x.fd \in ConnFds /\ \E i \in Entries : slot[i].fd.num = x.fd
  /\ \A n \in ConnFds : \/ files[n] \in {NoFile, Lost} \cup left.conns
                        \/ \E i \in Entries : slot[i].fd.num = n
                        \/ Pending /\ th["main"].fd.num = n
  /\ \A p \in live : \/ p \in {1, 2} \cup left.blocks
                     \/ \E i \in Entries, f \in Fields : slot[i][f] = p

(* The table, before the first signal: every entry the main thread is not  *)
(* inside is spare or serves a connection.                                 *)
Serviced ==
  /\ th["sig"].pc = "sigwait"
  /\ th["main"].pc \in Booting => reg = {}
  /\ th["main"].pc # "create" => epfd = EpollFd
  /\ Owned("main") /\ Accounted
  /\ \A i \in Entries : Inside("main", i) \/ Spare(i) \/ Serving(i)

MainAlone == Serviced /\ ~calm /\ ~overlapped /\ ~error

(* An entry the signal thread is not inside: it has been through those     *)
(* before its index, in the first loop or in the second.                   *)
Swept(i) ==
  /\ th["sig"].pc = "sigwait" => Spare(i) \/ Serving(i)
  /\ th["sig"].pc \in InDel => Spare(i) \/ IF i < th["sig"].at THEN Removed(i) ELSE Serving(i)
  /\ th["sig"].pc \in InDestory => Spare(i) \/ (i >= th["sig"].at /\ Removed(i))
  /\ th["sig"].pc = "exit" => Spare(i)

(* The signal thread, while the main thread waits. *)
SigAlone ==
  /\ At("main", "dispatch") /\ ~NoneSent /\ ~overlapped /\ ~error /\ epfd = EpollFd
  /\ Owned("sig") /\ Accounted
  /\ \A i \in Entries : Inside("sig", i) \/ Swept(i)
  /\ stopped # "no" => stopped = "without" /\ At("sig", "exit")

(* The invariant about a stop that finds the main thread waiting. *)
CInv ==
  /\ signals \in [Signals -> {"unsent", "pending", "taken"}]
  /\ NoneSent => MainAlone
  /\ calm => SigAlone

-----------------------------------------------------------------------------
(* The entries no thread is inside are not disturbed. *)

(* Nothing about a descriptor but n changes. *)
OnlyNumber(n) ==
  \A m \in ConnFds : m # n => files'[m] = files[m] /\ (Registered(m)' <=> Registered(m))

LEMMA KeptEntry ==
  ASSUME NEW i \in Entries, NEW n, slot'[i] = slot[i], OnlyNumber(n), UNCHANGED left,
         Taken(i) => slot[i].fd.num # n
  PROVE  /\ Spare(i) => Spare(i)'
         /\ Serving(i) => Serving(i)'
         /\ Removed(i) => Removed(i)'
<1>1. (Blank(i) => Blank(i)') /\ (Abandoned(i) => Abandoned(i)')
  BY DEF Blank, Abandoned
<1>2. ASSUME Taken(i)
      PROVE  Taken(i)' /\ (Registered(slot[i].fd.num)' <=> Registered(slot[i].fd.num))
  <2>1. PICK m \in ConnFds : m = slot[i].fd.num
    BY <1>2 DEF Taken
  <2>2. m # n /\ slot'[i].fd.num = m
    BY <1>2, <2>1
  <2>3. files'[m] = files[m] /\ (Registered(m)' <=> Registered(m))
    BY <2>2 DEF OnlyNumber
  <2> QED
    BY <1>2, <2>1, <2>2, <2>3 DEF Taken, Registered
<1> QED
  BY <1>1, <1>2 DEF Spare, Dropped, Serving, Removed, Armed, Unarmed

(* Two entries have different descriptors. *)
LEMMA TwoEntries ==
  ASSUME Disjoint, NEW i \in Entries, NEW k \in Entries, i # k, Taken(i), Taken(k)
  PROVE  slot[i].fd.num # slot[k].fd.num
<1>1. slot[i].fd.num # 0 /\ slot[k].fd.num # 0
  BY Numbers DEF Taken
<1> QED
  BY <1>1 DEF Disjoint, OneEntry, Taken

(* The connection of an entry is one that was accepted. *)
LEMMA TakenConn ==
  ASSUME LInv, Disjoint, NEW i \in Entries, Taken(i)
  PROVE  /\ slot[i].fd.conn \in 1 .. accepts /\ files[slot[i].fd.num] \notin {NoFile, Lost}
         /\ slot[i].fd.num \in ConnFds /\ slot[i].fd.num # 0 /\ slot[i].fd.num # ListenFd
<1>1. slot[i].fd.num # 0 /\ slot[i].fd.num # ListenFd
  BY Numbers DEF Taken
<1>2. slot[i].fd.conn \in 1 .. accepts
  BY <1>1 DEF Disjoint, OneEntry
<1> QED
  BY <1>1, <1>2, MainTyped DEF Taken, NoFile, Lost

LEMMA Kinds ==
  ASSUME NEW i \in Entries
  PROVE  /\ Blank(i) => /\ slot[i].fd.num = 0 /\ slot[i].status = "Void" /\ ~Taken(i)
                        /\ slot[i].handler = "NULL"
                        /\ \A f \in Fields : slot[i][f] = NULL
         /\ Serving(i) => Taken(i) /\ slot[i].status = "Inuse"
         /\ Removed(i) => Taken(i) /\ slot[i].status = "Unused"
         /\ Dropped(i) => Taken(i) /\ Fresh(i)
         /\ Spare(i) => slot[i].status = "Void"
<1>1. Blank(i) => /\ slot[i].fd.num = 0 /\ slot[i].status = "Void" /\ ~Taken(i)
                  /\ slot[i].handler = "NULL"
                  /\ \A f \in Fields : slot[i][f] = NULL
  BY Numbers DEF Blank, ZeroEvent, ZeroFd, Fd, Fields, Taken
<1>2. /\ Serving(i) => Taken(i) /\ slot[i].status = "Inuse"
      /\ Removed(i) => Taken(i) /\ slot[i].status = "Unused"
      /\ Dropped(i) => Taken(i) /\ Fresh(i) /\ slot[i].status = "Void"
  BY DEF Serving, Removed, Armed, Unarmed, Dropped, Abandoned, Fresh
<1> QED
  BY <1>1, <1>2 DEF Spare

(* A step on entry k and on its descriptor leaves the others as they were. *)
LEMMA KeptEntries ==
  ASSUME Disjoint, NEW k \in Entries, NEW n, OnlyNumber(n), UNCHANGED left,
         \A i \in Entries : i # k => slot'[i] = slot[i],
         \/ Taken(k) /\ n = slot[k].fd.num
         \/ n \notin ConnFds
         \/ \A i \in Entries : slot[i].fd.num # n
  PROVE  \A i \in Entries : i # k =>
           /\ Spare(i) => Spare(i)'
           /\ Serving(i) => Serving(i)'
           /\ Removed(i) => Removed(i)'
<1> SUFFICES ASSUME NEW i \in Entries, i # k
             PROVE  /\ Spare(i) => Spare(i)'
                    /\ Serving(i) => Serving(i)'
                    /\ Removed(i) => Removed(i)'
  OBVIOUS
<1>1. Taken(i) => slot[i].fd.num # n
  BY TwoEntries DEF Taken
<1>2. slot'[i] = slot[i]
  OBVIOUS
<1> QED
  BY <1>1, <1>2, KeptEntry

(* Nothing new, and nothing that is still there leaves its entry. *)
LEMMA Losing ==
  ASSUME Accounted, ~Pending, reg' \subseteq reg, live' \subseteq live, UNCHANGED left,
         \A n \in ConnFds : files'[n] \in {files[n], NoFile},
         \A i \in Entries :
           \/ slot'[i].fd.num = slot[i].fd.num
           \/ /\ \A x \in reg' : x.fd # slot[i].fd.num
              /\ slot[i].fd.num \in ConnFds => files'[slot[i].fd.num] = NoFile,
         \A i \in Entries, f \in Fields : slot'[i][f] = slot[i][f] \/ slot[i][f] \notin live'
  PROVE  Accounted'
<1>1. ASSUME NEW x \in reg', x # Interest(ListenFd, DN_ACCEPT_EVENT, "IN")
      PROVE  x.fd \in ConnFds /\ \E i \in Entries : slot'[i].fd.num = x.fd
  <2>1. PICK i \in Entries : slot[i].fd.num = x.fd /\ x.fd \in ConnFds
    BY <1>1 DEF Accounted
  <2> QED
    BY <2>1
<1>2. ASSUME NEW n \in ConnFds, files'[n] \notin {NoFile, Lost} \cup left.conns
      PROVE  \E i \in Entries : slot'[i].fd.num = n
  <2>1. files[n] \notin {NoFile, Lost} \cup left.conns
    BY <1>2
  <2>2. PICK i \in Entries : slot[i].fd.num = n
    BY <2>1 DEF Accounted
  <2> QED
    BY <1>2, <2>2
<1>3. ASSUME NEW p \in live', p \notin {1, 2} \cup left.blocks
      PROVE  \E i \in Entries, f \in Fields : slot'[i][f] = p
  <2>1. PICK i \in Entries, f \in Fields : slot[i][f] = p
    BY <1>3 DEF Accounted
  <2> QED
    BY <2>1
<1> QED
  BY <1>1, <1>2, <1>3 DEF Accounted, Interest

-----------------------------------------------------------------------------
(* What a step of DN_DelEvent or DN_DestoryEvent makes of its entry, when  *)
(* the other thread is not at work.                                        *)
Result(t, k) ==
  \/ /\ th'[t].at = k /\ Deleting(t, k)' /\ Destroying(t, k)'
     /\ \/ th[t].pc \in InDel /\ th'[t].pc \in {"delCtl", "delStatus"}
        \/ th[t].pc \in InDestory /\ th'[t].pc \in Destorying
  \/ th[t].pc \in InDel /\ AfterDelEvent(t) /\ (Spare(k)' \/ Removed(k)')
  \/ th[t].pc \in InDestory /\ AfterDestoryEvent(t) /\ Spare(k)'

OthersKept(k) ==
  \A i \in Entries : i # k =>
    /\ Spare(i) => Spare(i)'
    /\ Serving(i) => Serving(i)'
    /\ Removed(i) => Removed(i)'

LEMMA StillKinds ==
  ASSUME NEW k \in Entries, UNCHANGED <<slot, reg, files, left>>
  PROVE  /\ Spare(k)' = Spare(k) /\ Serving(k)' = Serving(k) /\ Removed(k)' = Removed(k)
         /\ Unarmed(k)' = Unarmed(k) /\ Armed(k)' = Armed(k) /\ Fresh(k)' = Fresh(k)
         /\ Blank(k)' = Blank(k) /\ Dropped(k)' = Dropped(k)
  BY DEF Spare, Blank, Dropped, Abandoned, Serving, Removed, Fresh, Unarmed, Armed, Taken, Registered

LEMMA StillOthers ==
  ASSUME UNCHANGED <<slot, reg, files, left>>
  PROVE  \A k : OthersKept(k)
  BY StillKinds DEF OthersKept

LEMMA FieldOrder ==
  /\ FieldsBefore("in") = {} /\ FieldsBefore("out") = {"in"} /\ FieldsBefore("arg") = {"in", "out"}
  /\ FieldsBefore("arg") \cup {"arg"} = Fields
  BY DEF FieldsBefore, Fields

(* The next field, when those up to this one are clear. *)
LEMMA NextField ==
  ASSUME Typed, NEW t \in Threads, NEW k \in Entries, th[t].at = k, AfterField(t),
         th[t].pc \in Destorying, Unarmed(k)',
         \A g \in FieldsBefore(th[t].field) \cup {th[t].field} : slot'[k][g] = NULL
  PROVE  Result(t, k)
<1>1. th \in [Threads -> Thread] /\ th[t] \in Thread
  BY DEF Typed
<1>2. PICK f \in Fields : f = th[t].field
  BY <1>1 DEF Thread
<1>3. CASE f = "arg"
  <2>1. th'[t].pc = "fd" /\ th'[t].at = k
    BY <1>1, <1>2, <1>3 DEF AfterField, Thread
  <2>2. \A g \in Fields : slot'[k][g] = NULL
    BY <1>2, <1>3, FieldOrder
  <2>3. Deleting(t, k)' /\ Destroying(t, k)'
    BY <2>1, <2>2 DEF Deleting, Destroying, InDel
  <2> QED
    BY <2>1, <2>3 DEF Result, InDestory, Destorying
<1>4. CASE f # "arg"
  <2>1. PICK g \in Fields : g = IF f = "in" THEN "out" ELSE "arg"
    BY DEF Fields
  <2>2. th'[t].pc = "test" /\ th'[t].at = k /\ th'[t].field = g
    BY <1>1, <1>2, <1>4, <2>1 DEF AfterField, Thread
  <2>3. FieldsBefore(g) = FieldsBefore(f) \cup {f}
    BY <1>4, <2>1, FieldOrder DEF Fields
  <2>4. \A h \in FieldsBefore(g) : slot'[k][h] = NULL
    BY <1>2, <2>3
  <2>5. Deleting(t, k)' /\ Destroying(t, k)'
    BY <2>2, <2>4 DEF Deleting, Destroying, InDel
  <2> QED
    BY <2>2, <2>5 DEF Result, InDestory, Destorying
<1> QED
  BY <1>3, <1>4

(* What a thread about to do such a step may rely on. *)
Poised(t, k) ==
  /\ LInv /\ Disjoint /\ th[t].at = k
  /\ Deleting(t, k) /\ Destroying(t, k) /\ Accounted /\ ~Pending

(* What the step must give. *)
Done(t, k) ==
  /\ Accounted' /\ OthersKept(k) /\ Result(t, k) /\ UNCHANGED error /\ Keeps(t)

LEMMA PoisedTyped ==
  ASSUME NEW t \in Threads, NEW k \in Entries, Poised(t, k)
  PROVE  /\ Typed /\ th \in [Threads -> Thread] /\ th[t] \in Thread /\ th[t].at = k /\ k \in Slots
         /\ slot \in [Slots -> Event] /\ slot[k] \in Event /\ Entry(t) = slot[k] /\ LInv
         /\ Deleting(t, k) /\ Destroying(t, k) /\ Accounted /\ ~Pending /\ th[t].at \in Entries
  BY MainTyped DEF Poised, Entry, LInv, Typed

(* A step that only moves the thread. *)
LEMMA Look ==
  ASSUME NEW t \in Threads, NEW k \in Entries, Poised(t, k),
         UNCHANGED <<slot, reg, files, live, left, error>>, Keeps(t), Result(t, k)
  PROVE  Done(t, k)
<1>1. Accounted'
  BY PoisedTyped, Losing
<1> QED
  BY <1>1, StillOthers DEF Done

LEMMA DelTestDone ==
  ASSUME NEW t \in Threads, NEW k \in Entries, Poised(t, k), DelTest(t)
  PROVE  Done(t, k)
<1>1. UNCHANGED <<slot, reg, files, live, left, error>> /\ th[t].pc = "del"
  BY DEF DelTest, kernel, heap, At
<1>2. /\ Spare(k) \/ Serving(k)
      /\ th[t].tmp = EpollFd
  BY <1>1, PoisedTyped DEF Deleting, InDel
<1>3. CASE slot[k].status = "Inuse"
  <2>1. Goto(t, "delCtl")
    BY <1>3, PoisedTyped DEF DelTest
  <2>2. Keeps(t) /\ th'[t].pc = "delCtl" /\ th'[t].at = k /\ th'[t].tmp = EpollFd
    BY <1>2, <2>1, PoisedTyped, GotoMove DEF Finishing
  <2>3. Serving(k)'
    BY <1>1, <1>2, <1>3, Kinds, StillKinds
  <2>4. Result(t, k)
    BY <1>1, <2>2, <2>3 DEF Result, Deleting, Destroying, InDel
  <2> QED
    BY <1>1, <2>2, <2>4, Look
<1>4. CASE slot[k].status # "Inuse"
  <2>1. AfterDelEvent(t)
    BY <1>4, PoisedTyped DEF DelTest
  <2>2. Keeps(t)
    BY <2>1, PoisedTyped, AfterDelMove
  <2>3. Spare(k)'
    BY <1>1, <1>2, <1>4, Kinds, StillKinds
  <2>4. Result(t, k)
    BY <1>1, <2>1, <2>3 DEF Result, InDel
  <2> QED
    BY <1>1, <2>2, <2>4, Look
<1> QED
  BY <1>3, <1>4

LEMMA DelCtlDone ==
  ASSUME NEW t \in Threads, NEW k \in Entries, Poised(t, k), DelCtl(t)
  PROVE  Done(t, k)
<1>1. UNCHANGED <<slot, files, live, left>> /\ th[t].pc = "delCtl"
  BY DEF DelCtl, kernel, heap, At
<1>2. Serving(k) /\ th[t].tmp = EpollFd
  BY <1>1, PoisedTyped DEF Deleting, InDel
<1>3. PICK n \in ConnFds : n = slot[k].fd.num /\ Taken(k) /\ Registered(n)
  BY <1>2 DEF Serving, Armed, Taken
<1>4. reg' = {x \in reg : x.fd # n} /\ Goto(t, "delStatus") /\ UNCHANGED error
  BY <1>2, <1>3, PoisedTyped DEF DelCtl
<1>5. Keeps(t) /\ th'[t].pc = "delStatus" /\ th'[t].at = k /\ th'[t].tmp = EpollFd
  BY <1>2, <1>4, PoisedTyped, GotoMove DEF Finishing
<1>6. Unarmed(k)'
  BY <1>1, <1>3, <1>4 DEF Unarmed, Taken, Registered
<1>7. Result(t, k)
  BY <1>1, <1>5, <1>6 DEF Result, Deleting, Destroying, InDel
<1>8. Accounted'
  BY <1>1, <1>4, PoisedTyped, Losing
<1>9. OthersKept(k)
  <2>1. OnlyNumber(n)
    BY <1>1, <1>4 DEF OnlyNumber, Registered
  <2> QED
    BY <1>1, <1>3, <2>1, KeptEntries DEF OthersKept, Poised
<1> QED
  BY <1>4, <1>5, <1>7, <1>8, <1>9 DEF Done

LEMMA DelStatusDone ==
  ASSUME NEW t \in Threads, NEW k \in Entries, Poised(t, k), DelStatus(t)
  PROVE  Done(t, k)
<1>1. UNCHANGED <<reg, files, live, left, error>> /\ th[t].pc = "delStatus" /\ AfterDelEvent(t)
  BY DEF DelStatus, kernel, heap, At
<1>2. Unarmed(k)
  BY <1>1, PoisedTyped DEF Deleting
<1>3. slot' = [slot EXCEPT ![k]["status"] = "Unused"]
  BY PoisedTyped DEF DelStatus, Write
<1>4. /\ \A i \in Entries : i # k => slot'[i] = slot[i]
      /\ slot'[k].status = "Unused" /\ slot'[k].fd = slot[k].fd
      /\ \A f \in Fields : slot'[k][f] = slot[k][f]
  BY <1>3, PoisedTyped, Indices DEF Event, Fields
<1>5. Removed(k)'
  BY <1>1, <1>2, <1>4 DEF Removed, Unarmed, Taken, Registered
<1>6. Keeps(t)
  BY <1>1, PoisedTyped, AfterDelMove
<1>7. Result(t, k)
  BY <1>1, <1>5 DEF Result, InDel
<1>8. Accounted'
  BY <1>1, <1>4, PoisedTyped, Losing
<1>9. OthersKept(k)
  <2>1. OnlyNumber(0) /\ 0 \notin ConnFds
    BY <1>1, Numbers DEF OnlyNumber, Registered
  <2> QED
    BY <1>1, <1>4, <2>1, KeptEntries DEF OthersKept, Poised
<1> QED
  BY <1>1, <1>6, <1>7, <1>8, <1>9 DEF Done

LEMMA DestoryTestDone ==
  ASSUME NEW t \in Threads, NEW k \in Entries, Poised(t, k), DestoryTest(t)
  PROVE  Done(t, k)
<1>1. UNCHANGED <<slot, reg, files, live, left, error>> /\ th[t].pc = "destory"
  BY DEF DestoryTest, kernel, heap, At
<1>2. Spare(k) \/ Removed(k)
  BY <1>1, PoisedTyped DEF Destroying
<1>3. CASE slot[k].status = "Void"
  <2>1. AfterDestoryEvent(t)
    BY <1>3, PoisedTyped DEF DestoryTest
  <2>2. Keeps(t)
    BY <2>1, PoisedTyped, AfterDestoryMove
  <2>3. Spare(k)'
    BY <1>1, <1>2, <1>3, Kinds, StillKinds
  <2>4. Result(t, k)
    BY <1>1, <2>1, <2>3 DEF Result, InDestory
  <2> QED
    BY <1>1, <2>2, <2>4, Look
<1>4. CASE slot[k].status # "Void"
  <2>1. th' = [th EXCEPT ![t].pc = "test", ![t].field = "in"]
    BY <1>4, PoisedTyped DEF DestoryTest
  <2>2. Keeps(t) /\ th'[t].pc = "test" /\ th'[t].at = k /\ th'[t].field = "in"
    BY <2>1, PoisedTyped DEF Thread, Keeps
  <2>3. Unarmed(k)'
    BY <1>1, <1>2, <1>4, Kinds, StillKinds DEF Removed
  <2>4. Result(t, k)
    BY <1>1, <2>2, <2>3, FieldOrder DEF Result, Deleting, Destroying, InDel, InDestory, Destorying
  <2> QED
    BY <1>1, <2>2, <2>4, Look
<1> QED
  BY <1>3, <1>4

LEMMA TestPointerDone ==
  ASSUME NEW t \in Threads, NEW k \in Entries, Poised(t, k), TestPointer(t)
  PROVE  Done(t, k)
<1>1. UNCHANGED <<slot, reg, files, live, left, error>> /\ th[t].pc = "test"
  BY DEF TestPointer, kernel, heap, At
<1>2. Unarmed(k) /\ \A g \in FieldsBefore(th[t].field) : slot[k][g] = NULL
  BY <1>1, PoisedTyped DEF Destroying
<1>3. Unarmed(k)'
  BY <1>1, <1>2, StillKinds
<1>4. CASE Entry(t)[th[t].field] = NULL
  <2>1. AfterField(t)
    BY <1>4 DEF TestPointer
  <2>2. Keeps(t)
    BY <2>1, PoisedTyped, AfterFieldMove
  <2>3. \A g \in FieldsBefore(th[t].field) \cup {th[t].field} : slot'[k][g] = NULL
    BY <1>1, <1>2, <1>4, PoisedTyped
  <2>4. th[t].pc \in Destorying
    BY <1>1 DEF Destorying
  <2>5. Result(t, k)
    BY <1>3, <2>1, <2>3, <2>4, PoisedTyped, NextField
  <2> QED
    BY <1>1, <2>2, <2>5, Look
<1>5. CASE Entry(t)[th[t].field] # NULL
  <2>1. Goto(t, "load")
    BY <1>5 DEF TestPointer
  <2>2. Keeps(t) /\ th'[t].pc = "load" /\ th'[t].at = k /\ th'[t].field = th[t].field
    BY <2>1, PoisedTyped, GotoMove DEF Finishing, Destorying
  <2>3. Result(t, k)
    BY <1>1, <1>2, <1>3, <2>2 DEF Result, Deleting, Destroying, InDel, InDestory, Destorying
  <2> QED
    BY <1>1, <2>2, <2>3, Look
<1> QED
  BY <1>4, <1>5

LEMMA LoadPointerDone ==
  ASSUME NEW t \in Threads, NEW k \in Entries, Poised(t, k), LoadPointer(t)
  PROVE  Done(t, k)
<1>1. UNCHANGED <<slot, reg, files, live, left, error>> /\ th[t].pc = "load"
  BY DEF LoadPointer, kernel, heap, At
<1>2. Unarmed(k) /\ \A g \in FieldsBefore(th[t].field) : slot[k][g] = NULL
  BY <1>1, PoisedTyped DEF Destroying
<1>3. Unarmed(k)'
  BY <1>1, <1>2, StillKinds
<1>4. th' = [th EXCEPT ![t].pc = "free", ![t].tmp = Entry(t)[th[t].field]]
  BY DEF LoadPointer
<1>5. Keeps(t) /\ th'[t].pc = "free" /\ th'[t].at = k /\ th'[t].field = th[t].field
  BY <1>4, PoisedTyped DEF Thread, Keeps
<1>6. Result(t, k)
  BY <1>1, <1>2, <1>3, <1>5 DEF Result, Deleting, Destroying, InDel, InDestory, Destorying
<1> QED
  BY <1>1, <1>5, <1>6, Look

LEMMA FreeDone ==
  ASSUME NEW t \in Threads, NEW k \in Entries, Poised(t, k), Free(t)
  PROVE  Done(t, k)
<1>1. UNCHANGED <<slot, reg, files, left, error>> /\ th[t].pc = "free"
  BY DEF Free, kernel, At
<1>2. Unarmed(k) /\ \A g \in FieldsBefore(th[t].field) : slot[k][g] = NULL
  BY <1>1, PoisedTyped DEF Destroying
<1>3. Unarmed(k)'
  BY <1>1, <1>2, StillKinds
<1>4. Goto(t, "clear") /\ live' = live \ {th[t].tmp}
  BY DEF Free
<1>5. Keeps(t) /\ th'[t].pc = "clear" /\ th'[t].at = k /\ th'[t].field = th[t].field
  BY <1>4, PoisedTyped, GotoMove DEF Finishing, Destorying
<1>6. slot[k][th[t].field] = th[t].tmp
  BY <1>1, PoisedTyped DEF Poised, Disjoint, Freeing
<1>7. Result(t, k)
  BY <1>1, <1>2, <1>3, <1>4, <1>5, <1>6
     DEF Result, Deleting, Destroying, InDel, InDestory, Destorying
<1>8. Accounted'
  BY <1>1, <1>4, PoisedTyped, Losing
<1> QED
  BY <1>1, <1>5, <1>7, <1>8, StillOthers DEF Done

LEMMA ClearPointerDone ==
  ASSUME NEW t \in Threads, NEW k \in Entries, Poised(t, k), ClearPointer(t)
  PROVE  Done(t, k)
<1>1. UNCHANGED <<reg, files, live, left, error>> /\ th[t].pc = "clear" /\ AfterField(t)
  BY DEF ClearPointer, kernel, heap, At
<1>2. PICK f \in Fields : f = th[t].field
  BY PoisedTyped DEF Thread
<1>3. /\ Unarmed(k) /\ \A g \in FieldsBefore(f) : slot[k][g] = NULL
      /\ slot[k][f] \notin live
  BY <1>1, <1>2, PoisedTyped DEF Destroying
<1>4. Write(t, f, NULL) /\ NULL \in Nat
  BY <1>2 DEF ClearPointer, Write, NULL
<1>5. /\ \A i \in Slots : i # k => slot'[i] = slot[i]
      /\ slot'[k][f] = NULL /\ \A g \in Fields : g # f => slot'[k][g] = slot[k][g]
      /\ slot'[k].fd = slot[k].fd
  <2>1. /\ \A i \in Slots : i # th[t].at => slot'[i] = slot[i]
        /\ slot'[th[t].at][f] = NULL
        /\ \A g \in Fields : g # f => slot'[th[t].at][g] = Entry(t)[g]
        /\ slot'[th[t].at].fd = Entry(t).fd
    BY <1>4, PoisedTyped, WriteEffect
  <2> QED
    BY <2>1, PoisedTyped
<1>6. Unarmed(k)'
  BY <1>1, <1>3, <1>5 DEF Unarmed, Taken, Registered
<1>7. \A g \in FieldsBefore(f) \cup {f} : slot'[k][g] = NULL
  BY <1>3, <1>5 DEF FieldsBefore
<1>8. Keeps(t) /\ th[t].pc \in Destorying
  BY <1>1, PoisedTyped, AfterFieldMove DEF Destorying
<1>9. Result(t, k)
  BY <1>1, <1>2, <1>6, <1>7, <1>8, PoisedTyped, NextField
<1>10. Accounted'
  <2>1. \A i \in Entries : slot'[i].fd.num = slot[i].fd.num
    BY <1>5, Indices
  <2>2. \A i \in Entries, g \in Fields : slot'[i][g] = slot[i][g] \/ slot[i][g] \notin live'
    BY <1>1, <1>3, <1>5, Indices
  <2> QED
    BY <1>1, <2>1, <2>2, PoisedTyped, Losing
<1>11. OthersKept(k)
  <2>1. OnlyNumber(0) /\ 0 \notin ConnFds
    BY <1>1, Numbers DEF OnlyNumber, Registered
  <2>2. \A i \in Entries : i # k => slot'[i] = slot[i]
    BY <1>5, Indices
  <2> QED
    BY <1>1, <2>1, <2>2, KeptEntries DEF OthersKept, Poised
<1> QED
  BY <1>1, <1>8, <1>9, <1>10, <1>11 DEF Done

LEMMA LoadFdDone ==
  ASSUME NEW t \in Threads, NEW k \in Entries, Poised(t, k), LoadFd(t)
  PROVE  Done(t, k)
<1>1. UNCHANGED <<slot, reg, files, live, left, error>> /\ th[t].pc = "fd"
  BY DEF LoadFd, kernel, heap, At
<1>2. Unarmed(k) /\ \A g \in Fields : slot[k][g] = NULL
  BY <1>1, PoisedTyped DEF Destroying
<1>3. Unarmed(k)' /\ slot[k].fd.num > 0
  BY <1>1, <1>2, StillKinds, Numbers DEF Unarmed, Taken
<1>4. th' = [th EXCEPT ![t].pc = "close", ![t].fd = Entry(t).fd]
  BY <1>3, PoisedTyped DEF LoadFd
<1>5. Keeps(t) /\ th'[t].pc = "close" /\ th'[t].at = k
  BY <1>4, PoisedTyped DEF Thread, Keeps
<1>6. Result(t, k)
  BY <1>1, <1>2, <1>3, <1>5 DEF Result, Deleting, Destroying, InDel, InDestory, Destorying
<1> QED
  BY <1>1, <1>5, <1>6, Look

LEMMA CloseFdDone ==
  ASSUME NEW t \in Threads, NEW k \in Entries, Poised(t, k), CloseFd(t)
  PROVE  Done(t, k)
<1>1. UNCHANGED <<slot, live, left, error>> /\ th[t].pc = "close" /\ Goto(t, "zero")
  BY DEF CloseFd, heap, At
<1>2. Unarmed(k) /\ \A g \in Fields : slot[k][g] = NULL
  BY <1>1, PoisedTyped DEF Destroying
<1>3. PICK n \in ConnFds : n = slot[k].fd.num
  BY <1>2 DEF Unarmed, Taken
<1>4. th[t].fd.num = n
  BY <1>1, <1>3, PoisedTyped DEF Poised, Disjoint, OpenFiles
<1>5. /\ files' = [m \in ConnFds |-> IF m = n THEN NoFile ELSE files[m]]
      /\ reg' = {x \in reg : x.fd # n}
  BY <1>4 DEF CloseFd
<1>6. Keeps(t) /\ th'[t].pc = "zero" /\ th'[t].at = k
  BY <1>1, PoisedTyped, GotoMove DEF Finishing, Destorying
<1>7. files'[n] = NoFile /\ ~Registered(n)' /\ slot'[k].fd.num = n
  BY <1>1, <1>3, <1>5 DEF Registered
<1>8. Destroying(t, k)'
  BY <1>1, <1>2, <1>6, <1>7 DEF Destroying, Registered
<1>9. Result(t, k)
  BY <1>1, <1>6, <1>8 DEF Result, Deleting, InDel, InDestory, Destorying
<1>10. Accounted'
  BY <1>1, <1>5, PoisedTyped, Losing
<1>11. OthersKept(k)
  <2>1. OnlyNumber(n)
    BY <1>5 DEF OnlyNumber, Registered
  <2> QED
    BY <1>1, <1>2, <1>3, <2>1, KeptEntries DEF OthersKept, Poised, Unarmed
<1> QED
  BY <1>1, <1>6, <1>9, <1>10, <1>11 DEF Done

LEMMA ZeroEntryDone ==
  ASSUME NEW t \in Threads, NEW k \in Entries, Poised(t, k), ZeroEntry(t)
  PROVE  Done(t, k)
<1>1. UNCHANGED <<reg, files, live, left, error>> /\ th[t].pc = "zero" /\ AfterDestoryEvent(t)
  BY DEF ZeroEntry, kernel, heap, At
<1>2. /\ \A g \in Fields : slot[k][g] = NULL
      /\ files[slot[k].fd.num] = NoFile /\ ~Registered(slot[k].fd.num)
  BY <1>1, PoisedTyped DEF Destroying
<1>3. slot' = [slot EXCEPT ![k] = ZeroEvent]
  BY PoisedTyped DEF ZeroEntry, Cleared
<1>4. slot'[k] = ZeroEvent /\ \A i \in Entries : i # k => slot'[i] = slot[i]
  BY <1>3, PoisedTyped, Indices
<1>5. Spare(k)'
  BY <1>4 DEF Spare, Blank
<1>6. Keeps(t)
  BY <1>1, PoisedTyped, AfterDestoryMove
<1>7. Result(t, k)
  BY <1>1, <1>5 DEF Result, InDestory, Destorying
<1>8. Accounted'
  <2>1. \A i \in Entries :
           \/ slot'[i].fd.num = slot[i].fd.num
           \/ /\ \A x \in reg' : x.fd # slot[i].fd.num
              /\ slot[i].fd.num \in ConnFds => files'[slot[i].fd.num] = NoFile
    BY <1>1, <1>2, <1>4 DEF Registered
  <2>2. \A i \in Entries, g \in Fields : slot'[i][g] = slot[i][g] \/ slot[i][g] \notin live'
    <3>1. \A g \in Fields : slot'[k][g] = slot[k][g]
      BY <1>2, <1>4 DEF ZeroEvent, Fields
    <3> QED
      BY <1>4, <3>1
  <2> QED
    BY <1>1, <2>1, <2>2, PoisedTyped, Losing
<1>9. OthersKept(k)
  <2>1. OnlyNumber(0) /\ 0 \notin ConnFds
    BY <1>1, Numbers DEF OnlyNumber, Registered
  <2> QED
    BY <1>1, <1>4, <2>1, KeptEntries DEF OthersKept, Poised
<1> QED
  BY <1>1, <1>6, <1>7, <1>8, <1>9 DEF Done

LEMMA FinishDone ==
  ASSUME NEW t \in Threads, NEW k \in Entries, Poised(t, k), FinishEvent(t)
  PROVE  Done(t, k)
  BY DelTestDone, DelCtlDone, DelStatusDone, DestoryTestDone, TestPointerDone, LoadPointerDone,
     FreeDone, ClearPointerDone, LoadFdDone, CloseFdDone, ZeroEntryDone DEF FinishEvent

-----------------------------------------------------------------------------
(* The signal thread. *)

LEMMA SigPlace ==
  ASSUME LInv
  PROVE  /\ th["sig"] \in Thread /\ th["sig"].at \in Entries /\ "sig" \in Threads
         /\ th["sig"].pc \in InDel \cup InDestory \cup {"sigwait", "exit"}
  BY DEF LInv, Typed, Threading, Threads, Finishing, InDel, InDestory

LEMMA Families ==
  /\ \A l : ~(l \in InDel /\ l \in InDestory)
  /\ {"sigwait", "exit", "dispatch"} \cap (InDel \cup InDestory) = {}
  /\ InDel \cup InDestory = Finishing
  /\ Finishing \subseteq Working /\ {"sigwait", "exit", "dispatch"} \cap Working = {}
  /\ {"del", "delCtl", "delStatus"} \subseteq InDel
  /\ "destory" \in InDestory /\ Destorying \subseteq InDestory
  BY DEF InDel, InDestory, Finishing, Destorying, Working, Accepting, Adding, Handling

LEMMA SigFinishing ==
  ASSUME LInv, Disjoint, SigAlone, FinishEvent("sig"), UNCHANGED epfd
  PROVE  /\ Accounted' /\ UNCHANGED <<error, epfd>> /\ th'["main"] = th["main"]
         /\ Owned("sig")' /\ \A i \in Entries : Inside("sig", i)' \/ Swept(i)'
<1>1. PICK k \in Entries : k = th["sig"].at
  BY SigPlace
<1>2. th["sig"].pc \in InDel \cup InDestory
  BY DEF FinishEvent, DelTest, DelCtl, DelStatus, DestoryTest, TestPointer, LoadPointer, Free,
         ClearPointer, LoadFd, CloseFd, ZeroEntry, At, InDel, InDestory, Destorying
<1>3. Inside("sig", k)
  BY <1>1, <1>2, Families DEF Inside
<1>4. Poised("sig", k)
  BY <1>1, <1>3 DEF Poised, SigAlone, Owned, Pending, At
<1>5. Done("sig", k)
  BY <1>4, FinishDone, SigPlace
<1>6. Accounted' /\ UNCHANGED error /\ th'["main"] = th["main"] /\ OthersKept(k) /\ Result("sig", k)
  BY <1>5 DEF Done, Keeps, Threads
<1>7. \A i \in Entries : i # k => Swept(i)
  BY <1>1 DEF SigAlone, Inside
<1>8. ASSUME th["sig"].pc \in InDel
      PROVE  /\ th["sig"].tmp = EpollFd
             /\ \A i \in Entries : i < k => Spare(i)' \/ Removed(i)'
             /\ \A i \in Entries : i > k => Spare(i)' \/ Serving(i)'
  <2>1. th["sig"].tmp = EpollFd
    BY <1>4, <1>8 DEF Poised, Deleting
  <2>2. \A i \in Entries : i # k => Spare(i) \/ IF i < k THEN Removed(i) ELSE Serving(i)
    BY <1>1, <1>7, <1>8 DEF Swept
  <2> QED
    BY <1>6, <2>1, <2>2 DEF OthersKept, Entries
<1>9. ASSUME th["sig"].pc \in InDestory
      PROVE  /\ \A i \in Entries : i < k => Spare(i)'
             /\ \A i \in Entries : i > k => Spare(i)' \/ Removed(i)'
  <2>1. \A i \in Entries : i # k => Spare(i) \/ (i >= k /\ Removed(i))
    BY <1>1, <1>7, <1>9 DEF Swept
  <2> QED
    BY <1>6, <2>1 DEF OthersKept, Entries
<1>10. CASE /\ th'["sig"].at = k /\ Deleting("sig", k)' /\ Destroying("sig", k)'
            /\ \/ th["sig"].pc \in InDel /\ th'["sig"].pc \in {"delCtl", "delStatus"}
               \/ th["sig"].pc \in InDestory /\ th'["sig"].pc \in Destorying
  <2>1. \/ th["sig"].pc \in InDel /\ th'["sig"].pc \in InDel
        \/ th["sig"].pc \in InDestory /\ th'["sig"].pc \in InDestory
    BY <1>10, Families
  <2>2. Owned("sig")'
    BY <1>10 DEF Owned, Inside
  <2>3. ASSUME NEW i \in Entries PROVE Inside("sig", i)' \/ Swept(i)'
    <3>1. CASE i = k
      BY <1>10, <2>1, <3>1, Families DEF Inside
    <3>2. CASE i # k /\ th["sig"].pc \in InDel
      BY <1>8, <1>10, <2>1, <3>2, Families DEF Swept, Entries
    <3>3. CASE i # k /\ th["sig"].pc \in InDestory
      BY <1>9, <1>10, <2>1, <3>3, Families DEF Swept, Entries
    <3> QED
      BY <1>2, <3>1, <3>2, <3>3
  <2> QED
    BY <1>6, <2>2, <2>3
<1>11. CASE th["sig"].pc \in InDel /\ AfterDelEvent("sig") /\ (Spare(k)' \/ Removed(k)')
  <2>1. CASE ~LoopEnds(k)
    <3>1. th' = [th EXCEPT !["sig"].pc = "del", !["sig"].at = k + 1] /\ k + 1 \in Entries
      BY <1>1, <1>11, <2>1, Indices DEF AfterDelEvent
    <3>2. th'["sig"].pc = "del" /\ th'["sig"].at = k + 1 /\ th'["sig"].tmp = EpollFd
      BY <1>8, <1>11, <3>1, MainTyped, SigPlace DEF Thread
    <3>3. Spare(k + 1)' \/ Serving(k + 1)'
      BY <1>8, <1>11, <3>1 DEF Entries
    <3>4. Deleting("sig", k + 1)' /\ Destroying("sig", k + 1)'
      BY <3>2, <3>3 DEF Deleting, Destroying
    <3>5. Owned("sig")'
      BY <3>2, <3>4 DEF Owned, Inside
    <3>6. ASSUME NEW i \in Entries PROVE Inside("sig", i)' \/ Swept(i)'
      <4>1. CASE i = k + 1
        BY <3>2, <4>1, Families DEF Inside
      <4>2. CASE i > k + 1
        <5>1. Spare(i)' \/ Serving(i)'
          BY <1>8, <1>11, <4>2 DEF Entries
        <5>2. ~(i < th'["sig"].at)
          BY <3>2, <4>2 DEF Entries
        <5> QED
          BY <3>2, <5>1, <5>2, Families DEF Swept
      <4>3. CASE i < k + 1
        <5>1. i < k \/ i = k
          BY <4>3 DEF Entries
        <5>2. Spare(i)' \/ Removed(i)'
          BY <1>8, <1>11, <5>1
        <5> QED
          BY <3>2, <4>3, <5>2, Families DEF Swept
      <4> QED
        BY <4>1, <4>2, <4>3 DEF Entries
    <3> QED
      BY <1>6, <3>5, <3>6
  <2>2. CASE LoopEnds(k)
    <3>1. th' = [th EXCEPT !["sig"].pc = "destory", !["sig"].at = 0]
      BY <1>1, <1>11, <2>2 DEF AfterDelEvent
    <3>2. th'["sig"].pc = "destory" /\ th'["sig"].at = 0
      BY <3>1, MainTyped, SigPlace DEF Thread
    <3>3. ASSUME NEW i \in Entries PROVE Spare(i)' \/ Removed(i)'
      <4>1. i = k \/ i < k
        BY <2>2, BoundsAssumption DEF LoopEnds, Entries
      <4> QED
        BY <1>8, <1>11, <4>1
    <3>4. Owned("sig")'
      BY <3>2, <3>3 DEF Owned, Inside, Deleting, Destroying, InDel
    <3>5. ASSUME NEW i \in Entries PROVE Inside("sig", i)' \/ Swept(i)'
      <4>1. i >= 0
        BY DEF Entries
      <4> QED
        BY <3>2, <3>3, <4>1, Families DEF Swept
    <3> QED
      BY <1>6, <3>4, <3>5
  <2> QED
    BY <2>1, <2>2
<1>12. CASE th["sig"].pc \in InDestory /\ AfterDestoryEvent("sig") /\ Spare(k)'
  <2>1. CASE ~LoopEnds(k)
    <3>1. th' = [th EXCEPT !["sig"].pc = "destory", !["sig"].at = k + 1] /\ k + 1 \in Entries
      BY <1>1, <1>12, <2>1, Indices DEF AfterDestoryEvent
    <3>2. th'["sig"].pc = "destory" /\ th'["sig"].at = k + 1
      BY <3>1, MainTyped, SigPlace DEF Thread
    <3>3. Spare(k + 1)' \/ Removed(k + 1)'
      BY <1>9, <1>12, <3>1 DEF Entries
    <3>4. Deleting("sig", k + 1)' /\ Destroying("sig", k + 1)'
      BY <3>2, <3>3 DEF Deleting, Destroying, InDel
    <3>5. Owned("sig")'
      BY <3>2, <3>4 DEF Owned, Inside
    <3>6. ASSUME NEW i \in Entries PROVE Inside("sig", i)' \/ Swept(i)'
      <4>1. CASE i >= k + 1
        <5>1. Spare(i)' \/ Removed(i)'
          BY <1>9, <1>12, <4>1 DEF Entries
        <5> QED
          BY <3>2, <4>1, <5>1, Families DEF Swept
      <4>2. CASE i < k + 1
        <5>1. i < k \/ i = k
          BY <4>2 DEF Entries
        <5>2. Spare(i)'
          BY <1>9, <1>12, <5>1
        <5> QED
          BY <3>2, <5>2, Families DEF Swept
      <4> QED
        BY <4>1, <4>2 DEF Entries
    <3> QED
      BY <1>6, <3>5, <3>6
  <2>2. CASE LoopEnds(k)
    <3>1. th' = [th EXCEPT !["sig"].pc = "exit"]
      BY <1>1, <1>12, <2>2 DEF AfterDestoryEvent
    <3>2. th'["sig"].pc = "exit"
      BY <3>1, MainTyped, SigPlace DEF Thread
    <3>3. ASSUME NEW i \in Entries PROVE Spare(i)'
      <4>1. i = k \/ i < k
        BY <2>2, BoundsAssumption DEF LoopEnds, Entries
      <4> QED
        BY <1>9, <1>12, <4>1
    <3>4. Owned("sig")'
      BY <3>2, Families DEF Owned, Inside
    <3> QED
      BY <1>6, <3>2, <3>3, <3>4, Families DEF Swept
  <2> QED
    BY <2>1, <2>2
<1> QED
  BY <1>6, <1>10, <1>11, <1>12 DEF Result

-----------------------------------------------------------------------------
(* The main thread. *)

LEMMA MainNext ==
  ASSUME Serviced, th["main"].pc \notin Booting, th'["main"].pc \notin Booting,
         UNCHANGED epfd, Keeps("main"), Accounted',
         NEW k \in Entries, OthersKept(k), th["main"].pc \in Working => th["main"].at = k,
         \/ /\ th'["main"].pc \in Working /\ th'["main"].at = k
            /\ Deleting("main", k)' /\ Destroying("main", k)' /\ Arming(k)'
         \/ th'["main"].pc \notin Working /\ (Spare(k)' \/ Serving(k)')
  PROVE  Serviced'
<1>1. th'["sig"] = th["sig"]
  BY DEF Keeps, Threads
<1>2. Owned("main")'
  BY DEF Owned, Inside
<1>3. ASSUME NEW i \in Entries PROVE Inside("main", i)' \/ Spare(i)' \/ Serving(i)'
  <2>1. CASE i = k
    BY <2>1 DEF Inside
  <2>2. CASE i # k
    <3>1. Spare(i) \/ Serving(i)
      BY <2>2 DEF Serviced, Inside
    <3> QED
      BY <2>2, <3>1 DEF OthersKept
  <2> QED
    BY <2>1, <2>2
<1>4. epfd = EpollFd
  BY DEF Serviced, Booting
<1> QED
  BY <1>1, <1>2, <1>3, <1>4 DEF Serviced

(* The same, when the main thread is at work on an entry to serve it. *)
LEMMA MainServes ==
  ASSUME Serviced, th["main"].pc \notin Booting,
         th'["main"].pc \in Accepting \cup Adding \cup Handling,
         UNCHANGED epfd, Keeps("main"), Accounted',
         NEW k \in Entries, OthersKept(k), th["main"].pc \in Working => th["main"].at = k,
         th'["main"].at = k, Arming(k)'
  PROVE  Serviced'
<1>1. Deleting("main", k)' /\ Destroying("main", k)'
  BY DEF Deleting, Destroying, InDel, Accepting, Adding, Handling
<1>2. th'["main"].pc \in Working /\ th'["main"].pc \notin Booting
  BY DEF Working, Booting, Accepting, Adding, Handling
<1> QED
  BY <1>1, <1>2, MainNext

LEMMA MainInside ==
  ASSUME LInv, Serviced, th["main"].pc \in Working
  PROVE  /\ th["main"].at \in Entries /\ th["main"].pc \notin Booting
         /\ Deleting("main", th["main"].at) /\ Destroying("main", th["main"].at)
         /\ Arming(th["main"].at)
<1>1. th["main"].at \in Entries /\ th["main"].pc \notin Booting
  BY DEF LInv, Threading, Working, Booting, Finishing, Accepting, Adding, Handling, Destorying
<1>2. PICK k \in Entries : k = th["main"].at
  BY <1>1
<1>3. Deleting("main", k) /\ Destroying("main", k) /\ Arming(k)
  BY <1>2 DEF Serviced, Owned, Inside
<1> QED
  BY <1>1, <1>2, <1>3

(* Nothing changes but where the main thread is. *)
LEMMA StillAccounted ==
  ASSUME Accounted, UNCHANGED <<slot, reg, files, live, left>>,
         Pending => Pending' /\ th'["main"].fd = th["main"].fd
  PROVE  Accounted'
  BY DEF Accounted

LEMMA MainFinishing ==
  ASSUME LInv, Disjoint, Serviced, FinishEvent("main"), UNCHANGED epfd
  PROVE  Serviced' /\ UNCHANGED error
<1>1. th["main"].pc \in InDel \cup InDestory
  BY DEF FinishEvent, DelTest, DelCtl, DelStatus, DestoryTest, TestPointer, LoadPointer, Free,
         ClearPointer, LoadFd, CloseFd, ZeroEntry, At, InDel, InDestory, Destorying
<1>2. th["main"].pc \in Working /\ th["main"].pc \notin Booting
  BY <1>1, Families DEF InDel, InDestory, Destorying, Booting
<1>3. PICK k \in Entries : k = th["main"].at /\ Deleting("main", k) /\ Destroying("main", k)
  BY <1>2, MainInside
<1>4. Poised("main", k)
  BY <1>1, <1>3 DEF Poised, Serviced, Pending, InDel, InDestory, Destorying
<1>5. Done("main", k)
  BY <1>4, FinishDone, MainTyped
<1>6. Accounted' /\ UNCHANGED error /\ Keeps("main") /\ OthersKept(k) /\ Result("main", k)
  BY <1>5 DEF Done
<1>7. ASSUME th'["main"].pc \in InDel \cup InDestory PROVE Arming(k)' /\ th'["main"].pc \in Working
             /\ th'["main"].pc \notin Booting
  BY <1>7, Families DEF Arming, InDel, InDestory, Destorying, Booting, Handling
<1>8. CASE /\ th'["main"].at = k /\ Deleting("main", k)' /\ Destroying("main", k)'
           /\ \/ th["main"].pc \in InDel /\ th'["main"].pc \in {"delCtl", "delStatus"}
              \/ th["main"].pc \in InDestory /\ th'["main"].pc \in Destorying
  <2>1. th'["main"].pc \in InDel \cup InDestory
    BY <1>8, Families
  <2> QED
    BY <1>2, <1>3, <1>6, <1>7, <1>8, <2>1, MainNext
<1>9. CASE th["main"].pc \in InDel /\ AfterDelEvent("main") /\ (Spare(k)' \/ Removed(k)')
  <2>1. th' = [th EXCEPT !["main"].pc = "destory", !["main"].at = th["main"].at]
    BY <1>9 DEF AfterDelEvent
  <2>2. th'["main"].pc = "destory" /\ th'["main"].at = k
    BY <1>3, <2>1, MainTyped DEF Thread
  <2>3. Deleting("main", k)' /\ Destroying("main", k)'
    BY <1>9, <2>2 DEF Deleting, Destroying, InDel
  <2>4. th'["main"].pc \in InDel \cup InDestory
    BY <2>2, Families
  <2> QED
    BY <1>2, <1>3, <1>6, <1>7, <2>2, <2>3, <2>4, MainNext
<1>10. CASE th["main"].pc \in InDestory /\ AfterDestoryEvent("main") /\ Spare(k)'
  <2>1. th' = [th EXCEPT !["main"].pc = "dispatch"]
    BY <1>10 DEF AfterDestoryEvent
  <2>2. th'["main"].pc = "dispatch"
    BY <2>1, MainTyped DEF Thread
  <2>3. th'["main"].pc \notin Working /\ th'["main"].pc \notin Booting
    BY <2>2, Families DEF Booting
  <2> QED
    BY <1>2, <1>3, <1>6, <1>10, <2>3, MainNext
<1> QED
  BY <1>6, <1>8, <1>9, <1>10 DEF Result

(* The steps of the main thread to or from the wait for events, with no    *)
(* entry touched.                                                          *)
LEMMA MainBetween ==
  ASSUME Serviced, UNCHANGED <<slot, reg, files, live, left, epfd>>, Keeps("main"),
         th["main"].pc \in Between \cup {"request"}, th'["main"].pc \in Between,
         th["main"].pc = "request" => th["main"].at \in Entries /\ Arming(th["main"].at),
         ~Pending
  PROVE  Serviced'
<1>1. Accounted'
  BY StillAccounted DEF Serviced
<1>2. /\ \A l \in Between : l \notin Working /\ l \notin Booting
      /\ "request" \in Working /\ "request" \notin Booting
  BY DEF Between, Working, Booting, Finishing, Accepting, Adding, Handling, Destorying
<1>3. PICK k \in Entries : th["main"].pc = "request" => k = th["main"].at
  BY Indices
<1>4. Spare(k) \/ Serving(k)
  <2>1. CASE th["main"].pc = "request"
    BY <1>3, <2>1 DEF Arming, Spare
  <2>2. CASE th["main"].pc \in Between
    BY <1>2, <2>2 DEF Serviced, Inside
  <2> QED
    BY <2>1, <2>2
<1>5. Spare(k)' \/ Serving(k)'
  BY <1>4, StillKinds
<1>6. OthersKept(k)
  BY StillOthers
<1>7. th["main"].pc \in Working => th["main"].at = k
  BY <1>2, <1>3
<1> QED
  BY <1>1, <1>2, <1>5, <1>6, <1>7, MainNext

LEMMA EpollCreateServed == ASSUME LInv, Serviced, EpollCreate PROVE Serviced'
<1>1. UNCHANGED <<slot, reg, files, live, left>> /\ th["main"].pc = "create" /\ epfd' = EpollFd
  BY DEF EpollCreate, kernel, heap, At
<1>2. Keeps("main") /\ th'["main"].pc = "listener"
  BY MainGoto DEF EpollCreate, Booting
<1>3. Accounted'
  BY <1>1, StillAccounted DEF Serviced, Pending
<1>4. reg' = {}
  BY <1>1 DEF Serviced, Booting
<1>5. "create" \notin Working /\ "listener" \notin Working
  BY DEF Working, Finishing, Accepting, Adding, Handling, Destorying
<1>6. Owned("main")'
  BY <1>2, <1>5 DEF Owned, Inside
<1>7. \A i \in Entries : Spare(i)' \/ Serving(i)'
  BY <1>1, <1>5, StillKinds DEF Serviced, Inside
<1>8. th'["sig"].pc = "sigwait"
  BY <1>2 DEF Keeps, Threads, Serviced
<1> QED
  BY <1>1, <1>3, <1>4, <1>6, <1>7, <1>8 DEF Serviced

LEMMA AddListenerServed == ASSUME LInv, Serviced, AddListener PROVE Serviced'
<1>1. /\ UNCHANGED <<files, left, epfd>> /\ th["main"].pc = "listener"
      /\ reg' = {Interest(ListenFd, DN_ACCEPT_EVENT, "IN")} /\ live' = {1, 2}
      /\ \A i \in Entries : slot'[i] = slot[i]
  BY MainTyped DEF AddListener, At
<1>2. Keeps("main") /\ th'["main"].pc = "dispatch"
  BY MainGoto DEF AddListener, Between
<1>3. reg = {} /\ epfd = EpollFd
  BY <1>1 DEF Serviced, Booting
<1>4. "listener" \notin Working /\ "dispatch" \notin Working /\ "dispatch" \notin Booting
  BY DEF Working, Finishing, Accepting, Adding, Handling, Destorying, Booting
<1>5. \A i \in Entries : Spare(i)
  BY <1>1, <1>3, <1>4 DEF Serviced, Inside, Serving, Armed, Registered
<1>6. \A i \in Entries : Spare(i)'
  <2> SUFFICES ASSUME NEW i \in Entries PROVE Spare(i)'
    OBVIOUS
  <2>1. CASE Blank(i)
    BY <1>1, <2>1 DEF Spare, Blank
  <2>2. CASE Dropped(i)
    <3>1. slot[i].fd.num \in ConnFds /\ slot'[i] = slot[i]
      BY <1>1, <2>2 DEF Dropped, Unarmed, Taken
    <3>2. Interest(ListenFd, DN_ACCEPT_EVENT, "IN").fd # slot[i].fd.num
      BY <3>1, Numbers DEF Interest
    <3> QED
      BY <1>1, <2>2, <3>1, <3>2 DEF Spare, Dropped, Abandoned, Unarmed, Taken, Registered
  <2> QED
    BY <1>5, <2>1, <2>2 DEF Spare
<1>7. Accounted'
  <2>1. \A n \in ConnFds : \/ files'[n] \in {NoFile, Lost} \cup left.conns
                           \/ \E i \in Entries : slot'[i].fd.num = n
    BY <1>1 DEF Serviced, Accounted, Pending
  <2> QED
    BY <1>1, <2>1 DEF Accounted
<1>8. Owned("main")'
  BY <1>2, <1>4 DEF Owned, Inside
<1>9. th'["sig"].pc = "sigwait"
  BY <1>2 DEF Keeps, Threads, Serviced
<1> QED
  BY <1>1, <1>2, <1>3, <1>4, <1>6, <1>7, <1>8, <1>9 DEF Serviced

LEMMA WaitServed ==
  ASSUME LInv, Serviced, WaitEvent \/ \E x \in ready : DispatchEvent(x) PROVE Serviced'
<1>1. UNCHANGED <<slot, reg, files, live, left, epfd>> /\ th["main"].pc = "dispatch"
  BY DEF WaitEvent, DispatchEvent, kernel, heap, At
<1>2. CASE WaitEvent
  <2>1. Keeps("main") /\ th'["main"].pc = "dispatch"
    BY <1>1, <1>2 DEF WaitEvent, Keeps
  <2> QED
    BY <1>1, <2>1, MainBetween DEF Between, Handling, Pending
<1>3. ASSUME NEW x \in ready, DispatchEvent(x) PROVE Serviced'
  <2>1. th' = [th EXCEPT !["main"].at = x.slot,
                         !["main"].pc = IF slot[x.slot].events = x.events THEN "call"
                                        ELSE "dispatch"]
    BY <1>3 DEF DispatchEvent
  <2>2. Keeps("main") /\ th'["main"].pc \in {"call", "dispatch"}
    BY <2>1, MainTyped DEF Keeps, Thread
  <2> QED
    BY <1>1, <2>2, MainBetween DEF Between, Handling, Pending
<1> QED
  BY <1>2, <1>3

LEMMA CallServed == ASSUME LInv, LInv', Serviced, CallHandler PROVE Serviced'
<1>1. /\ UNCHANGED <<slot, reg, files, live, left, epfd>> /\ th["main"].pc = "call"
      /\ Entry("main").handler # "NULL"
  BY DEF CallHandler, kernel, heap, At
<1>2. PICK l \in {"accept", "request", "respond"} : Goto("main", l)
  BY <1>1, MainTyped DEF CallHandler, Entry, Event
<1>3. Keeps("main") /\ th'["main"].pc = l /\ th'["main"].at = th["main"].at
  BY <1>2, MainGoto DEF Between, Handling
<1>4. CASE l = "accept"
  BY <1>1, <1>3, <1>4, MainBetween DEF Between, Handling, Pending
<1>5. CASE l # "accept"
  <2>1. th'["main"].pc \in Handling
    BY <1>2, <1>3, <1>5 DEF Handling
  <2>2. PICK k \in Entries : k = th["main"].at
    BY <1>3, <2>1 DEF LInv, Threading
  <2>3. "call" \notin Working /\ "call" \notin Booting
    BY DEF Working, Finishing, Accepting, Adding, Handling, Destorying, Booting
  <2>4. Spare(k) \/ Serving(k)
    BY <1>1, <2>3 DEF Serviced, Inside
  <2>5. Dropped(k)' \/ Serving(k)'
    BY <1>1, <2>2, <2>4, Kinds, StillKinds DEF Entry, Spare
  <2>6. Arming(k)'
    BY <1>3, <1>5, <2>5 DEF Arming
  <2>7. Accounted'
    BY <1>1, StillAccounted DEF Serviced, Pending
  <2>8. OthersKept(k)
    BY <1>1, StillOthers
  <2> QED
    BY <1>1, <1>3, <2>1, <2>2, <2>3, <2>6, <2>7, <2>8, MainServes
<1> QED
  BY <1>4, <1>5

(* The entries whose descriptor is not n are kept. *)
LEMMA AllKept ==
  ASSUME NEW n, OnlyNumber(n), UNCHANGED <<slot, left>>,
         \A i \in Entries : Taken(i) => slot[i].fd.num # n
  PROVE  \A i \in Entries : (Spare(i) => Spare(i)') /\ (Serving(i) => Serving(i)')
  BY KeptEntry

LEMMA AcceptServed == ASSUME LInv, Disjoint, Serviced, Accept PROVE Serviced'
<1>1. UNCHANGED <<slot, reg, live, left, epfd>> /\ th["main"].pc = "accept"
  BY DEF Accept, heap, At
<1>2. CASE Goto("main", "dispatch") /\ UNCHANGED files
  <2>1. Keeps("main") /\ th'["main"].pc = "dispatch"
    BY <1>2, MainGoto DEF Between
  <2> QED
    BY <1>1, <1>2, <2>1, MainBetween DEF Between, Handling, Pending
<1>3. ASSUME NEW n \in ConnFds, files[n] = NoFile, files' = [files EXCEPT ![n] = accepts + 1],
             th' = [th EXCEPT !["main"].pc = "scan", !["main"].at = 0,
                              !["main"].fd = Fd(n, accepts + 1)]
      PROVE  Serviced'
  <2>1. Keeps("main") /\ th'["main"].pc = "scan" /\ th'["main"].fd.num = n
    BY <1>3, MainTyped DEF Thread, Keeps, Fd
  <2>2. OnlyNumber(n) /\ \A m \in ConnFds : m # n => files'[m] = files[m]
    BY <1>1, <1>3, MainTyped DEF OnlyNumber, Registered
  <2>3. \A i \in Entries : Taken(i) => slot[i].fd.num # n
    BY <1>3, TakenConn
  <2>4. \A i \in Entries : (Spare(i) => Spare(i)') /\ (Serving(i) => Serving(i)')
    BY <1>1, <2>2, <2>3, AllKept
  <2>5. {"accept", "scan"} \cap (Working \cup Booting) = {}
    BY DEF Working, Finishing, Accepting, Adding, Handling, Destorying, Booting
  <2>6. \A i \in Entries : Spare(i)' \/ Serving(i)'
    BY <1>1, <2>4, <2>5 DEF Serviced, Inside
  <2>7. Accounted'
    <3>1. ASSUME NEW m \in ConnFds
          PROVE  \/ files'[m] \in {NoFile, Lost} \cup left.conns
                 \/ \E i \in Entries : slot'[i].fd.num = m
                 \/ Pending' /\ th'["main"].fd.num = m
      <4>1. CASE m = n
        BY <2>1, <4>1 DEF Pending
      <4>2. CASE m # n
        BY <1>1, <2>2, <4>2 DEF Serviced, Accounted, Pending
      <4> QED
        BY <4>1, <4>2
    <3> QED
      BY <1>1, <3>1 DEF Serviced, Accounted
  <2>8. Owned("main")'
    BY <2>1, <2>5 DEF Owned, Inside
  <2>9. th'["sig"].pc = "sigwait" /\ epfd' = EpollFd
    BY <1>1, <2>1 DEF Keeps, Threads, Serviced
  <2> QED
    BY <2>1, <2>5, <2>6, <2>7, <2>8, <2>9 DEF Serviced
<1> QED
  BY <1>2, <1>3 DEF Accept

LEMMA ScanServed == ASSUME LInv, LInv', Disjoint, Serviced, ScanEntry PROVE Serviced'
<1>1. UNCHANGED <<slot, reg, live, left, epfd>> /\ th["main"].pc = "scan"
  BY DEF ScanEntry, heap, At
<1>2. {"scan", "dispatch"} \cap (Working \cup Booting) = {}
  BY DEF Working, Finishing, Accepting, Adding, Handling, Destorying, Booting
<1>3. \A i \in Entries : Spare(i) \/ Serving(i)
  BY <1>1, <1>2 DEF Serviced, Inside
<1>4. CASE files' = [files EXCEPT ![th["main"].fd.num] = Lost] /\ Goto("main", "dispatch")
  <2>1. PICK n \in ConnFds : n = th["main"].fd.num
    BY <1>1 DEF LInv, Threading
  <2>2. files' = [files EXCEPT ![n] = Lost] /\ Goto("main", "dispatch")
    BY <1>4, <2>1
  <2>3. Keeps("main") /\ th'["main"].pc = "dispatch"
    BY <2>2, MainGoto DEF Between
  <2>4. OnlyNumber(n) /\ files'[n] = Lost /\ \A m \in ConnFds : m # n => files'[m] = files[m]
    BY <1>1, <2>2, MainTyped DEF OnlyNumber, Registered
  <2>5. \A i \in Entries : Taken(i) => slot[i].fd.num # n
    <3>1. files[n] = accepts /\ \A i \in Entries : slot[i].fd.num # 0 => slot[i].fd.conn # accepts
      BY <1>1, <2>1 DEF Disjoint, OneEntry, OpenFiles, Pending
    <3> QED
      BY <3>1, TakenConn DEF Taken
  <2>6. \A i \in Entries : (Spare(i) => Spare(i)') /\ (Serving(i) => Serving(i)')
    BY <1>1, <2>4, <2>5, AllKept
  <2>7. \A i \in Entries : Spare(i)' \/ Serving(i)'
    BY <1>3, <2>6
  <2>8. Accounted'
    <3>1. \A m \in ConnFds : \/ files'[m] \in {NoFile, Lost} \cup left.conns
                            \/ \E i \in Entries : slot'[i].fd.num = m
      BY <1>1, <2>1, <2>4 DEF Serviced, Accounted
    <3> QED
      BY <1>1, <3>1 DEF Serviced, Accounted
  <2>9. Owned("main")'
    BY <1>2, <2>3 DEF Owned, Inside
  <2>10. th'["sig"].pc = "sigwait" /\ epfd' = EpollFd
    BY <1>1, <2>3 DEF Keeps, Threads, Serviced
  <2> QED
    BY <1>2, <2>3, <2>7, <2>8, <2>9, <2>10 DEF Serviced
<1>5. ASSUME th["main"].at < MaxEvents, UNCHANGED files,
             IF Entry("main").status = "Inuse" THEN th' = [th EXCEPT !["main"].at = @ + 1]
             ELSE Goto("main", "initZero")
      PROVE  Serviced'
  <2>1. PICK k \in Entries : k = th["main"].at
    BY <1>5, MainTyped, BoundsAssumption DEF Slots, Entries
  <2>2. UNCHANGED files /\ OthersKept(k)
    BY <1>1, <1>5, StillOthers
  <2>3. CASE slot[k].status = "Inuse"
    <3>1. th' = [th EXCEPT !["main"].at = th["main"].at + 1]
      BY <1>5, <2>1, <2>3 DEF Entry
    <3>2. Keeps("main") /\ th'["main"].pc = "scan" /\ th'["main"].fd = th["main"].fd
      BY <1>1, <3>1, MainTyped DEF Keeps, Thread
    <3>3. Accounted'
      BY <1>1, <2>2, <3>2, StillAccounted DEF Serviced, Pending
    <3>4. Spare(k)' \/ Serving(k)'
      BY <1>1, <1>3, <2>2, StillKinds
    <3> QED
      BY <1>1, <1>2, <2>2, <3>2, <3>3, <3>4, MainNext
  <2>4. CASE slot[k].status # "Inuse"
    <3>1. Goto("main", "initZero")
      BY <1>5, <2>1, <2>4 DEF Entry
    <3>2. /\ Keeps("main") /\ th'["main"].pc = "initZero" /\ th'["main"].at = k
          /\ th'["main"].fd = th["main"].fd
      BY <2>1, <3>1, MainGoto DEF Accepting
    <3>3. Accounted'
      BY <1>1, <2>2, <3>2, StillAccounted DEF Serviced, Pending
    <3>4. Spare(k)'
      BY <1>1, <1>3, <2>2, <2>4, Kinds, StillKinds
    <3>5. Arming(k)'
      BY <3>2, <3>4 DEF Arming, Handling
    <3> QED
      BY <1>1, <1>2, <2>2, <3>2, <3>3, <3>5, MainServes DEF Accepting
  <2> QED
    BY <2>3, <2>4
<1> QED
  BY <1>4, <1>5 DEF ScanEntry

LEMMA AtWork ==
  ASSUME LInv, Serviced, th["main"].pc \in Accepting \cup Adding \cup Handling
  PROVE  /\ th["main"].at \in Entries /\ th["main"].at \in Slots /\ Arming(th["main"].at)
         /\ th["main"].pc \in Working /\ th["main"].pc \notin Booting
         /\ Accounted /\ epfd = EpollFd
<1>1. th["main"].pc \in Working
  BY DEF Working
<1>2. th["main"].pc # "create"
  BY DEF Accepting, Adding, Handling
<1> QED
  BY <1>1, <1>2, MainInside, MainTyped DEF Serviced

LEMMA InitZeroServed == ASSUME LInv, Disjoint, Serviced, InitZero PROVE Serviced'
<1>1. UNCHANGED <<reg, files, live, left, epfd>> /\ th["main"].pc = "initZero"
  BY DEF InitZero, kernel, heap, At
<1>2. PICK k \in Entries : /\ k = th["main"].at /\ Arming(k) /\ k \in Slots
                           /\ th["main"].pc \in Working /\ th["main"].pc \notin Booting
  BY <1>1, AtWork DEF Accepting
<1>3. Spare(k)
  BY <1>1, <1>2 DEF Arming
<1>4. slot'[k] = ZeroEvent /\ \A i \in Entries : i # k => slot'[i] = slot[i]
  BY <1>2, MainTyped DEF InitZero
<1>5. /\ Keeps("main") /\ th'["main"].pc = "initFd" /\ th'["main"].at = k
      /\ th'["main"].fd = th["main"].fd
  BY <1>2, MainGoto DEF InitZero, Accepting
<1>6. /\ slot[k].fd.num \in ConnFds
           => ~Registered(slot[k].fd.num) /\ files[slot[k].fd.num] \in left.conns
      /\ \A f \in Fields : slot[k][f] \in {NULL} \cup left.blocks
  <2>1. CASE Blank(k)
    BY <2>1, Kinds, Numbers
  <2>2. CASE Dropped(k)
    BY <2>2 DEF Dropped, Abandoned, Unarmed, Taken, Fields
  <2> QED
    BY <1>3, <2>1, <2>2 DEF Spare
<1>7. Accounted'
  <2>1. ASSUME NEW x \in reg, x # Interest(ListenFd, DN_ACCEPT_EVENT, "IN")
        PROVE  x.fd \in ConnFds /\ \E i \in Entries : slot'[i].fd.num = x.fd
    <3>1. PICK i \in Entries : slot[i].fd.num = x.fd /\ x.fd \in ConnFds
      BY <1>2, <2>1 DEF Serviced, Accounted
    <3>2. i # k
      BY <1>6, <3>1 DEF Registered
    <3> QED
      BY <1>4, <3>1, <3>2
  <2>2. ASSUME NEW n \in ConnFds
        PROVE  \/ files[n] \in {NoFile, Lost} \cup left.conns
               \/ \E i \in Entries : slot'[i].fd.num = n
               \/ Pending' /\ th'["main"].fd.num = n
    BY <1>1, <1>4, <1>5, <1>6 DEF Serviced, Accounted, Pending
  <2>3. ASSUME NEW p \in live, p \notin {1, 2} \cup left.blocks
        PROVE  \E i \in Entries, f \in Fields : slot'[i][f] = p
    <3>1. PICK i \in Entries, f \in Fields : slot[i][f] = p
      BY <2>3 DEF Serviced, Accounted
    <3>2. p # NULL
      BY MainTyped DEF NULL
    <3>3. i # k
      BY <1>6, <2>3, <3>1, <3>2
    <3> QED
      BY <1>4, <3>1, <3>3
  <2> QED
    BY <1>1, <2>1, <2>2, <2>3 DEF Accounted, Interest
<1>8. Arming(k)'
  BY <1>4, <1>5 DEF Arming, Handling, Blank
<1>9. OthersKept(k)
  <2>1. OnlyNumber(0) /\ 0 \notin ConnFds
    BY <1>1, Numbers DEF OnlyNumber, Registered
  <2> QED
    BY <1>1, <1>4, <2>1, KeptEntries DEF OthersKept
<1> QED
  BY <1>1, <1>2, <1>5, <1>7, <1>8, <1>9, MainServes DEF Accepting

LEMMA InitFdServed == ASSUME LInv, Disjoint, Serviced, InitFd PROVE Serviced'
<1>1. UNCHANGED <<reg, files, live, left, epfd>> /\ th["main"].pc = "initFd"
  BY DEF InitFd, kernel, heap, At
<1>2. PICK k \in Entries : /\ k = th["main"].at /\ Arming(k) /\ k \in Slots
                           /\ th["main"].pc \in Working /\ th["main"].pc \notin Booting
  BY <1>1, AtWork DEF Accepting
<1>3. Blank(k)
  BY <1>1, <1>2 DEF Arming
<1>4. PICK n \in ConnFds : n = th["main"].fd.num
  BY <1>1 DEF LInv, Threading
<1>5. /\ files[n] = th["main"].fd.conn /\ th["main"].fd.conn = accepts /\ accepts > 0
      /\ \A i \in Entries : slot[i].fd.num # 0 => slot[i].fd.conn # accepts
  BY <1>1, <1>4 DEF Disjoint, OneEntry, OpenFiles, Pending
<1>6. \A i \in Entries : slot[i].fd.num # n
  <2> SUFFICES ASSUME NEW i \in Entries, slot[i].fd.num = n PROVE FALSE
    OBVIOUS
  <2>1. Blank(i) \/ Dropped(i) \/ Serving(i)
    BY <1>2, <1>3 DEF Serviced, Inside, Spare
  <2>2. Taken(i) /\ slot[i].fd.num # 0
    BY <1>4, <2>1, Kinds, Numbers
  <2> QED
    BY <1>5, <2>2 DEF Taken
<1>7. ~Registered(n)
  BY <1>4, <1>6, Numbers DEF Serviced, Accounted, Registered, Interest
<1>8. /\ slot' = [slot EXCEPT ![k].handler = "AcceptRequest", ![k].fd = th["main"].fd]
      /\ th' = [th EXCEPT !["main"].pc = "initBuff", !["main"].field = "in"]
  BY <1>2 DEF InitFd
<1>9. /\ \A i \in Entries : i # k => slot'[i] = slot[i]
      /\ slot'[k].fd = th["main"].fd /\ slot'[k].status = slot[k].status
      /\ \A f \in Fields : slot'[k][f] = slot[k][f]
  BY <1>2, <1>8, MainTyped DEF Event, Fields
<1>10. /\ Keeps("main") /\ th'["main"].pc = "initBuff" /\ th'["main"].at = k
  BY <1>2, <1>8, MainTyped DEF Thread, Keeps
<1>11. Fresh(k)'
  BY <1>1, <1>3, <1>4, <1>5, <1>7, <1>9, Kinds DEF Fresh, Unarmed, Taken, Registered
<1>12. \A f \in Fields : slot'[k][f] = NULL
  BY <1>3, <1>9, Kinds
<1>13. Arming(k)'
  BY <1>10, <1>11, <1>12 DEF Arming, Handling
<1>14. Accounted'
  <2>1. ASSUME NEW x \in reg, x # Interest(ListenFd, DN_ACCEPT_EVENT, "IN")
        PROVE  x.fd \in ConnFds /\ \E i \in Entries : slot'[i].fd.num = x.fd
    <3>1. PICK i \in Entries : slot[i].fd.num = x.fd /\ x.fd \in ConnFds
      BY <2>1 DEF Serviced, Accounted
    <3>2. i # k
      BY <1>3, <3>1, Kinds, Numbers
    <3> QED
      BY <1>9, <3>1, <3>2
  <2>2. ASSUME NEW m \in ConnFds
        PROVE  \/ files[m] \in {NoFile, Lost} \cup left.conns
               \/ \E i \in Entries : slot'[i].fd.num = m
    <3>1. CASE m = n
      BY <1>4, <1>9, <3>1
    <3>2. CASE m # n /\ files[m] \notin {NoFile, Lost} \cup left.conns
      <4>1. PICK i \in Entries : slot[i].fd.num = m
        BY <1>4, <3>2 DEF Serviced, Accounted
      <4>2. i # k
        BY <1>3, <4>1, Kinds, Numbers
      <4> QED
        BY <1>9, <4>1, <4>2
    <3> QED
      BY <3>1, <3>2
  <2>3. \A i \in Entries, f \in Fields : slot'[i][f] = slot[i][f]
    BY <1>9
  <2> QED
    BY <1>1, <2>1, <2>2, <2>3 DEF Serviced, Accounted, Interest
<1>15. OthersKept(k)
  <2>1. OnlyNumber(n)
    BY <1>1 DEF OnlyNumber, Registered
  <2> QED
    BY <1>1, <1>6, <1>9, <2>1, KeptEntries DEF OthersKept
<1> QED
  BY <1>1, <1>2, <1>10, <1>13, <1>14, <1>15, MainServes DEF Accepting

(* The entry the main thread is inside gets a block. *)
LEMMA NewServed ==
  ASSUME LInv, Serviced, NEW k \in Entries, k = th["main"].at, NEW f \in Fields,
         th["main"].pc \in Accepting \cup Adding \cup Handling, ~Pending,
         slot[k][f] = NULL, Write("main", f, mallocs + 1), live' = live \cup {mallocs + 1},
         UNCHANGED <<reg, files, left>>
  PROVE  /\ Accounted' /\ OthersKept(k)
         /\ Fresh(k) => Fresh(k)'
         /\ Serving(k) => Serving(k)'
         /\ \A g \in Fields : g # f => slot'[k][g] = slot[k][g]
<1>1. PICK x \in Nat : x = mallocs + 1
  BY MainTyped
<1>2. /\ \A i \in Slots : i # k => slot'[i] = slot[i]
      /\ slot'[k][f] = x /\ \A g \in Fields : g # f => slot'[k][g] = slot[k][g]
      /\ slot'[k].fd = slot[k].fd /\ slot'[k].status = slot[k].status
  <2>1. Write("main", f, x) /\ Typed
    BY <1>1 DEF Write, LInv
  <2>2. /\ \A i \in Slots : i # th["main"].at => slot'[i] = slot[i]
        /\ slot'[th["main"].at][f] = x
        /\ \A g \in Fields : g # f => slot'[th["main"].at][g] = Entry("main")[g]
        /\ slot'[th["main"].at].fd = Entry("main").fd
        /\ slot'[th["main"].at].status = Entry("main").status
    BY <2>1, MainTyped, WriteEffect
  <2> QED
    BY <2>2 DEF Entry
<1>3. \A i \in Entries : i # k => slot'[i] = slot[i]
  BY <1>2, Indices
<1>4. \A i \in Entries : slot'[i].fd = slot[i].fd
  BY <1>2, <1>3
<1>5. ASSUME NEW p \in live, p \notin {1, 2} \cup left.blocks
      PROVE  \E i \in Entries, g \in Fields : slot'[i][g] = p
  <2>1. PICK i \in Entries, g \in Fields : slot[i][g] = p
    BY <1>5 DEF Serviced, Accounted
  <2>2. p # NULL
    BY MainTyped DEF NULL
  <2>3. ~(i = k /\ g = f)
    BY <2>1, <2>2
  <2>4. slot'[i][g] = slot[i][g]
    BY <1>2, <1>3, <2>3
  <2> QED
    BY <2>1, <2>4
<1>6. Accounted'
  <2>1. \A p \in live' : \/ p \in {1, 2} \cup left.blocks
                         \/ \E i \in Entries, g \in Fields : slot'[i][g] = p
    BY <1>1, <1>2, <1>5
  <2> QED
    BY <1>4, <2>1 DEF Serviced, Accounted
<1>7. Taken(k)' = Taken(k) /\ (Registered(slot[k].fd.num)' <=> Registered(slot[k].fd.num))
  BY <1>2 DEF Taken, Registered
<1>8. OthersKept(k)
  <2>1. \A i \in Entries : i # k => (Registered(slot[i].fd.num)' <=> Registered(slot[i].fd.num))
    BY <1>3 DEF Registered
  <2> QED
    BY <1>3, <2>1
       DEF OthersKept, Spare, Blank, Dropped, Abandoned, Serving, Removed, Armed, Unarmed, Taken
<1> QED
  BY <1>2, <1>6, <1>7, <1>8 DEF Fresh, Serving, Armed, Unarmed

LEMMA InitBuffServed == ASSUME LInv, Serviced, InitBuff PROVE Serviced'
<1>1. /\ UNCHANGED <<reg, files, left, epfd>> /\ th["main"].pc = "initBuff" /\ ~Pending
      /\ live' = live \cup {mallocs + 1}
  BY DEF InitBuff, kernel, At, Pending
<1>2. PICK k \in Entries : /\ k = th["main"].at /\ Arming(k) /\ k \in Slots
                           /\ th["main"].pc \in Working /\ th["main"].pc \notin Booting
  BY <1>1, AtWork DEF Accepting
<1>3. PICK f \in {"in", "out"} : f = th["main"].field
  BY <1>1, MainTyped DEF LInv, Threading, Thread, Fields
<1>4. Fresh(k) /\ \A g \in Fields \ FieldsBefore(f) : slot[k][g] = NULL
  BY <1>1, <1>2, <1>3 DEF Arming
<1>5. slot[k][f] = NULL /\ f \in Fields /\ f \notin FieldsBefore(f)
  BY <1>4 DEF Fields, FieldsBefore
<1>6. Write("main", f, mallocs + 1)
  BY <1>3 DEF InitBuff, Write
<1>7. /\ Accounted' /\ OthersKept(k) /\ Fresh(k)'
      /\ \A g \in Fields : g # f => slot'[k][g] = slot[k][g]
  BY <1>1, <1>2, <1>4, <1>5, <1>6, NewServed DEF Accepting
<1>8. CASE f = "in"
  <2>1. th' = [th EXCEPT !["main"].field = "out"]
    BY <1>3, <1>8 DEF InitBuff
  <2>2. /\ Keeps("main") /\ th'["main"].pc = "initBuff" /\ th'["main"].at = k
        /\ th'["main"].field = "out"
    BY <1>1, <1>2, <2>1, MainTyped DEF Thread, Keeps
  <2>3. \A g \in Fields \ FieldsBefore("out") : slot'[k][g] = NULL
    BY <1>4, <1>7, <1>8, FieldOrder
  <2>4. Arming(k)'
    BY <1>7, <2>2, <2>3 DEF Arming, Handling
  <2> QED
    BY <1>1, <1>2, <1>7, <2>2, <2>4, MainServes DEF Accepting
<1>9. CASE f = "out"
  <2>1. th' = [th EXCEPT !["main"].pc = "addEvents", !["main"].ev = "IN"]
    BY <1>3, <1>9 DEF InitBuff
  <2>2. /\ Keeps("main") /\ th'["main"].pc = "addEvents" /\ th'["main"].at = k
    BY <1>2, <2>1, MainTyped DEF Thread, Keeps
  <2>3. Arming(k)'
    BY <1>7, <2>2 DEF Arming, Handling
  <2> QED
    BY <1>1, <1>2, <1>7, <2>2, <2>3, MainServes DEF Adding
<1> QED
  BY <1>3, <1>8, <1>9

LEMMA SetInfoServed == ASSUME LInv, Disjoint, Serviced, SetInfo PROVE Serviced'
<1>1. /\ UNCHANGED <<reg, files, left, epfd>> /\ th["main"].pc = "setInfo" /\ ~Pending
      /\ Goto("main", "setHandler")
  BY DEF SetInfo, kernel, At, Pending
<1>2. PICK k \in Entries : /\ k = th["main"].at /\ Arming(k) /\ k \in Slots
                           /\ th["main"].pc \in Working /\ th["main"].pc \notin Booting
  BY <1>1, AtWork DEF Handling
<1>3. Fresh(k) \/ Serving(k)
  BY <1>1, <1>2, Kinds DEF Arming
<1>4. Keeps("main") /\ th'["main"].pc = "setHandler" /\ th'["main"].at = k
  BY <1>1, <1>2, MainGoto DEF Handling
<1>5. Accounted' /\ OthersKept(k) /\ (Fresh(k)' \/ Serving(k)')
  <2>1. CASE UNCHANGED <<slot, live, mallocs>>
    BY <1>1, <1>3, <2>1, StillAccounted, StillOthers, StillKinds DEF Serviced
  <2>2. CASE Write("main", "arg", mallocs + 1) /\ live' = live \cup {mallocs + 1}
    <3>1. slot[k].arg = NULL
      BY <1>1, <1>2 DEF Disjoint, Requesting, Entry
    <3> QED
      BY <1>1, <1>2, <1>3, <2>2, <3>1, NewServed DEF Handling, Fields
  <2> QED
    BY <2>1, <2>2 DEF SetInfo
<1>6. Arming(k)'
  BY <1>4, <1>5 DEF Arming, Handling
<1> QED
  BY <1>1, <1>2, <1>4, <1>5, <1>6, MainServes DEF Handling

(* The entry the main thread is inside gets a mark. *)
LEMMA MarkServed ==
  ASSUME LInv, Serviced, NEW k \in Entries, k = th["main"].at, NEW x,
         th["main"].pc \in Accepting \cup Adding \cup Handling, ~Pending,
         Write("main", "status", x) \/ Write("main", "events", x) \/ Write("main", "handler", x),
         UNCHANGED <<reg, files, live, left>>
  PROVE  /\ Accounted' /\ OthersKept(k)
         /\ Armed(k) => Armed(k)'
         /\ slot'[k].status = slot[k].status \/ Write("main", "status", x)
         /\ Unarmed(k) => Unarmed(k)'
<1>1. /\ \A i \in Slots : i # k => slot'[i] = slot[i]
      /\ slot'[k].fd = slot[k].fd
      /\ \A g \in Fields : slot'[k][g] = slot[k][g]
      /\ slot'[k].status = slot[k].status \/ Write("main", "status", x)
  BY MainTyped DEF Write, Event, Fields
<1>2. \A i \in Entries : i # k => slot'[i] = slot[i]
  BY <1>1, Indices
<1>3. \A i \in Entries : slot'[i].fd = slot[i].fd /\ \A g \in Fields : slot'[i][g] = slot[i][g]
  BY <1>1, <1>2
<1>4. Accounted'
  BY <1>3, Losing DEF Serviced
<1>5. Taken(k)' = Taken(k) /\ (Registered(slot[k].fd.num)' <=> Registered(slot[k].fd.num))
  BY <1>1 DEF Taken, Registered
<1>6. OthersKept(k)
  <2>1. \A i \in Entries : i # k => (Registered(slot[i].fd.num)' <=> Registered(slot[i].fd.num))
    BY <1>2 DEF Registered
  <2> QED
    BY <1>2, <2>1
       DEF OthersKept, Spare, Blank, Dropped, Abandoned, Serving, Removed, Armed, Unarmed, Taken
<1> QED
  BY <1>1, <1>4, <1>5, <1>6 DEF Armed, Unarmed

LEMMA AddEventsServed == ASSUME LInv, Serviced, AddEvents PROVE Serviced'
<1>1. /\ UNCHANGED <<reg, files, live, left, epfd>> /\ th["main"].pc = "addEvents" /\ ~Pending
      /\ Write("main", "events", th["main"].ev)
  BY DEF AddEvents, kernel, heap, At, Pending
<1>2. PICK k \in Entries : /\ k = th["main"].at /\ Arming(k) /\ k \in Slots
                           /\ th["main"].pc \in Working /\ th["main"].pc \notin Booting
  BY <1>1, AtWork DEF Adding
<1>3. Fresh(k) \/ Serving(k)
  BY <1>1, <1>2 DEF Arming
<1>4. Keeps("main") /\ th'["main"].pc = "addOp" /\ th'["main"].at = k
  BY <1>2, MainGoto DEF AddEvents, Adding
<1>5. PICK x : x = th["main"].ev
  OBVIOUS
<1>6. Write("main", "events", x)
  BY <1>1, <1>5 DEF Write
<1>7. Accounted' /\ OthersKept(k) /\ (Armed(k) => Armed(k)') /\ (Unarmed(k) => Unarmed(k)')
  BY <1>1, <1>2, <1>6, MarkServed DEF Adding
<1>8. slot'[k].status = slot[k].status
  BY <1>1, <1>2, MainTyped DEF Write, Event
<1>9. Fresh(k)' \/ Serving(k)'
  BY <1>3, <1>7, <1>8 DEF Fresh, Serving
<1>10. Arming(k)'
  BY <1>4, <1>9 DEF Arming, Handling
<1> QED
  BY <1>1, <1>2, <1>4, <1>7, <1>10, MainServes DEF Adding

LEMMA AddOpServed == ASSUME LInv, Serviced, AddOp PROVE Serviced'
<1>1. /\ UNCHANGED <<slot, reg, files, live, left, epfd>> /\ th["main"].pc = "addOp" /\ ~Pending
  BY DEF AddOp, kernel, heap, At, Pending
<1>2. PICK k \in Entries : /\ k = th["main"].at /\ Arming(k) /\ k \in Slots
                           /\ th["main"].pc \in Working /\ th["main"].pc \notin Booting
  BY <1>1, AtWork DEF Adding
<1>3. Fresh(k)' \/ Serving(k)'
  BY <1>1, <1>2, StillKinds DEF Arming
<1>4. /\ Keeps("main") /\ th'["main"].at = k
      /\ th'["main"].pc = IF slot[k].status = "Inuse" THEN "mod" ELSE "add"
  BY <1>2, MainTyped DEF AddOp, Thread, Keeps, Entry
<1>5. Arming(k)'
  BY <1>1, <1>3, <1>4 DEF Arming, Handling, Fresh, Serving
<1>6. Accounted' /\ OthersKept(k)
  BY <1>1, StillAccounted, StillOthers DEF Serviced
<1>7. th'["main"].pc \in Adding
  BY <1>4 DEF Adding
<1> QED
  BY <1>1, <1>2, <1>4, <1>5, <1>6, <1>7, MainServes

LEMMA AddCtlServed == ASSUME LInv, Disjoint, Serviced, AddCtl PROVE Serviced'
<1>1. /\ UNCHANGED <<slot, files, live, left, epfd>> /\ th["main"].pc \in {"mod", "add"} /\ ~Pending
  BY DEF AddCtl, heap, At, Pending
<1>2. PICK k \in Entries : /\ k = th["main"].at /\ Arming(k) /\ k \in Slots
                           /\ th["main"].pc \in Working /\ th["main"].pc \notin Booting
  BY <1>1, AtWork DEF Adding
<1>3. Taken(k)
  BY <1>1, <1>2, Kinds DEF Arming, Fresh, Unarmed
<1>4. PICK n \in ConnFds : n = slot[k].fd.num /\ files[n] # NoFile /\ n # 0
  BY <1>3, TakenConn
<1>5. /\ reg' = {x \in reg : x.fd # n} \cup {Interest(n, k, th["main"].ev)}
      /\ Goto("main", "addStatus")
  BY <1>2, <1>4 DEF AddCtl, Entry
<1>6. Keeps("main") /\ th'["main"].pc = "addStatus" /\ th'["main"].at = k
  BY <1>2, <1>5, MainGoto DEF Adding
<1>7. Interest(n, k, th["main"].ev).fd = n
  BY DEF Interest
<1>8. Armed(k)'
  BY <1>1, <1>3, <1>4, <1>5, <1>7 DEF Armed, Taken, Registered
<1>9. Arming(k)'
  BY <1>6, <1>8 DEF Arming, Handling
<1>10. Accounted'
  <2>1. ASSUME NEW x \in reg', x # Interest(ListenFd, DN_ACCEPT_EVENT, "IN")
        PROVE  x.fd \in ConnFds /\ \E i \in Entries : slot[i].fd.num = x.fd
    <3>1. CASE x = Interest(n, k, th["main"].ev)
      BY <1>4, <1>7, <3>1
    <3>2. CASE x # Interest(n, k, th["main"].ev)
      BY <1>5, <2>1, <3>2 DEF Serviced, Accounted
    <3> QED
      BY <3>1, <3>2
  <2>2. \A m \in ConnFds : \/ files[m] \in {NoFile, Lost} \cup left.conns
                          \/ \E i \in Entries : slot[i].fd.num = m
    BY <1>1 DEF Serviced, Accounted
  <2> QED
    BY <1>1, <2>1, <2>2 DEF Serviced, Accounted, Interest
<1>11. OthersKept(k)
  <2>1. OnlyNumber(n)
    BY <1>1, <1>5, <1>7 DEF OnlyNumber, Registered
  <2> QED
    BY <1>1, <1>3, <1>4, <2>1, KeptEntries DEF OthersKept
<1> QED
  BY <1>1, <1>2, <1>6, <1>9, <1>10, <1>11, MainServes DEF Adding

(* An accept fails, and its entry is kept as it is. *)
LEMMA FailsServed == ASSUME LInv, Serviced, Fails PROVE Serviced'
<1>1. /\ UNCHANGED <<slot, reg, files, live, epfd>> /\ Goto("main", "dispatch") /\ ~Pending
      /\ th["main"].pc \in {"initBuff", "mod", "add"}
  BY FailsGoto DEF Pending
<1>2. PICK k \in Entries : /\ k = th["main"].at /\ Arming(k) /\ k \in Slots
                           /\ th["main"].pc \in Working /\ th["main"].pc \notin Booting
  BY <1>1, AtWork DEF Accepting, Adding
<1>3. th["main"].pc # "mod"
  <2> SUFFICES ASSUME th["main"].pc = "mod" PROVE FALSE
    OBVIOUS
  <2>1. ~CtlMay(slot[k].fd.num)
    BY <1>2 DEF Fails, InitBuffFails, AddCtlFails, At, Entry
  <2>2. Registered(slot[k].fd.num)
    BY <1>2 DEF Arming, Serving, Armed
  <2> QED
    BY <2>1, <2>2 DEF CtlMay, At
<1>4. Fresh(k) /\ Abandons
  BY <1>1, <1>2, <1>3 DEF Arming, Fails, InitBuffFails, AddCtlFails, At
<1>5. left' = [conns  |-> left.conns \cup {slot[k].fd.conn},
               blocks |-> left.blocks \cup {slot[k][f] : f \in Fields}]
  BY <1>2, <1>4 DEF Abandons, Entry, Fields
<1>6. left.conns \subseteq left'.conns /\ left.blocks \subseteq left'.blocks
  BY <1>5
<1>7. Dropped(k)'
  <2>1. slot[k].fd.conn \in left'.conns /\ {slot[k].in, slot[k].out, slot[k].arg} \subseteq left'.blocks
    BY <1>5 DEF Fields
  <2> QED
    BY <1>1, <1>4, <2>1 DEF Fresh, Dropped, Abandoned, Unarmed, Taken, Registered
<1>8. OthersKept(k)
  BY <1>1, <1>6
     DEF OthersKept, Spare, Blank, Dropped, Abandoned, Serving, Removed, Armed, Unarmed, Taken,
         Registered
<1>9. Keeps("main") /\ th'["main"].pc = "dispatch"
  BY <1>1, MainGoto DEF Between
<1>10. Accounted'
  BY <1>1, <1>6 DEF Serviced, Accounted
<1>11. "dispatch" \notin Working /\ "dispatch" \notin Booting
  BY Families DEF Booting
<1> QED
  BY <1>1, <1>2, <1>7, <1>8, <1>9, <1>10, <1>11, MainNext DEF Spare

LEMMA AddStatusServed == ASSUME LInv, Serviced, AddStatus PROVE Serviced'
<1>1. /\ UNCHANGED <<reg, files, live, left, epfd>> /\ th["main"].pc = "addStatus" /\ ~Pending
      /\ Write("main", "status", "Inuse")
  BY DEF AddStatus, kernel, heap, At, Pending
<1>2. PICK k \in Entries : /\ k = th["main"].at /\ Arming(k) /\ k \in Slots
                           /\ th["main"].pc \in Working /\ th["main"].pc \notin Booting
  BY <1>1, AtWork DEF Adding
<1>3. Armed(k)
  BY <1>1, <1>2 DEF Arming
<1>4. Keeps("main") /\ th'["main"].pc = "dispatch"
  BY MainGoto DEF AddStatus, Between
<1>5. Accounted' /\ OthersKept(k) /\ (Armed(k) => Armed(k)')
  BY <1>1, <1>2, MarkServed DEF Adding
<1>6. slot'[k].status = "Inuse"
  BY <1>1, <1>2, MainTyped DEF Write, Event
<1>7. Serving(k)'
  BY <1>3, <1>5, <1>6 DEF Serving
<1>8. "dispatch" \notin Working /\ "dispatch" \notin Booting
  BY Families DEF Booting
<1> QED
  BY <1>1, <1>2, <1>4, <1>5, <1>7, <1>8, MainNext

LEMMA ReadHeadServed == ASSUME LInv, Serviced, ReadHead PROVE Serviced'
<1>1. UNCHANGED <<slot, reg, files, live, left, epfd>> /\ th["main"].pc = "request" /\ ~Pending
  BY DEF ReadHead, kernel, heap, At, Pending
<1>2. PICK k \in Entries : /\ k = th["main"].at /\ Arming(k) /\ k \in Slots
                           /\ th["main"].pc \in Working /\ th["main"].pc \notin Booting
  BY <1>1, AtWork DEF Handling
<1>3. CASE Goto("main", "dispatch")
  <2>1. Keeps("main") /\ th'["main"].pc = "dispatch"
    BY <1>3, MainGoto DEF Between
  <2> QED
    BY <1>1, <1>2, <2>1, MainBetween DEF Between, Handling
<1>4. CASE Goto("main", "setInfo")
  <2>1. Keeps("main") /\ th'["main"].pc = "setInfo" /\ th'["main"].at = k
    BY <1>2, <1>4, MainGoto DEF Handling
  <2>2. Dropped(k)' \/ Serving(k)'
    BY <1>1, <1>2, StillKinds DEF Arming
  <2>3. Arming(k)'
    BY <2>1, <2>2 DEF Arming
  <2>4. Accounted' /\ OthersKept(k)
    BY <1>1, StillAccounted, StillOthers DEF Serviced
  <2> QED
    BY <1>1, <1>2, <2>1, <2>3, <2>4, MainServes DEF Handling
<1> QED
  BY <1>3, <1>4 DEF ReadHead

LEMMA SetEventServed == ASSUME LInv, Serviced, SetEvent PROVE Serviced'
<1>1. /\ UNCHANGED <<reg, files, live, left, epfd>> /\ th["main"].pc = "setHandler" /\ ~Pending
      /\ Write("main", "handler", "SendResponse")
      /\ th' = [th EXCEPT !["main"].pc = "addEvents", !["main"].ev = "OUT"]
  BY DEF SetEvent, kernel, heap, At, Pending
<1>2. PICK k \in Entries : /\ k = th["main"].at /\ Arming(k) /\ k \in Slots
                           /\ th["main"].pc \in Working /\ th["main"].pc \notin Booting
  BY <1>1, AtWork DEF Handling
<1>3. Fresh(k) \/ Serving(k)
  BY <1>1, <1>2 DEF Arming
<1>4. Keeps("main") /\ th'["main"].pc = "addEvents" /\ th'["main"].at = k
  BY <1>1, <1>2, MainTyped DEF Thread, Keeps
<1>5. Accounted' /\ OthersKept(k) /\ (Armed(k) => Armed(k)') /\ (Unarmed(k) => Unarmed(k)')
  BY <1>1, <1>2, MarkServed DEF Handling
<1>6. slot'[k].status = slot[k].status
  BY <1>1, <1>2, MainTyped DEF Write, Event
<1>7. Fresh(k)' \/ Serving(k)'
  BY <1>3, <1>5, <1>6 DEF Fresh, Serving
<1>8. Arming(k)'
  BY <1>4, <1>7 DEF Arming, Handling
<1> QED
  BY <1>1, <1>2, <1>4, <1>5, <1>8, MainServes DEF Adding

LEMMA SendResponseServed == ASSUME LInv, Serviced, SendResponse PROVE Serviced'
<1>1. /\ UNCHANGED <<slot, reg, files, live, left, epfd>> /\ th["main"].pc = "respond" /\ ~Pending
      /\ th' = [th EXCEPT !["main"].pc = "del", !["main"].tmp = EpollFd]
  BY DEF SendResponse, kernel, heap, At, Pending
<1>2. PICK k \in Entries : /\ k = th["main"].at /\ Arming(k) /\ k \in Slots
                           /\ th["main"].pc \in Working /\ th["main"].pc \notin Booting
  BY <1>1, AtWork DEF Handling
<1>3. Spare(k)' \/ Serving(k)'
  BY <1>1, <1>2, StillKinds DEF Arming, Spare
<1>4. Keeps("main") /\ th'["main"].pc = "del" /\ th'["main"].at = k /\ th'["main"].tmp = EpollFd
  BY <1>1, <1>2, MainTyped DEF Thread, Keeps
<1>5. Deleting("main", k)' /\ Destroying("main", k)' /\ Arming(k)'
  BY <1>3, <1>4 DEF Deleting, Destroying, Arming, Handling
<1>6. Accounted' /\ OthersKept(k)
  BY <1>1, StillAccounted, StillOthers DEF Serviced
<1>7. "del" \in Working /\ "del" \notin Booting
  BY Families DEF Booting
<1> QED
  BY <1>1, <1>2, <1>4, <1>5, <1>6, <1>7, MainNext

LEMMA MainServed ==
  ASSUME LInv, LInv', Disjoint, Serviced,
         \/ EpollCreate \/ AddListener \/ WaitEvent
         \/ \E x \in ready : DispatchEvent(x)
         \/ CallHandler
         \/ Accept \/ ScanEntry \/ InitZero \/ InitFd \/ InitBuff
         \/ AddEvents \/ AddOp \/ AddCtl \/ AddStatus \/ Fails
         \/ ReadHead \/ SetInfo \/ SetEvent
         \/ SendResponse
  PROVE  Serviced'
  BY EpollCreateServed, AddListenerServed, WaitServed, CallServed, AcceptServed, ScanServed,
     InitZeroServed, InitFdServed, InitBuffServed, AddEventsServed, AddOpServed, AddCtlServed,
     FailsServed, AddStatusServed, ReadHeadServed, SetInfoServed, SetEventServed, SendResponseServed

-----------------------------------------------------------------------------
(* Nothing the table's part of the invariant speaks of changes. *)
LEMMA SameState ==
  ASSUME UNCHANGED <<slot, reg, files, live, left, epfd, th>>
  PROVE  /\ Serviced' = Serviced /\ Accounted' = Accounted
         /\ Owned("sig")' = Owned("sig")
         /\ \A i \in Entries : Swept(i)' = Swept(i) /\ Inside("sig", i)' = Inside("sig", i)
<1>1. Accounted' = Accounted
  BY DEF Accounted, Pending
<1>2. \A i \in Entries : Swept(i)' = Swept(i)
  BY StillKinds DEF Swept
<1>3. \A t, i : Inside(t, i)' = Inside(t, i)
  BY DEF Inside
<1>4. ASSUME NEW t, NEW i \in Entries
      PROVE  (Deleting(t, i)' = Deleting(t, i)) /\ (Destroying(t, i)' = Destroying(t, i))
  BY StillKinds DEF Deleting, Destroying, Registered
<1>5. \A i \in Entries : Arming(i)' = Arming(i)
  BY StillKinds DEF Arming
<1>6. \A t : Owned(t)' = Owned(t)
  BY <1>3, <1>4, <1>5 DEF Owned
<1>7. \A i \in Entries : Spare(i)' = Spare(i) /\ Serving(i)' = Serving(i)
  BY StillKinds
<1> QED
  BY <1>1, <1>2, <1>3, <1>6, <1>7 DEF Serviced

LEMMA InitCInv == Init => CInv
<1> SUFFICES ASSUME Init PROVE CInv
  OBVIOUS
<1>1. LInv
  BY InitLInv
<1>2. th["sig"].pc = "sigwait" /\ th["main"].pc = "create"
  BY DEF Init, Threads
<1>3. "create" \notin Working /\ "create" \in Booting
  BY DEF Working, Finishing, Accepting, Adding, Handling, Destorying, Booting
<1>4. \A i \in Entries : Spare(i)
  BY Indices DEF Init, Spare, Blank
<1>5. Accounted
  BY DEF Init, Accounted
<1>6. Owned("main")
  BY <1>2, <1>3 DEF Owned, Inside
<1>7. Serviced
  BY <1>2, <1>4, <1>5, <1>6 DEF Serviced, Init
<1> QED
  BY <1>7 DEF CInv, MainAlone, Init

LEMMA NeverUnsent ==
  ASSUME CInv, Next
  PROVE  /\ signals' \in [Signals -> {"unsent", "pending", "taken"}]
         /\ NoneSent' => NoneSent
<1>1. CASE UNCHANGED signals
  BY <1>1 DEF CInv, NoneSent
<1>2. ASSUME NEW s \in Signals, NEW x \in {"pending", "taken"}, signals' = [signals EXCEPT ![s] = x]
      PROVE  /\ signals' \in [Signals -> {"unsent", "pending", "taken"}]
             /\ NoneSent' => NoneSent
  <2>1. signals \in [Signals -> {"unsent", "pending", "taken"}]
    BY DEF CInv
  <2>2. signals' \in [Signals -> {"unsent", "pending", "taken"}]
    BY <1>2, <2>1
  <2>3. ASSUME NEW r \in Signals \ {"HUP"}, signals'[r] = "unsent" PROVE signals[r] = "unsent"
    BY <1>2, <2>1, <2>3
  <2> QED
    BY <2>2, <2>3 DEF NoneSent
<1> QED
  BY <1>1, <1>2 DEF Next, SigStep, MainStep, KillStep, Sig, Main, SigWait, Exit, Crash, Kill

(* A block a thread is about to free, with the other at rest, is allocated. *)
LEMMA NoFault ==
  ASSUME LInv, Disjoint, SigAlone, Fault("sig") PROVE FALSE
<1>1. th["sig"].pc = "free" /\ th["sig"].tmp \notin live
  BY SigPlace DEF Fault, At, InDel, InDestory, Destorying
<1>2. PICK k \in Slots, f \in Fields : k = th["sig"].at /\ f = th["sig"].field
  BY SigPlace, Indices DEF Thread
<1>3. slot[k][f] # NULL /\ th["sig"].tmp = slot[k][f]
  BY <1>1, <1>2, SigPlace DEF Disjoint, Freeing, Entry
<1>4. PICK u \in Threads : th[u].pc = "clear"
  BY <1>1, <1>3 DEF Disjoint, Allocated, At
<1> QED
  BY <1>1, <1>4 DEF Threads, SigAlone, At

LEMMA SigStepAlone == ASSUME LInv, LInv', Disjoint, SigAlone, CInv, SigStep PROVE SigAlone'
<1>1. stopped = "no" /\ overlapped' = (overlapped \/ Overlap')
  BY DEF SigStep, Noted
<1>2. ~NoneSent'
  BY NeverUnsent DEF Next, SigAlone
<1>3. ASSUME th'["main"].pc = "dispatch" PROVE ~overlapped'
  <2>1. ~Overlap'
    BY <1>3 DEF Overlap, Destorying
  <2> QED
    BY <1>1, <2>1 DEF SigAlone
<1>4. ASSUME NEW s \in Signals, SigWait(s) PROVE SigAlone'
  <2>1. UNCHANGED <<slot, reg, files, live, left, epfd, error, stopped>> /\ th["sig"].pc = "sigwait"
    BY <1>4 DEF SigWait, kernel, heap, At
  <2>2. CASE th' = th
    BY <1>1, <1>2, <1>3, <2>1, <2>2, SameState DEF SigAlone, At
  <2>3. CASE th' = [th EXCEPT !["sig"].pc = "del", !["sig"].at = 0, !["sig"].tmp = epfd]
    <3>1. /\ th'["main"] = th["main"] /\ th'["sig"].pc = "del" /\ th'["sig"].at = 0
          /\ th'["sig"].tmp = EpollFd
      BY <2>3, MainTyped, SigPlace DEF Thread, SigAlone
    <3>2. \A i \in Entries : Spare(i) \/ Serving(i)
      BY <2>1, Families DEF SigAlone, Swept, Inside
    <3>3. \A i \in Entries : Spare(i)' \/ Serving(i)'
      BY <2>1, <3>2, StillKinds
    <3>4. Owned("sig")'
      BY <3>1, <3>3 DEF Owned, Inside, Deleting, Destroying
    <3>5. \A i \in Entries : Swept(i)'
      <4>1. \A i \in Entries : ~(i < 0)
        BY DEF Entries
      <4> QED
        BY <3>1, <3>3, <4>1, Families DEF Swept
    <3>6. Accounted'
      BY <2>1, <3>1, StillAccounted DEF SigAlone, Pending
    <3> QED
      BY <1>1, <1>2, <1>3, <2>1, <3>1, <3>4, <3>5, <3>6 DEF SigAlone, At
  <2> QED
    BY <1>4, <2>2, <2>3 DEF SigWait
<1>5. CASE FinishEvent("sig") /\ UNCHANGED <<mallocs, left, accepts, epfd, ready, signals, stopped>>
  <2>1. /\ Accounted' /\ UNCHANGED <<error, epfd>> /\ th'["main"] = th["main"]
        /\ Owned("sig")' /\ \A i \in Entries : Inside("sig", i)' \/ Swept(i)'
    BY <1>5, SigFinishing
  <2> QED
    BY <1>1, <1>2, <1>3, <1>5, <2>1 DEF SigAlone, At
<1>6. CASE Exit
  <2>1. /\ UNCHANGED <<slot, reg, files, live, left, epfd, th, error>> /\ th["sig"].pc = "exit"
        /\ stopped' = "without"
    BY <1>6 DEF Exit, kernel, heap, At, AllResult
  <2> QED
    BY <1>2, <1>3, <2>1, SameState DEF SigAlone, At
<1>7. CASE Crash("sig")
  BY <1>7, NoFault DEF Crash
<1> QED
  BY <1>4, <1>5, <1>6, <1>7 DEF SigStep, Sig

LEMMA CInvStep == LInv /\ HInv /\ CInv /\ [Next]_vars => CInv'
<1> SUFFICES ASSUME LInv, HInv, CInv, [Next]_vars PROVE CInv'
  OBVIOUS
<1>1. LInv'
  BY LInvStep
<1>2. CASE UNCHANGED vars
  <2>1. /\ UNCHANGED <<slot, reg, files, live, left, epfd, th>>
        /\ UNCHANGED <<calm, overlapped, error, signals, stopped>>
    BY <1>2 DEF vars, kernel, heap
  <2>2. NoneSent' = NoneSent /\ At("main", "dispatch")' = At("main", "dispatch")
        /\ At("sig", "exit")' = At("sig", "exit")
    BY <2>1 DEF NoneSent, At
  <2> QED
    BY <2>1, <2>2, SameState DEF CInv, MainAlone, SigAlone
<1>3. ASSUME Next PROVE CInv'
  <2>1. /\ signals' \in [Signals -> {"unsent", "pending", "taken"}]
        /\ NoneSent' => NoneSent
    BY <1>3, NeverUnsent
  <2>2. stopped = "no" /\ overlapped' = (overlapped \/ Overlap')
    BY <1>3 DEF Next, SigStep, MainStep, KillStep, Noted
  <2>3. ASSUME NoneSent PROVE Serviced /\ ~calm /\ ~overlapped /\ ~error /\ Disjoint
    BY <2>3 DEF CInv, MainAlone, HInv
  <2>4. ASSUME Serviced', ~overlapped PROVE ~overlapped'
    <3>1. ~Overlap'
      BY <2>4 DEF Serviced, Overlap, Destorying
    <3> QED
      BY <2>2, <2>4, <3>1
  <2>5. CASE SigStep
    <3>1. calm' = calm
      BY <2>5 DEF SigStep
    <3>2. ASSUME NoneSent' PROVE MainAlone'
      <4>1. th["sig"].pc = "sigwait"
        BY <2>1, <2>3, <3>2 DEF Serviced
      <4>2. PICK s \in Signals : SigWait(s)
        BY <2>5, <4>1, SigPlace DEF SigStep, Sig, FinishEvent, DelTest, DelCtl, DelStatus,
           DestoryTest, TestPointer, LoadPointer, Free, ClearPointer, LoadFd, CloseFd, ZeroEntry,
           Exit, Crash, Fault, At
      <4>3. s = "HUP"
        BY <2>1, <3>2, <4>2 DEF SigWait, NoneSent
      <4>4. UNCHANGED <<slot, reg, files, live, left, epfd, th, error>>
        BY <4>2, <4>3 DEF SigWait, kernel, heap
      <4>5. Serviced'
        BY <2>1, <2>3, <3>2, <4>4, SameState
      <4> QED
        BY <2>1, <2>3, <2>4, <3>1, <3>2, <4>4, <4>5 DEF MainAlone
    <3>3. ASSUME calm' PROVE SigAlone'
      <4>1. SigAlone /\ Disjoint
        BY <3>1, <3>3 DEF CInv, HInv, SigAlone
      <4> QED
        BY <1>1, <2>5, <4>1, SigStepAlone
    <3> QED
      BY <2>1, <3>2, <3>3 DEF CInv
  <2>6. CASE MainStep
    <3>1. ~calm'
      BY <2>6 DEF MainStep
    <3>2. ASSUME NoneSent' PROVE MainAlone'
      <4>1. Serviced /\ ~overlapped /\ ~error /\ Disjoint
        BY <2>1, <2>3, <3>2
      <4>2. CASE FinishEvent("main") /\ UNCHANGED epfd
        BY <2>4, <3>1, <4>1, <4>2, MainFinishing DEF MainAlone
      <4>3. CASE Crash("main")
        <5>1. UNCHANGED <<slot, reg, files, live, left, epfd, th, error>>
          BY <4>3 DEF Crash, kernel, heap
        <5> QED
          BY <2>4, <3>1, <4>1, <5>1, SameState DEF MainAlone
      <4>4. ASSUME Serviced', UNCHANGED error PROVE MainAlone'
        BY <2>4, <3>1, <4>1, <4>4 DEF MainAlone
      <4> QED
        BY <1>1, <2>6, <4>1, <4>2, <4>3, <4>4, MainServed DEF MainStep, Main, Fails
    <3> QED
      BY <2>1, <3>1, <3>2 DEF CInv
  <2>7. CASE KillStep
    <3>1. PICK s \in Signals :
            Kill(s) /\ calm' = (IF s # "HUP" /\ NoneSent THEN Waiting ELSE calm)
      BY <2>7 DEF KillStep
    <3>2. /\ UNCHANGED <<slot, reg, files, live, left, epfd, th, error, stopped>>
          /\ signals' = [signals EXCEPT ![s] = "pending"]
      BY <3>1 DEF Kill, kernel, heap
    <3>3. s # "HUP" => ~NoneSent'
      BY <3>2 DEF CInv, NoneSent
    <3>4. ASSUME NoneSent' PROVE MainAlone'
      <4>1. calm' = calm
        BY <3>1, <3>3, <3>4
      <4>2. Serviced'
        BY <2>1, <2>3, <3>2, <3>4, SameState
      <4> QED
        BY <2>1, <2>3, <2>4, <3>2, <3>4, <4>1, <4>2 DEF MainAlone
    <3>5. ASSUME calm' PROVE SigAlone'
      <4>1. CASE s # "HUP" /\ NoneSent
        <5>1. At("main", "dispatch") /\ Serviced /\ ~overlapped /\ ~error
          BY <2>3, <3>1, <3>5, <4>1 DEF Waiting
        <5>2. Serviced' /\ ~NoneSent'
          BY <3>2, <3>3, <4>1, <5>1, SameState
        <5>3. \A i \in Entries : Swept(i)'
          <6>1. \A i \in Entries : Spare(i) \/ Serving(i)
            BY <5>1, Families DEF Serviced, Inside, At
          <6>2. \A i \in Entries : Spare(i)' \/ Serving(i)'
            BY <3>2, <6>1, StillKinds
          <6> QED
            BY <5>2, <6>2, Families DEF Swept, Serviced
        <5>4. Owned("sig")'
          BY <5>2, Families DEF Owned, Inside, Serviced
        <5> QED
          BY <2>2, <2>4, <3>2, <5>1, <5>2, <5>3, <5>4 DEF SigAlone, At, Serviced
      <4>2. CASE ~(s # "HUP" /\ NoneSent)
        <5>1. SigAlone
          BY <3>1, <3>5, <4>2 DEF CInv
        <5>2. ~NoneSent' /\ ~overlapped'
          BY <2>1, <2>2, <3>2, <5>1 DEF SigAlone, Overlap, At, Destorying
        <5> QED
          BY <2>2, <3>2, <5>1, <5>2, SameState DEF SigAlone, At
      <4> QED
        BY <4>1, <4>2
    <3> QED
      BY <2>1, <3>4, <3>5 DEF CInv
  <2> QED
    BY <1>3, <2>5, <2>6, <2>7 DEF Next
<1> QED
  BY <1>2, <1>3

(* A signal that finds the main thread waiting for events, with nothing    *)
(* reported, makes the loops of DN_DelAllEvent and DN_DestoryAllEvent undo *)
(* what the handlers have built up, whatever the connections were doing    *)
(* and however many there are: no EPOLL_CTL_DEL fails, every block is      *)
(* freed and every descriptor closed that an entry in use or unused had.   *)
(* Left are the listener, the connections that got no entry, and what an   *)
(* accept that failed in DN_InitEvent or DN_AddEvent has left in a Void    *)
(* entry; and no block or descriptor of any other connection is in those.  *)
THEOREM StopsClean == Spec => []CleanStop
<1>1. ASSUME LInv, CInv PROVE CleanStop
  <2> SUFFICES ASSUME stopped # "no", calm
               PROVE  /\ stopped = "without" /\ ~error
                      /\ \A i \in Slots \ {DN_ACCEPT_EVENT} : slot[i] = ZeroEvent \/ Abandoned(i)
                      /\ reg = {Interest(ListenFd, DN_ACCEPT_EVENT, "IN")}
                      /\ \A n \in ConnFds : files[n] \in {NoFile, Lost} \cup left.conns
                      /\ \A p \in live :
                           \/ p \in {slot[DN_ACCEPT_EVENT].in, slot[DN_ACCEPT_EVENT].out}
                           \/ p \in left.blocks
    BY DEF CleanStop
  <2>1. SigAlone
    BY <1>1 DEF CInv
  <2>2. stopped = "without" /\ th["sig"].pc = "exit" /\ ~error /\ th["main"].pc = "dispatch"
    BY <2>1 DEF SigAlone, At
  <2>3. \A i \in Entries : Blank(i) \/ Dropped(i)
    BY <2>1, <2>2, Families DEF SigAlone, Inside, Swept, Spare
  <2>4. \A i \in Slots \ {DN_ACCEPT_EVENT} : slot[i] = ZeroEvent \/ Abandoned(i)
    BY <2>3, Indices DEF Blank, Dropped
  <2>5. \A i \in Entries :
          /\ slot[i].fd.num \in ConnFds
               => ~Registered(slot[i].fd.num) /\ files[slot[i].fd.num] \in left.conns
          /\ \A f \in Fields : slot[i][f] \in {NULL} \cup left.blocks
    <3> SUFFICES ASSUME NEW i \in Entries
                 PROVE  /\ slot[i].fd.num \in ConnFds
                             => ~Registered(slot[i].fd.num) /\ files[slot[i].fd.num] \in left.conns
                        /\ \A f \in Fields : slot[i][f] \in {NULL} \cup left.blocks
      OBVIOUS
    <3>1. CASE Blank(i)
      BY <3>1, Kinds, Numbers
    <3>2. CASE Dropped(i)
      BY <3>2 DEF Dropped, Abandoned, Unarmed, Taken, Fields
    <3> QED
      BY <2>3, <3>1, <3>2
  <2>6. /\ Interest(ListenFd, DN_ACCEPT_EVENT, "IN") \in reg
        /\ slot[DN_ACCEPT_EVENT].in = 1 /\ slot[DN_ACCEPT_EVENT].out = 2
    BY <1>1, <2>2 DEF LInv, Listening, Booting
  <2>7. \A x \in reg : x = Interest(ListenFd, DN_ACCEPT_EVENT, "IN")
    BY <2>1, <2>5 DEF SigAlone, Accounted, Registered
  <2>8. \A n \in ConnFds : files[n] \in {NoFile, Lost} \cup left.conns
    BY <2>1, <2>2, <2>5 DEF SigAlone, Accounted, Pending
  <2>9. \A p \in live : p \in {1, 2} \cup left.blocks
    BY <1>1, <2>1, <2>5, MainTyped DEF SigAlone, Accounted, NULL
  <2> QED
    BY <2>2, <2>4, <2>6, <2>7, <2>8, <2>9
<1>2. Init => LInv /\ HInv /\ CInv
  BY InitLInv, InitHInv, InitCInv
<1>3. LInv /\ HInv /\ CInv /\ [Next]_vars => LInv' /\ HInv' /\ CInv'
  BY LInvStep, HInvStep, CInvStep
<1> QED
  BY <1>1, <1>2, <1>3, PTL DEF Spec

-----------------------------------------------------------------------------
(* What a thread holds in a register is a block, or the epoll set. *)
Held == \A t \in Threads : th[t].tmp \in 0 .. mallocs + 1

LEMMA AfterTmp ==
  ASSUME Typed, NEW t \in Threads,
         AfterDelEvent(t) \/ AfterDestoryEvent(t) \/ AfterField(t) \/ \E l : Goto(t, l)
  PROVE  \A u \in Threads : th'[u].tmp = th[u].tmp
<1>1. th \in [Threads -> Thread]
  BY DEF Typed
<1>2. CASE AfterDelEvent(t)
  BY <1>1, <1>2 DEF AfterDelEvent, Thread
<1>3. CASE AfterDestoryEvent(t)
  BY <1>1, <1>3 DEF AfterDestoryEvent, Thread
<1>4. CASE AfterField(t)
  BY <1>1, <1>4 DEF AfterField, Thread
<1>5. CASE \E l : Goto(t, l)
  BY <1>1, <1>5 DEF Goto, Thread
<1> QED
  BY <1>2, <1>3, <1>4, <1>5

LEMMA FinishHeld ==
  ASSUME LInv, Held, NEW t \in Threads, FinishEvent(t), UNCHANGED mallocs
  PROVE  Held'
<1>1. Typed /\ th \in [Threads -> Thread] /\ mallocs \in Nat
  BY DEF LInv, Typed
<1>2. CASE \A u \in Threads : th'[u].tmp = th[u].tmp
  BY <1>2 DEF Held
<1>3. CASE DelTest(t) \/ DelCtl(t) \/ DelStatus(t)
  BY <1>1, <1>2, <1>3, AfterTmp DEF DelTest, DelCtl, DelStatus
<1>4. CASE DestoryTest(t)
  <2>1. CASE th' = [th EXCEPT ![t].pc = "test", ![t].field = "in"]
    BY <1>1, <1>2, <2>1 DEF Thread
  <2> QED
    BY <1>1, <1>2, <1>4, <2>1, AfterTmp DEF DestoryTest
<1>5. CASE TestPointer(t) \/ Free(t) \/ ClearPointer(t)
  BY <1>1, <1>2, <1>5, AfterTmp DEF TestPointer, Free, ClearPointer
<1>6. CASE LoadPointer(t)
  <2>1. PICK i \in Slots, f \in Fields : i = th[t].at /\ f = th[t].field
    BY <1>1 DEF Thread
  <2>2. slot[i][f] \in 0 .. mallocs
    BY Blocks
  <2>3. PICK p \in 0 .. mallocs : p = slot[i][f]
    BY <2>2
  <2>4. th' = [th EXCEPT ![t].pc = "free", ![t].tmp = p]
    BY <1>6, <2>1, <2>3 DEF LoadPointer, Entry
  <2>5. \A u \in Threads : th'[u].tmp = IF u = t THEN p ELSE th[u].tmp
    BY <1>1, <2>4 DEF Thread
  <2> QED
    BY <1>1, <2>5 DEF Held
<1>7. CASE LoadFd(t)
  <2>1. th' = [th EXCEPT ![t].pc = IF Entry(t).fd.num > 0 THEN "close" ELSE "zero",
                         ![t].fd = Entry(t).fd]
    BY <1>7 DEF LoadFd
  <2> QED
    BY <1>1, <1>2, <2>1 DEF Thread
<1>8. CASE CloseFd(t)
  BY <1>1, <1>2, <1>8, AfterTmp DEF CloseFd
<1>9. CASE ZeroEntry(t)
  BY <1>1, <1>2, <1>9, AfterTmp DEF ZeroEntry
<1> QED
  BY <1>3, <1>4, <1>5, <1>6, <1>7, <1>8, <1>9 DEF FinishEvent

LEMMA MainHeld ==
  ASSUME LInv, Held,
         \/ EpollCreate \/ AddListener \/ WaitEvent
         \/ \E x \in ready : DispatchEvent(x)
         \/ CallHandler
         \/ Accept \/ ScanEntry \/ InitZero \/ InitFd \/ InitBuff \/ Fails
         \/ AddEvents \/ AddOp \/ AddCtl \/ AddStatus
         \/ ReadHead \/ SetInfo \/ SetEvent
         \/ SendResponse
  PROVE  Held'
<1>1. Typed /\ th \in [Threads -> Thread] /\ mallocs \in Nat /\ "main" \in Threads
  BY MainTyped DEF LInv
<1>2. ASSUME mallocs' \in Nat, mallocs' >= mallocs,
             \A u \in Threads : th'[u].tmp = th[u].tmp \/ th'[u].tmp = EpollFd
      PROVE  Held'
  BY <1>1, <1>2 DEF Held, EpollFd
<1>3. ASSUME mallocs' \in Nat, mallocs' >= mallocs, \E l : Goto("main", l) PROVE Held'
  BY <1>1, <1>2, <1>3, AfterTmp
<1>4. CASE EpollCreate \/ CallHandler \/ InitZero \/ AddEvents \/ AddCtl \/ AddStatus \/ ReadHead
  <2>1. UNCHANGED mallocs
    BY <1>4 DEF EpollCreate, CallHandler, InitZero, AddEvents, AddCtl, AddStatus, ReadHead, heap
  <2>2. \E l : Goto("main", l)
    BY <1>4 DEF EpollCreate, CallHandler, InitZero, AddEvents, AddCtl, AddStatus, ReadHead
  <2> QED
    BY <1>1, <1>3, <2>1, <2>2
<1>5. CASE AddListener
  BY <1>1, <1>3, <1>5 DEF AddListener, LInv, Listening, Booting, At
<1>6. CASE WaitEvent
  BY <1>1, <1>2, <1>6 DEF WaitEvent, heap
<1>7. ASSUME NEW x \in ready, DispatchEvent(x) PROVE Held'
  <2>1. th' = [th EXCEPT !["main"].at = x.slot,
                         !["main"].pc = IF slot[x.slot].events = x.events THEN "call"
                                        ELSE "dispatch"]
    BY <1>7 DEF DispatchEvent
  <2>2. UNCHANGED mallocs
    BY <1>7 DEF DispatchEvent, heap
  <2>3. PICK i, l : th' = [th EXCEPT !["main"].at = i, !["main"].pc = l]
    BY <2>1
  <2>4. \A u \in Threads : th'[u].tmp = th[u].tmp
    BY <1>1, <2>3 DEF Thread
  <2> QED
    BY <1>1, <1>2, <2>2, <2>4
<1>8. CASE Accept
  <2>1. ASSUME NEW n \in ConnFds,
               th' = [th EXCEPT !["main"].pc = "scan", !["main"].at = 0,
                                !["main"].fd = Fd(n, accepts + 1)]
        PROVE  \A u \in Threads : th'[u].tmp = th[u].tmp
    BY <1>1, <2>1 DEF Thread
  <2>2. UNCHANGED mallocs
    BY <1>8 DEF Accept, heap
  <2>3. CASE Goto("main", "dispatch")
    BY <1>1, <1>3, <2>2, <2>3
  <2> QED
    BY <1>1, <1>2, <1>8, <2>1, <2>2, <2>3 DEF Accept
<1>9. CASE ScanEntry
  <2>1. UNCHANGED mallocs
    BY <1>9 DEF ScanEntry, heap
  <2>2. CASE \E l : Goto("main", l)
    BY <1>1, <1>3, <2>1, <2>2
  <2>3. CASE th' = [th EXCEPT !["main"].at = @ + 1]
    <3>1. \A u \in Threads : th'[u].tmp = th[u].tmp
      BY <1>1, <2>3 DEF Thread
    <3> QED
      BY <1>1, <1>2, <2>1, <3>1
  <2> QED
    BY <1>9, <2>2, <2>3 DEF ScanEntry
<1>10. CASE InitFd
  <2>1. UNCHANGED mallocs /\ th' = [th EXCEPT !["main"].pc = "initBuff", !["main"].field = "in"]
    BY <1>10 DEF InitFd, heap
  <2>2. \A u \in Threads : th'[u].tmp = th[u].tmp
    BY <1>1, <2>1 DEF Thread
  <2> QED
    BY <1>1, <1>2, <2>1, <2>2
<1>11. CASE InitBuff
  <2>1. mallocs' = mallocs + 1 /\ \A u \in Threads : th'[u].tmp = th[u].tmp
    BY <1>1, <1>11 DEF InitBuff, Thread
  <2> QED
    BY <1>1, <1>2, <2>1
<1>12. CASE AddOp
  <2>1. UNCHANGED mallocs
        /\ th' = [th EXCEPT !["main"].pc = IF Entry("main").status = "Inuse" THEN "mod" ELSE "add"]
    BY <1>12 DEF AddOp, heap
  <2>2. \A u \in Threads : th'[u].tmp = th[u].tmp
    BY <1>1, <2>1 DEF Thread
  <2> QED
    BY <1>1, <1>2, <2>1, <2>2
<1>13. CASE SetInfo
  BY <1>1, <1>3, <1>13 DEF SetInfo, heap
<1>14. CASE SetEvent
  <2>1. UNCHANGED mallocs /\ th' = [th EXCEPT !["main"].pc = "addEvents", !["main"].ev = "OUT"]
    BY <1>14 DEF SetEvent, heap
  <2>2. \A u \in Threads : th'[u].tmp = th[u].tmp
    BY <1>1, <2>1 DEF Thread
  <2> QED
    BY <1>1, <1>2, <2>1, <2>2
<1>15. CASE SendResponse
  <2>1. UNCHANGED mallocs /\ th' = [th EXCEPT !["main"].pc = "del", !["main"].tmp = EpollFd]
    BY <1>15 DEF SendResponse, heap
  <2>2. \A u \in Threads : th'[u].tmp = th[u].tmp \/ th'[u].tmp = EpollFd
    BY <1>1, <2>1 DEF Thread
  <2> QED
    BY <1>1, <1>2, <2>1, <2>2
<1>16. CASE Fails
  BY <1>1, <1>3, <1>16, FailsGoto
<1> QED
  BY <1>4, <1>5, <1>6, <1>7, <1>8, <1>9, <1>10, <1>11, <1>12, <1>13, <1>14, <1>15, <1>16

LEMMA HeldStep == LInv /\ Held /\ [Next]_vars => Held'
<1> SUFFICES ASSUME LInv, Held, [Next]_vars PROVE Held'
  OBVIOUS
<1>1. mallocs \in Nat /\ th \in [Threads -> Thread] /\ epfd \in {0, EpollFd}
  BY DEF LInv, Typed
<1>2. ASSUME UNCHANGED <<th, mallocs>> PROVE Held'
  BY <1>2 DEF Held
<1>3. ASSUME NEW s \in Signals, SigWait(s) PROVE Held'
  <2>1. UNCHANGED mallocs
    BY <1>3 DEF SigWait, heap
  <2>2. \A u \in Threads : th'[u].tmp \in {th[u].tmp, epfd}
    BY <1>1, <1>3 DEF SigWait, Thread
  <2> QED
    BY <1>1, <2>1, <2>2 DEF Held, EpollFd
<1>4. ASSUME NEW t \in Threads, Crash(t) PROVE Held'
  BY <1>2, <1>4 DEF Crash, heap
<1>5. CASE SigStep
  BY <1>2, <1>3, <1>4, <1>5, FinishHeld DEF SigStep, Sig, Exit, heap, Threads
<1>6. CASE MainStep
  BY <1>4, <1>6, FinishHeld, MainHeld DEF MainStep, Main, Fails, Threads
<1>7. CASE KillStep
  BY <1>2, <1>7 DEF KillStep, Kill, heap
<1>8. CASE UNCHANGED vars
  BY <1>2, <1>8 DEF vars, heap
<1> QED
  BY <1>5, <1>6, <1>7, <1>8 DEF Next

(* What is left in entries is a connection that was accepted, and blocks.  *)
LeftTyped == left \in [conns : SUBSET (0 .. Accepts), blocks : SUBSET (0 .. mallocs)]

LEMMA LeftStep == LInv /\ LeftTyped /\ [Next]_vars => LeftTyped'
<1> SUFFICES ASSUME LInv, LeftTyped, [Next]_vars PROVE LeftTyped'
  OBVIOUS
<1>1. mallocs \in Nat
  BY MainTyped
<1>2. ASSUME UNCHANGED left, mallocs' \in {mallocs, mallocs + 1} PROVE LeftTyped'
  <2>1. 0 .. mallocs \subseteq 0 .. mallocs'
    BY <1>1, <1>2
  <2> QED
    BY <1>2, <2>1 DEF LeftTyped
<1>3. ASSUME Abandons, UNCHANGED mallocs, th["main"].at \in Entries PROVE LeftTyped'
  <2>1. PICK i \in Slots : i = th["main"].at
    BY <1>3, Indices
  <2>2. slot[i].fd.conn \in 0 .. Accepts
    BY <1>1 DEF LInv, Typed, Event, Descriptor
  <2>3. {slot[i][f] : f \in {"in", "out", "arg"}} \subseteq 0 .. mallocs
    BY Blocks DEF Fields
  <2>4. left' = [conns  |-> left.conns \cup {slot[i].fd.conn},
                 blocks |-> left.blocks \cup {slot[i][f] : f \in {"in", "out", "arg"}}]
    BY <1>3, <2>1 DEF Abandons, Entry
  <2> QED
    BY <1>3, <2>2, <2>3, <2>4 DEF LeftTyped
<1>4. CASE Fails
  <2>1. UNCHANGED left \/ Abandons
    BY <1>4 DEF Fails, InitBuffFails, AddCtlFails
  <2>2. UNCHANGED mallocs /\ th["main"].at \in Entries
    BY <1>4, FailsGoto DEF LInv, Threading, Accepting, Adding
  <2> QED
    BY <1>2, <1>3, <2>1, <2>2
<1>5. CASE InitBuff \/ SetInfo
  BY <1>2, <1>5 DEF InitBuff, SetInfo
<1>6. CASE AddListener
  <2>1. mallocs = 0 /\ mallocs' = 2 /\ UNCHANGED left
    BY <1>6 DEF AddListener, LInv, Listening, Booting, At
  <2> QED
    BY <2>1 DEF LeftTyped
<1>7. CASE UNCHANGED <<left, mallocs>>
  BY <1>2, <1>7
<1>8. CASE MainStep
  <2>1. \/ Fails \/ InitBuff \/ SetInfo \/ AddListener
        \/ UNCHANGED <<left, mallocs>>
    BY <1>8 DEF MainStep, Main, Fails, EpollCreate, WaitEvent, DispatchEvent, CallHandler, Accept,
       ScanEntry, InitZero, InitFd, AddEvents, AddOp, AddCtl, AddStatus, ReadHead, SetEvent,
       SendResponse, Crash, heap
  <2> QED
    BY <1>4, <1>5, <1>6, <1>7, <2>1
<1>9. CASE SigStep \/ KillStep \/ UNCHANGED vars
  BY <1>7, <1>9 DEF SigStep, Sig, SigWait, Exit, Crash, KillStep, Kill, vars, heap
<1> QED
  BY <1>8, <1>9 DEF Next

(* The fields of entries and the local variables of the threads keep their *)
(* types however the two threads are interleaved; a pointer is to a block  *)
(* that malloc has returned.                                               *)
THEOREM TypeCorrect == Spec => []TypeOK
<1>1. ASSUME LInv, Held, LeftTyped PROVE TypeOK
  <2>1. \A i \in Slots : /\ slot[i] \in Event
                         /\ {slot[i].in, slot[i].out, slot[i].arg} \subseteq 0 .. mallocs
    BY <1>1, Blocks DEF LInv, Typed, Fields
  <2>2. /\ reg \subseteq Reports /\ ready \subseteq Reports
        /\ files \in [ConnFds -> -1 .. Accepts] /\ live \subseteq 1 .. mallocs
        /\ \A t \in Threads : th[t].at \in Slots
    BY <1>1 DEF LInv, Typed, Thread
  <2> QED
    BY <1>1, <2>1, <2>2 DEF TypeOK, Held, LeftTyped, Event, Descriptor, Reports
<1>2. Init => LInv /\ Held /\ LeftTyped
  <2>1. ASSUME Init PROVE Held /\ LeftTyped
    BY <2>1 DEF Init, Held, LeftTyped, NULL
  <2> QED
    BY <2>1, InitLInv
<1>3. LInv /\ Held /\ LeftTyped /\ [Next]_vars => LInv' /\ Held' /\ LeftTyped'
  BY LInvStep, HeldStep, LeftStep
<1> QED
  BY <1>1, <1>2, <1>3, PTL DEF Spec
-----------------------------------------------------------------------------
(* How long a stop can take: the steps the signal thread has before it at  *)
(* most until the process has ended.                                       *)

(* In one call of DN_DelEvent, and in one of DN_DestoryEvent. *)
DelSteps(l) == CASE l = "del" -> 3 [] l = "delCtl" -> 2 [] l = "delStatus" -> 1

FieldSteps(f) == CASE f = "in" -> 12 [] f = "out" -> 8 [] f = "arg" -> 4

DestorySteps(l, f) ==
  CASE l = "destory" -> 16
    [] l = "test"  -> FieldSteps(f) + 3
    [] l = "load"  -> FieldSteps(f) + 2
    [] l = "free"  -> FieldSteps(f) + 1
    [] l = "clear" -> FieldSteps(f)
    [] l = "fd"    -> 3
    [] l = "close" -> 2
    [] l = "zero"  -> 1

(* In its call, in those of the entries after it, in the second loop if    *)
(* this is the first, and in the call of exit.                             *)
StepsOf(x) ==
  LET after == MaxEvents - 1 - x.at IN
  CASE x.pc = "sigwait" -> 2 + 19 * MaxEvents
    [] x.pc \in InDel -> 1 + 16 * MaxEvents + 3 * after + DelSteps(x.pc)
    [] x.pc \in InDestory -> 1 + 16 * after + DestorySteps(x.pc, x.field)
    [] x.pc = "exit" -> 1

StepsLeft == StepsOf(th["sig"])

(* What SIGINT or SIGTERM begins is over in 19 steps for each entry but    *)
(* for the first and the last.                                             *)
StepsBounded == StepsLeft \in 1 .. 2 + 19 * MaxEvents

(* Each step of the signal thread is one less, or the last, or is about a  *)
(* SIGHUP; nothing the main thread or a client does is one more.           *)
StopGoesOn ==
  /\ SigStep => \/ StepsLeft' < StepsLeft
                \/ stopped' # "no"
                \/ "HUP" \in Signals /\ SigWait("HUP")
  /\ MainStep \/ KillStep => StepsLeft' = StepsLeft

LEMMA StepsAre ==
  ASSUME NEW x, x.at \in Entries, x.field \in Fields
  PROVE  LET after == MaxEvents - 1 - x.at IN
         /\ x.pc = "sigwait" => StepsOf(x) = 2 + 19 * MaxEvents
         /\ x.pc = "exit" => StepsOf(x) = 1
         /\ x.pc = "del" => StepsOf(x) = 4 + 16 * MaxEvents + 3 * after
         /\ x.pc = "delCtl" => StepsOf(x) = 3 + 16 * MaxEvents + 3 * after
         /\ x.pc = "delStatus" => StepsOf(x) = 2 + 16 * MaxEvents + 3 * after
         /\ x.pc = "destory" => StepsOf(x) = 17 + 16 * after
         /\ x.pc = "test" => StepsOf(x) = FieldSteps(x.field) + 4 + 16 * after
         /\ x.pc = "load" => StepsOf(x) = FieldSteps(x.field) + 3 + 16 * after
         /\ x.pc = "free" => StepsOf(x) = FieldSteps(x.field) + 2 + 16 * after
         /\ x.pc = "clear" => StepsOf(x) = FieldSteps(x.field) + 1 + 16 * after
         /\ x.pc = "fd" => StepsOf(x) = 4 + 16 * after
         /\ x.pc = "close" => StepsOf(x) = 3 + 16 * after
         /\ x.pc = "zero" => StepsOf(x) = 2 + 16 * after
<1> DEFINE after == MaxEvents - 1 - x.at
<1>1. after \in Nat /\ MaxEvents \in Nat /\ FieldSteps(x.field) \in Nat
  BY BoundsAssumption DEF Entries, Fields, FieldSteps
<1>2. x.pc = "sigwait" => StepsOf(x) = 2 + 19 * MaxEvents
  BY DEF StepsOf, InDel, InDestory, Destorying
<1>3. x.pc = "exit" => StepsOf(x) = 1
  BY DEF StepsOf, InDel, InDestory, Destorying
<1>4. x.pc \in InDel => StepsOf(x) = 1 + 16 * MaxEvents + 3 * after + DelSteps(x.pc)
  BY DEF StepsOf, InDel, InDestory, Destorying
<1>5. x.pc \in InDestory => StepsOf(x) = 1 + 16 * after + DestorySteps(x.pc, x.field)
  BY DEF StepsOf, InDel, InDestory, Destorying
<1>6. /\ x.pc = "del" => DelSteps(x.pc) = 3
      /\ x.pc = "delCtl" => DelSteps(x.pc) = 2
      /\ x.pc = "delStatus" => DelSteps(x.pc) = 1
  BY DEF DelSteps
<1>7. /\ x.pc = "destory" => DestorySteps(x.pc, x.field) = 16
      /\ x.pc = "test" => DestorySteps(x.pc, x.field) = FieldSteps(x.field) + 3
      /\ x.pc = "load" => DestorySteps(x.pc, x.field) = FieldSteps(x.field) + 2
      /\ x.pc = "free" => DestorySteps(x.pc, x.field) = FieldSteps(x.field) + 1
      /\ x.pc = "clear" => DestorySteps(x.pc, x.field) = FieldSteps(x.field)
      /\ x.pc = "fd" => DestorySteps(x.pc, x.field) = 3
      /\ x.pc = "close" => DestorySteps(x.pc, x.field) = 2
      /\ x.pc = "zero" => DestorySteps(x.pc, x.field) = 1
  BY DEF DestorySteps
<1> HIDE DEF after
<1>8. /\ x.pc = "del" => StepsOf(x) = 4 + 16 * MaxEvents + 3 * after
      /\ x.pc = "delCtl" => StepsOf(x) = 3 + 16 * MaxEvents + 3 * after
      /\ x.pc = "delStatus" => StepsOf(x) = 2 + 16 * MaxEvents + 3 * after
  BY <1>1, <1>4, <1>6 DEF InDel
<1>9. /\ x.pc = "destory" => StepsOf(x) = 17 + 16 * after
      /\ x.pc = "test" => StepsOf(x) = FieldSteps(x.field) + 4 + 16 * after
      /\ x.pc = "load" => StepsOf(x) = FieldSteps(x.field) + 3 + 16 * after
      /\ x.pc = "free" => StepsOf(x) = FieldSteps(x.field) + 2 + 16 * after
      /\ x.pc = "clear" => StepsOf(x) = FieldSteps(x.field) + 1 + 16 * after
      /\ x.pc = "fd" => StepsOf(x) = 4 + 16 * after
      /\ x.pc = "close" => StepsOf(x) = 3 + 16 * after
      /\ x.pc = "zero" => StepsOf(x) = 2 + 16 * after
  BY <1>1, <1>5, <1>7 DEF InDestory, Destorying
<1> QED
  BY <1>2, <1>3, <1>8, <1>9 DEF after

LEMMA SigTyped ==
  ASSUME LInv
  PROVE  /\ th["sig"] \in Thread /\ th["sig"].at \in Entries /\ th["sig"].field \in Fields
         /\ "sig" \in Threads /\ th["sig"].pc \in Finishing \cup {"sigwait", "exit"}
         /\ MaxEvents \in Nat /\ th["sig"].at \in Nat /\ MaxEvents - 1 - th["sig"].at \in Nat
<1>1. "sig" \in Threads
  BY DEF Threads
<1> QED
  BY <1>1, BoundsAssumption DEF LInv, Typed, Thread, Threading, Entries

LEMMA FieldStepsAre == FieldSteps("in") = 12 /\ FieldSteps("out") = 8 /\ FieldSteps("arg") = 4
  BY DEF FieldSteps

(* The ends of the two loops' bodies. *)
LEMMA AfterDelSteps ==
  ASSUME LInv, AfterDelEvent("sig")
  PROVE  LET steps == StepsLeft' IN
         steps = 1 + 16 * MaxEvents + 3 * (MaxEvents - 1 - th["sig"].at)
<1> DEFINE x == th["sig"]
<1> DEFINE y == th'["sig"]
<1>1. th \in [Threads -> Thread] /\ x \in Thread
  BY SigTyped DEF LInv, Typed
<1>2. CASE ~LoopEnds(x.at)
  <2>1. th' = [th EXCEPT !["sig"].pc = "del", !["sig"].at = x.at + 1]
    BY <1>2 DEF AfterDelEvent
  <2>2. y.pc = "del" /\ y.at = x.at + 1 /\ y.field = x.field
    BY <1>1, <2>1 DEF Threads, Thread
  <2>3. y.at \in Entries
    BY <1>2, <2>2, Indices, SigTyped
  <2>4. StepsOf(y) = 4 + 16 * MaxEvents + 3 * (MaxEvents - 1 - y.at)
    BY <2>2, <2>3, SigTyped, StepsAre
  <2> QED
    BY <2>2, <2>4, SigTyped DEF StepsLeft
<1>3. CASE LoopEnds(x.at)
  <2>1. th' = [th EXCEPT !["sig"].pc = "destory", !["sig"].at = 0]
    BY <1>3 DEF AfterDelEvent
  <2>2. y.pc = "destory" /\ y.at = 0 /\ y.field = x.field
    BY <1>1, <2>1 DEF Threads, Thread
  <2>3. StepsOf(y) = 17 + 16 * (MaxEvents - 1 - y.at)
    BY <2>2, Indices, SigTyped, StepsAre
  <2>4. x.at = MaxEvents - 1
    BY <1>3, SigTyped, BoundsAssumption DEF LoopEnds, Entries
  <2> QED
    BY <2>2, <2>3, <2>4, SigTyped DEF StepsLeft
<1> QED
  BY <1>2, <1>3

LEMMA AfterDestorySteps ==
  ASSUME LInv, AfterDestoryEvent("sig")
  PROVE  StepsLeft' = 1 + 16 * (MaxEvents - 1 - th["sig"].at)
<1> DEFINE x == th["sig"]
<1> DEFINE y == th'["sig"]
<1>1. th \in [Threads -> Thread] /\ x \in Thread
  BY SigTyped DEF LInv, Typed
<1>2. CASE ~LoopEnds(x.at)
  <2>1. th' = [th EXCEPT !["sig"].pc = "destory", !["sig"].at = x.at + 1]
    BY <1>2 DEF AfterDestoryEvent
  <2>2. y.pc = "destory" /\ y.at = x.at + 1 /\ y.field = x.field
    BY <1>1, <2>1 DEF Threads, Thread
  <2>3. y.at \in Entries
    BY <1>2, <2>2, Indices, SigTyped
  <2>4. StepsOf(y) = 17 + 16 * (MaxEvents - 1 - y.at)
    BY <2>2, <2>3, SigTyped, StepsAre
  <2> QED
    BY <2>2, <2>4, SigTyped DEF StepsLeft
<1>3. CASE LoopEnds(x.at)
  <2>1. th' = [th EXCEPT !["sig"].pc = "exit"]
    BY <1>3 DEF AfterDestoryEvent
  <2>2. y.pc = "exit" /\ y.at = x.at /\ y.field = x.field
    BY <1>1, <2>1 DEF Threads, Thread
  <2>3. StepsOf(y) = 1
    BY <2>2, SigTyped, StepsAre
  <2>4. x.at = MaxEvents - 1
    BY <1>3, SigTyped, BoundsAssumption DEF LoopEnds, Entries
  <2> QED
    BY <2>3, <2>4, SigTyped DEF StepsLeft
<1> QED
  BY <1>2, <1>3

LEMMA AfterFieldSteps ==
  ASSUME LInv, AfterField("sig")
  PROVE  StepsLeft' = FieldSteps(th["sig"].field) + 16 * (MaxEvents - 1 - th["sig"].at)
<1> DEFINE x == th["sig"]
<1> DEFINE y == th'["sig"]
<1>1. th \in [Threads -> Thread] /\ x \in Thread
  BY SigTyped DEF LInv, Typed
<1>2. CASE x.field = "arg"
  <2>1. th' = [th EXCEPT !["sig"].pc = "fd"]
    BY <1>2 DEF AfterField
  <2>2. y.pc = "fd" /\ y.at = x.at /\ y.field = x.field
    BY <1>1, <2>1 DEF Threads, Thread
  <2>3. StepsOf(y) = 4 + 16 * (MaxEvents - 1 - y.at)
    BY <2>2, SigTyped, StepsAre
  <2> QED
    BY <1>2, <2>2, <2>3, FieldStepsAre DEF StepsLeft
<1>3. ASSUME NEW f \in {"in", "out"}, x.field = f
      PROVE  StepsLeft' = FieldSteps(f) + 16 * (MaxEvents - 1 - x.at)
  <2> DEFINE g == IF f = "in" THEN "out" ELSE "arg"
  <2>1. th' = [th EXCEPT !["sig"].pc = "test", !["sig"].field = g]
    BY <1>3 DEF AfterField
  <2>2. y.pc = "test" /\ y.at = x.at /\ y.field = g
    BY <1>1, <2>1 DEF Threads, Thread
  <2>3. StepsOf(y) = FieldSteps(g) + 4 + 16 * (MaxEvents - 1 - y.at)
    BY <2>2, SigTyped, StepsAre DEF Fields
  <2>4. FieldSteps(g) + 4 = FieldSteps(f)
    BY FieldStepsAre
  <2> HIDE DEF g
  <2>5. FieldSteps(f) \in Nat /\ FieldSteps(g) \in Nat
    BY FieldStepsAre DEF g
  <2> QED
    BY <2>2, <2>3, <2>4, <2>5, SigTyped DEF StepsLeft
<1> QED
  BY <1>2, <1>3, SigTyped DEF Fields

LEMMA GotoSteps ==
  ASSUME LInv, NEW l \in Finishing, Goto("sig", l)
  PROVE  /\ th'["sig"].pc = l /\ th'["sig"].at = th["sig"].at /\ th'["sig"].field = th["sig"].field
         /\ StepsLeft' = StepsOf(th'["sig"])
  BY SigTyped, GotoMove DEF LInv, StepsLeft
LEMMA DelGoesOn ==
  ASSUME LInv, DelTest("sig") \/ DelCtl("sig") \/ DelStatus("sig") PROVE StepsLeft' < StepsLeft
<1> DEFINE x == th["sig"]
<1> DEFINE after == MaxEvents - 1 - x.at
<1>1. StepsLeft = StepsOf(x) /\ after \in Nat /\ MaxEvents \in Nat
  BY SigTyped DEF StepsLeft
<1>2. CASE AfterDelEvent("sig")
  <2>1. StepsLeft' = 1 + 16 * MaxEvents + 3 * after
    BY <1>2, AfterDelSteps
  <2>2. x.pc \in {"del", "delCtl", "delStatus"}
    BY DEF DelTest, DelCtl, DelStatus, At
  <2>3. StepsOf(x) \in {d + 16 * MaxEvents + 3 * after : d \in {2, 3, 4}}
    BY <2>2, SigTyped, StepsAre
  <2> QED
    BY <1>1, <2>1, <2>3
<1>3. ASSUME Goto("sig", "delCtl"), x.pc = "del" PROVE StepsLeft' < StepsLeft
  <2>1. StepsLeft' = 3 + 16 * MaxEvents + 3 * after
    BY <1>3, GotoSteps, StepsAre, SigTyped DEF Finishing
  <2>2. StepsOf(x) = 4 + 16 * MaxEvents + 3 * after
    BY <1>3, SigTyped, StepsAre
  <2> QED
    BY <1>1, <2>1, <2>2
<1>4. ASSUME Goto("sig", "delStatus"), x.pc = "delCtl" PROVE StepsLeft' < StepsLeft
  <2>1. StepsLeft' = 2 + 16 * MaxEvents + 3 * after
    BY <1>4, GotoSteps, StepsAre, SigTyped DEF Finishing
  <2>2. StepsOf(x) = 3 + 16 * MaxEvents + 3 * after
    BY <1>4, SigTyped, StepsAre
  <2> QED
    BY <1>1, <2>1, <2>2
<1> QED
  BY <1>2, <1>3, <1>4 DEF DelTest, DelCtl, DelStatus, At

LEMMA DestoryGoesOn ==
  ASSUME LInv, DestoryTest("sig") \/ ZeroEntry("sig") PROVE StepsLeft' < StepsLeft
<1> DEFINE x == th["sig"]
<1> DEFINE after == MaxEvents - 1 - x.at
<1>1. StepsLeft = StepsOf(x) /\ after \in Nat
  BY SigTyped DEF StepsLeft
<1>2. CASE AfterDestoryEvent("sig")
  <2>1. StepsLeft' = 1 + 16 * after
    BY <1>2, AfterDestorySteps
  <2>2. x.pc \in {"destory", "zero"}
    BY DEF DestoryTest, ZeroEntry, At
  <2>3. StepsOf(x) \in {17 + 16 * after, 2 + 16 * after}
    BY <2>2, SigTyped, StepsAre
  <2> QED
    BY <1>1, <2>1, <2>3
<1>3. ASSUME th' = [th EXCEPT !["sig"].pc = "test", !["sig"].field = "in"], x.pc = "destory"
      PROVE  StepsLeft' < StepsLeft
  <2>1. th \in [Threads -> Thread] /\ x \in Thread /\ x.at \in Entries
    BY SigTyped DEF LInv, Typed
  <2>2. th'["sig"].pc = "test" /\ th'["sig"].at = x.at /\ th'["sig"].field = "in"
    BY <1>3, <2>1, SigTyped DEF Thread
  <2>3. StepsLeft' = 16 + 16 * after
    BY <2>1, <2>2, StepsAre, FieldStepsAre, <1>1 DEF Fields, StepsLeft
  <2>4. StepsOf(x) = 17 + 16 * after
    BY <1>3, SigTyped, StepsAre
  <2> QED
    BY <1>1, <2>3, <2>4
<1> QED
  BY <1>2, <1>3 DEF DestoryTest, ZeroEntry, At

LEMMA FieldGoesOn ==
  ASSUME LInv,
         TestPointer("sig") \/ LoadPointer("sig") \/ Free("sig") \/ ClearPointer("sig")
  PROVE  StepsLeft' < StepsLeft
<1> DEFINE x == th["sig"]
<1> DEFINE y == th'["sig"]
<1> DEFINE after == MaxEvents - 1 - x.at
<1> DEFINE base == FieldSteps(x.field) + 16 * after
<1>1. StepsLeft = StepsOf(x) /\ base \in Nat /\ StepsLeft' = StepsOf(y)
  BY SigTyped, FieldStepsAre DEF StepsLeft, Fields
<1>2. /\ x.pc = "test" => StepsOf(x) = base + 4
      /\ x.pc = "load" => StepsOf(x) = base + 3
      /\ x.pc = "free" => StepsOf(x) = base + 2
      /\ x.pc = "clear" => StepsOf(x) = base + 1
  <2>1. FieldSteps(x.field) \in Nat /\ after \in Nat
    BY SigTyped, FieldStepsAre DEF Fields
  <2> QED
    BY <2>1, SigTyped, StepsAre
<1>3. ASSUME y.at = x.at, y.field = x.field
      PROVE  /\ y.pc = "load" => StepsOf(y) = base + 3
             /\ y.pc = "free" => StepsOf(y) = base + 2
             /\ y.pc = "clear" => StepsOf(y) = base + 1
  <2>1. FieldSteps(x.field) \in Nat /\ after \in Nat
    BY SigTyped, FieldStepsAre DEF Fields
  <2> QED
    BY <1>3, <2>1, SigTyped, StepsAre
<1>4. AfterField("sig") => StepsLeft' = base
  BY AfterFieldSteps
<1> HIDE DEF base
<1>5. CASE TestPointer("sig")
  BY <1>1, <1>2, <1>3, <1>4, <1>5, GotoSteps DEF TestPointer, At, Finishing, Destorying
<1>6. CASE LoadPointer("sig")
  <2>1. th' = [th EXCEPT !["sig"].pc = "free", !["sig"].tmp = Entry("sig")[x.field]]
    BY <1>6 DEF LoadPointer
  <2>2. th \in [Threads -> Thread] /\ x \in Thread
    BY SigTyped DEF LInv, Typed
  <2>3. y.pc = "free" /\ y.at = x.at /\ y.field = x.field
    BY <2>1, <2>2, SigTyped DEF Thread
  <2> QED
    BY <1>1, <1>2, <1>3, <1>6, <2>3 DEF LoadPointer, At
<1>7. CASE Free("sig")
  BY <1>1, <1>2, <1>3, <1>7, GotoSteps DEF Free, At, Finishing, Destorying
<1>8. CASE ClearPointer("sig")
  BY <1>1, <1>2, <1>4, <1>8 DEF ClearPointer, At
<1> QED
  BY <1>5, <1>6, <1>7, <1>8

LEMMA FdGoesOn ==
  ASSUME LInv, LoadFd("sig") \/ CloseFd("sig") PROVE StepsLeft' < StepsLeft
<1> DEFINE x == th["sig"]
<1> DEFINE y == th'["sig"]
<1> DEFINE after == MaxEvents - 1 - x.at
<1>1. StepsLeft = StepsOf(x) /\ after \in Nat /\ StepsLeft' = StepsOf(y)
  BY SigTyped DEF StepsLeft
<1>2. /\ x.pc = "fd" => StepsOf(x) = 4 + 16 * after
      /\ x.pc = "close" => StepsOf(x) = 3 + 16 * after
  BY SigTyped, StepsAre
<1>3. ASSUME y.at = x.at, y.field = x.field
      PROVE  /\ y.pc = "close" => StepsOf(y) = 3 + 16 * after
             /\ y.pc = "zero" => StepsOf(y) = 2 + 16 * after
  BY <1>3, SigTyped, StepsAre
<1> HIDE DEF after
<1>4. CASE LoadFd("sig")
  <2>1. PICK l \in {"close", "zero"} :
          th' = [th EXCEPT !["sig"].pc = l, !["sig"].fd = Entry("sig").fd]
    BY <1>4 DEF LoadFd
  <2>2. th \in [Threads -> Thread] /\ x \in Thread
    BY SigTyped DEF LInv, Typed
  <2>3. y.pc = l /\ y.at = x.at /\ y.field = x.field
    BY <2>1, <2>2, SigTyped DEF Thread
  <2>4. x.pc = "fd"
    BY <1>4 DEF LoadFd, At
  <2> QED
    BY <1>1, <1>2, <1>3, <2>3, <2>4
<1>5. CASE CloseFd("sig")
  BY <1>1, <1>2, <1>3, <1>5, GotoSteps DEF CloseFd, At, Finishing, Destorying
<1> QED
  BY <1>4, <1>5

LEMMA SigGoesOn ==
  ASSUME LInv, SigStep
  PROVE  \/ StepsLeft' < StepsLeft
         \/ stopped' # "no"
         \/ "HUP" \in Signals /\ SigWait("HUP")
<1>1. ASSUME FinishEvent("sig") PROVE StepsLeft' < StepsLeft
  BY <1>1, DelGoesOn, DestoryGoesOn, FieldGoesOn, FdGoesOn DEF FinishEvent
<1>2. ASSUME NEW s \in Signals, SigWait(s), s # "HUP" PROVE StepsLeft' < StepsLeft
  <2>1. th' = [th EXCEPT !["sig"].pc = "del", !["sig"].at = 0, !["sig"].tmp = epfd]
    BY <1>2 DEF SigWait
  <2>2. th \in [Threads -> Thread] /\ th["sig"] \in Thread
    BY SigTyped DEF LInv, Typed
  <2>3. th'["sig"].pc = "del" /\ th'["sig"].at = 0 /\ th'["sig"].field = th["sig"].field
    BY <2>1, <2>2, SigTyped DEF Thread
  <2>4. StepsOf(th'["sig"]) = 4 + 16 * MaxEvents + 3 * (MaxEvents - 1 - 0)
    BY <2>3, SigTyped, Indices, StepsAre
  <2>5. StepsOf(th["sig"]) = 2 + 19 * MaxEvents
    BY <1>2, SigTyped, StepsAre DEF SigWait, At
  <2> QED
    BY <2>4, <2>5, SigTyped DEF StepsLeft
<1>3. Exit \/ Crash("sig") => stopped' # "no"
  BY DEF Exit, Crash, AllResult
<1> QED
  BY <1>1, <1>2, <1>3 DEF SigStep, Sig
(* The main thread's steps and a client's leave the signal thread where it *)
(* is.                                                                     *)
LEMMA OthersLeave == ASSUME LInv, MainStep \/ KillStep PROVE th'["sig"] = th["sig"]
<1>1. th \in [Threads -> Thread] /\ Typed /\ "main" \in Threads /\ "sig" \in Threads
  BY MainTyped, SigTyped DEF LInv
<1>2. ASSUME NEW l, Goto("main", l) PROVE th'["sig"] = th["sig"]
  BY <1>1, <1>2 DEF Goto
<1>3. ASSUME FinishEvent("main") PROVE th'["sig"] = th["sig"]
  <2>1. AfterDelEvent("main") \/ AfterDestoryEvent("main") \/ AfterField("main")
          => th'["sig"] = th["sig"]
    BY <1>1 DEF AfterDelEvent, AfterDestoryEvent, AfterField
  <2>2. LoadPointer("main") \/ LoadFd("main") => th'["sig"] = th["sig"]
    BY <1>1 DEF LoadPointer, LoadFd
  <2>3. DestoryTest("main") => th'["sig"] = th["sig"]
    BY <1>1, <2>1 DEF DestoryTest
  <2> QED
    BY <1>2, <1>3, <2>1, <2>2, <2>3 DEF FinishEvent, DelTest, DelCtl, DelStatus, TestPointer,
       Free, ClearPointer, CloseFd, ZeroEntry
<1>4. CASE MainStep
  <2>1. EpollCreate \/ AddListener \/ CallHandler \/ InitZero \/ AddEvents \/ AddCtl
          \/ AddStatus \/ ReadHead \/ SetInfo \/ Fails => th'["sig"] = th["sig"]
    BY <1>2, FailsGoto DEF EpollCreate, AddListener, CallHandler, InitZero, AddEvents, AddCtl, AddStatus,
       ReadHead, SetInfo
  <2>2. (\E x \in ready : DispatchEvent(x)) => th'["sig"] = th["sig"]
    BY <1>1 DEF DispatchEvent
  <2>3. Accept \/ ScanEntry => th'["sig"] = th["sig"]
    BY <1>1, <1>2 DEF Accept, ScanEntry
  <2>4. InitFd \/ InitBuff \/ AddOp \/ SetEvent \/ SendResponse => th'["sig"] = th["sig"]
    BY <1>1 DEF InitFd, InitBuff, AddOp, SetEvent, SendResponse
  <2>5. WaitEvent \/ Crash("main") => th'["sig"] = th["sig"]
    BY DEF WaitEvent, Crash
  <2> QED
    BY <1>3, <1>4, <2>1, <2>2, <2>3, <2>4, <2>5 DEF MainStep, Main, Fails
<1>5. CASE KillStep
  BY <1>5 DEF KillStep, Kill
<1> QED
  BY <1>4, <1>5

LEMMA StepsInRange == LInv => StepsBounded
<1> SUFFICES ASSUME LInv PROVE StepsBounded
  OBVIOUS
<1> DEFINE x == th["sig"]
<1> DEFINE after == MaxEvents - 1 - x.at
<1>1. /\ after \in Nat /\ MaxEvents \in Nat /\ after <= MaxEvents - 1
      /\ FieldSteps(x.field) \in {4, 8, 12}
  BY SigTyped, FieldStepsAre DEF Fields
<1>2. \/ \E n \in {1, 2 + 19 * MaxEvents} : StepsLeft = n
      \/ \E n \in 2 .. 4 : StepsLeft = n + 16 * MaxEvents + 3 * after
      \/ \E n \in 2 .. 17 : StepsLeft = n + 16 * after
  <2>1. x.pc \in {"del", "delCtl", "delStatus", "destory", "test", "load", "free", "clear",
                  "fd", "close", "zero", "sigwait", "exit"}
    BY SigTyped DEF Finishing, Destorying
  <2>2. x.pc \in {"sigwait", "exit"} => StepsLeft \in {1, 2 + 19 * MaxEvents}
    BY SigTyped, StepsAre DEF StepsLeft
  <2>3. x.pc \in {"del", "delCtl", "delStatus"}
          => \E n \in 2 .. 4 : StepsLeft = n + 16 * MaxEvents + 3 * after
    BY SigTyped, StepsAre DEF StepsLeft
  <2>4. x.pc \in {"destory", "fd", "close", "zero"}
          => \E n \in 2 .. 17 : StepsLeft = n + 16 * after
    BY SigTyped, StepsAre DEF StepsLeft
  <2>5. x.pc \in {"test", "load", "free", "clear"}
          => \E n \in 2 .. 17 : StepsLeft = n + 16 * after
    <3>1. x.pc = "test" => StepsLeft = (FieldSteps(x.field) + 4) + 16 * after
      BY SigTyped, StepsAre DEF StepsLeft
    <3>2. x.pc = "load" => StepsLeft = (FieldSteps(x.field) + 3) + 16 * after
      BY SigTyped, StepsAre DEF StepsLeft
    <3>3. x.pc = "free" => StepsLeft = (FieldSteps(x.field) + 2) + 16 * after
      BY SigTyped, StepsAre DEF StepsLeft
    <3>4. x.pc = "clear" => StepsLeft = (FieldSteps(x.field) + 1) + 16 * after
      BY SigTyped, StepsAre DEF StepsLeft
    <3>5. \A m \in 1 .. 4 : FieldSteps(x.field) + m \in 2 .. 17
      BY <1>1
    <3> HIDE DEF after
    <3> QED
      BY <3>1, <3>2, <3>3, <3>4, <3>5
  <2> QED
    BY <2>1, <2>2, <2>3, <2>4, <2>5
<1> HIDE DEF after
<1>3. MaxEvents >= 1
  BY BoundsAssumption
<1> QED
  BY <1>1, <1>2, <1>3 DEF StepsBounded

(* A stop cannot go on for ever, whatever the main thread does to the      *)
(* entries at the same time: from SIGINT or SIGTERM to the end of the      *)
(* process the signal thread makes at most 19 steps for each entry of the  *)
(* table and two more, and each step it makes brings it nearer.  So Stops  *)
(* needs no more than that the thread is scheduled.                        *)
THEOREM StopIsBounded == Spec => []StepsBounded /\ [][StopGoesOn]_vars
<1>1. ASSUME LInv, [Next]_vars PROVE [StopGoesOn]_vars
  <2>1. MainStep \/ KillStep => StepsLeft' = StepsLeft
    BY <1>1, OthersLeave DEF StepsLeft
  <2>2. SigStep => \/ StepsLeft' < StepsLeft
                   \/ stopped' # "no"
                   \/ "HUP" \in Signals /\ SigWait("HUP")
    BY <1>1, SigGoesOn
  <2> QED
    BY <1>1, <2>1, <2>2 DEF StopGoesOn
<1>2. LInv /\ [Next]_vars => LInv'
  BY LInvStep
<1>3. Init => LInv
  BY InitLInv
<1>4. LInv => StepsBounded
  BY StepsInRange
<1> QED
  BY <1>1, <1>2, <1>3, <1>4, PTL DEF Spec
=============================================================================
