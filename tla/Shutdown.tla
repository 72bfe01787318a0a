------------------------------ MODULE Shutdown ------------------------------
(***************************************************************************)
(* The stop by signal (dinner.c): a thread of its own takes SIGINT or      *)
(* SIGTERM and runs DN_DelAllEvent and DN_DestoryAllEvent on the event     *)
(* table, then exits, while the main thread goes on accepting, re-arming   *)
(* and destroying the same entries.  No lock is taken, so an entry is read *)
(* and written field by field, one field or one call in each step; only a  *)
(* memset of an entry is one step.                                         *)
(*                                                                         *)
(* DN_DelEvent and DN_DestoryEvent are run by both threads: their actions  *)
(* take the thread as a parameter.  What the handlers read and send is in  *)
(* module Dinner and abstracted here to the memory they touch.             *)
(***************************************************************************)
EXTENDS Integers, FiniteSets

CONSTANTS
  MaxEvents,  \* DN_MAX_EVENTS
  Accepts,    \* bound on the connections accepted
  Signals     \* those that are sent, once each

ASSUME BoundsAssumption == MaxEvents \in Nat \ {0} /\ Accepts \in Nat
ASSUME SignalsAssumption == Signals \subseteq {"HUP", "INT", "TERM"}

VARIABLES
  slot,        \* ioevs
  reg,         \* the kernel's interest list
  files,       \* the connection each descriptor number stands for
  live,        \* blocks of the heap allocated and not freed
  mallocs,     \* blocks allocated so far; an address is not used twice
  left,        \* history: the connections and the blocks left in entries of
               \* accepts that failed
  accepts,     \* connections accepted so far
  epfd,        \* the global epfd, 0 until epoll_create1 has returned
  ready,       \* events reported and not dispatched yet
  th,          \* where each thread is, and its local variables
  signals,     \* what has become of each signal
  error,       \* error, of DN_DelAllEvent
  stopped,     \* no, with or without (errors), or crashed
  twice,       \* history: a block was freed twice
  stray,       \* history: a descriptor of another connection was closed
  overlapped,  \* history: both threads were inside the same entry
  calm         \* history: the main thread has waited since the first signal

heap    == <<live, mallocs, left>>
kernel  == <<reg, files>>
history == <<twice, stray>>
vars    == <<slot, kernel, heap, accepts, epfd, ready, th, signals, error, stopped,
             history, overlapped, calm>>

Threads == {"main", "sig"}
DN_ACCEPT_EVENT == MaxEvents
Slots   == 0 .. MaxEvents
EpollFd == 1
ListenFd == 2
ConnFds == 3 .. 2 + Accepts
NULL    == 0
Lost    == -1  \* a connection that no entry of the table has
NoFile  == 0

(* A descriptor as the program holds it.  The kernel knows the number only;*)
(* conn tells which connection the program means.                          *)
Fd(n, c) == [num |-> n, conn |-> c]
ZeroFd == Fd(0, 0)

ZeroEvent == [status |-> "Void", handler |-> "NULL", events |-> "NONE", fd |-> ZeroFd,
              in |-> NULL, out |-> NULL, arg |-> NULL]

(* The signal thread is created when the table is zeroed, before the epoll *)
(* set and the listener's entry exist.                                     *)
Init ==
  /\ slot = [i \in Slots |-> ZeroEvent]
  /\ reg = {}
  /\ files = [n \in ConnFds |-> NoFile]
  /\ live = {}
  /\ mallocs = 0
  /\ left = [conns |-> {}, blocks |-> {NULL}]
  /\ accepts = 0
  /\ epfd = 0
  /\ ready = {}
  /\ th = [t \in Threads |->
             [pc |-> IF t = "sig" THEN "sigwait" ELSE "create",
              at |-> 0, field |-> "in", ev |-> "IN", tmp |-> NULL, fd |-> ZeroFd]]
  /\ signals = [s \in Signals |-> "unsent"]
  /\ error = FALSE
  /\ stopped = "no"
  /\ twice = FALSE
  /\ stray = FALSE
  /\ overlapped = FALSE
  /\ calm = FALSE

Entry(t)   == slot[th[t].at]
At(t, l)   == th[t].pc = l
Goto(t, l) == th' = [th EXCEPT ![t].pc = l]
Write(t, f, x) == slot' = [slot EXCEPT ![th[t].at][f] = x]

Interest(n, i, ev) == [fd |-> n, slot |-> i, events |-> ev]
Registered(n) == \E x \in reg : x.fd = n

-----------------------------------------------------------------------------
(* DN_DelEvent and DN_DestoryEvent, by the thread t.                       *)

(* Slips of the loop over the table: one entry short, and one too many,    *)
(* which is the listener's.                                                *)
LoopStopsShort(i) == i + 2 >= MaxEvents
LoopRunsOver(i) == i >= MaxEvents

(* The loops of DN_DelAllEvent and DN_DestoryAllEvent end after entry i. *)
LoopEnds(i) == i + 1 >= MaxEvents

(* DN_DelEvent returns to DN_FinishHttp or to DN_DelAllEvent. *)
AfterDelEvent(t) ==
  th' = IF t = "sig" /\ ~LoopEnds(th[t].at)
        THEN [th EXCEPT ![t].pc = "del", ![t].at = th[t].at + 1]
        ELSE [th EXCEPT ![t].pc = "destory", ![t].at = IF t = "sig" THEN 0 ELSE th[t].at]

(* DN_DestoryEvent returns to DN_FinishHttp or to DN_DestoryAllEvent. *)
AfterDestoryEvent(t) ==
  th' = IF t = "main" THEN [th EXCEPT ![t].pc = "dispatch"]
        ELSE IF LoopEnds(th[t].at) THEN [th EXCEPT ![t].pc = "exit"]
        ELSE [th EXCEPT ![t].pc = "destory", ![t].at = th[t].at + 1]

DelTest(t) ==
  /\ At(t, "del")
  /\ IF Entry(t).status = "Inuse" THEN Goto(t, "delCtl") ELSE AfterDelEvent(t)
  /\ UNCHANGED <<slot, kernel, heap, error, history>>

(* EPOLL_CTL_DEL; th.tmp is the epfd the thread passed on. *)
DelCtl(t) ==
  LET n == Entry(t).fd.num IN
  /\ At(t, "delCtl")
  /\ IF th[t].tmp = EpollFd /\ Registered(n)
     THEN /\ reg' = {x \in reg : x.fd # n}
          /\ Goto(t, "delStatus")
          /\ UNCHANGED error
     ELSE /\ error' = (error \/ t = "sig")
          /\ AfterDelEvent(t)
          /\ UNCHANGED reg
  /\ UNCHANGED <<slot, files, heap, history>>

DelStatus(t) ==
  /\ At(t, "delStatus")
  /\ Write(t, "status", "Unused")
  /\ AfterDelEvent(t)
  /\ UNCHANGED <<kernel, heap, error, history>>

DestoryTest(t) ==
  /\ At(t, "destory")
  /\ IF Entry(t).status = "Void" THEN AfterDestoryEvent(t)
     ELSE th' = [th EXCEPT ![t].pc = "test", ![t].field = "in"]
  /\ UNCHANGED <<slot, kernel, heap, error, history>>

(* The blocks of an entry are freed in this order, then its descriptor is  *)
(* closed: if (p) { free (p); p = NULL; }, buffers by way of DN_DelBuff.   *)
AfterField(t) ==
  LET next == IF th[t].field = "in" THEN "out" ELSE "arg" IN
  th' = IF th[t].field = "arg" THEN [th EXCEPT ![t].pc = "fd"]
        ELSE [th EXCEPT ![t].pc = "test", ![t].field = next]

TestPointer(t) ==
  /\ At(t, "test")
  /\ IF Entry(t)[th[t].field] = NULL THEN AfterField(t) ELSE Goto(t, "load")
  /\ UNCHANGED <<slot, kernel, heap, error, history>>

LoadPointer(t) ==
  /\ At(t, "load")
  /\ th' = [th EXCEPT ![t].pc = "free", ![t].tmp = Entry(t)[th[t].field]]
  /\ UNCHANGED <<slot, kernel, heap, error, history>>

(* Freeing a block that is free already is undefined: the C library may    *)
(* find out and abort (Crash), or go on.                                   *)
Free(t) ==
  LET p == th[t].tmp IN
  /\ At(t, "free")
  /\ live' = live \ {p}
  /\ twice' = (twice \/ p \notin live \cup {NULL})
  /\ Goto(t, "clear")
  /\ UNCHANGED <<slot, kernel, mallocs, left, error, stray>>

ClearPointer(t) ==
  /\ At(t, "clear")
  /\ Write(t, th[t].field, NULL)
  /\ AfterField(t)
  /\ UNCHANGED <<kernel, heap, error, history>>

LoadFd(t) ==
  /\ At(t, "fd")
  /\ th' = [th EXCEPT ![t].pc = IF Entry(t).fd.num > 0 THEN "close" ELSE "zero",
                      ![t].fd = Entry(t).fd]
  /\ UNCHANGED <<slot, kernel, heap, error, history>>

(* close ends the registration too; a number that is not open is refused. *)
CloseFd(t) ==
  LET f == th[t].fd IN
  /\ At(t, "close")
  /\ files' = [n \in ConnFds |-> IF n = f.num THEN NoFile ELSE files[n]]
  /\ reg' = {x \in reg : x.fd # f.num}
  /\ stray' = (stray \/ (f.num \in ConnFds /\ files[f.num] \notin {NoFile, f.conn}))
  /\ Goto(t, "zero")
  /\ UNCHANGED <<slot, heap, error, twice>>

(* A slip of DN_DestoryEvent: the last memset forgotten. *)
Left(e) == e

(* What the last memset makes of an entry. *)
Cleared(e) == ZeroEvent

ZeroEntry(t) ==
  /\ At(t, "zero")
  /\ slot' = [slot EXCEPT ![th[t].at] = Cleared(@)]
  /\ AfterDestoryEvent(t)
  /\ UNCHANGED <<kernel, heap, error, history>>

FinishEvent(t) ==
  \/ DelTest(t) \/ DelCtl(t) \/ DelStatus(t)
  \/ DestoryTest(t) \/ TestPointer(t) \/ LoadPointer(t) \/ Free(t) \/ ClearPointer(t)
  \/ LoadFd(t) \/ CloseFd(t) \/ ZeroEntry(t)

-----------------------------------------------------------------------------
(* The signal thread.                                                      *)

(* sigwait has taken a signal.  SIGHUP does nothing; the others call       *)
(* DN_DelAllEvent with what epfd is at that time.                          *)
SigWait(s) ==
  /\ At("sig", "sigwait")
  /\ signals[s] = "pending"
  /\ signals' = [signals EXCEPT ![s] = "taken"]
  /\ th' = IF s = "HUP" THEN th
           ELSE [th EXCEPT !["sig"].pc = "del", !["sig"].at = 0, !["sig"].tmp = epfd]
  /\ UNCHANGED <<slot, kernel, heap, accepts, epfd, ready, error, stopped, history>>

(* The value DN_DelAllEvent and DN_DestoryAllEvent return: never the -1    *)
(* that sigtermHandler tests for.                                          *)
AllResult(failed) == IF failed THEN 0 ELSE 1

(* A slip of sigtermHandler: exit only after a clean stop. *)
ExitIfClean ==
  /\ At("sig", "exit")
  /\ ~error
  /\ stopped' = "without"
  /\ UNCHANGED <<slot, kernel, heap, accepts, epfd, ready, th, signals, error, history>>

(* The end of sigtermHandler: it says how dinner stopped, and exits. *)
Exit ==
  /\ At("sig", "exit")
  /\ stopped' = IF AllResult(error) = -1 THEN "with" ELSE "without"
  /\ UNCHANGED <<slot, kernel, heap, accepts, epfd, ready, th, signals, error, history>>

-----------------------------------------------------------------------------
(* The main thread.                                                        *)

EpollCreate ==
  /\ At("main", "create")
  /\ epfd' = EpollFd
  /\ Goto("main", "listener")
  /\ UNCHANGED <<slot, kernel, heap, accepts, ready>>

(* DN_InitEvent and DN_AddEvent of the listener's entry, which the loops   *)
(* of the signal thread leave out.                                         *)
AddListener ==
  /\ At("main", "listener")
  /\ slot' = [slot EXCEPT ![DN_ACCEPT_EVENT] =
                [status |-> "Inuse", handler |-> "AcceptEvent", events |-> "IN",
                 fd |-> Fd(ListenFd, 0), in |-> 1, out |-> 2, arg |-> NULL]]
  /\ reg' = {Interest(ListenFd, DN_ACCEPT_EVENT, "IN")}
  /\ live' = {1, 2}
  /\ mallocs' = 2
  /\ Goto("main", "dispatch")
  /\ UNCHANGED <<left, files, accepts, epfd, ready>>

(* Clients decide what is reported. *)
WaitEvent ==
  /\ At("main", "dispatch")
  /\ ready = {}
  /\ ready' \in {S \in SUBSET reg : Cardinality(S) \in 1 .. MaxEvents}
  /\ UNCHANGED <<slot, kernel, heap, accepts, epfd, th>>

(* An entry that has changed since the event was reported may ask for      *)
(* another event by now, or for none.                                      *)
DispatchEvent(x) ==
  /\ At("main", "dispatch")
  /\ x \in ready
  /\ ready' = ready \ {x}
  /\ th' = [th EXCEPT !["main"].at = x.slot,
                      !["main"].pc = IF slot[x.slot].events = x.events THEN "call"
                                         ELSE "dispatch"]
  /\ UNCHANGED <<slot, kernel, heap, accepts, epfd>>

(* The handler's pointer is read after events has been tested. *)
CallHandler ==
  /\ At("main", "call")
  /\ Entry("main").handler # "NULL"
  /\ Goto("main", CASE Entry("main").handler = "AcceptEvent" -> "accept"
                    [] Entry("main").handler = "AcceptRequest" -> "request"
                    [] Entry("main").handler = "SendResponse" -> "respond")
  /\ UNCHANGED <<slot, kernel, heap, accepts, epfd, ready>>

(* accept gives the lowest number that is free, or fails. *)
Accept ==
  /\ At("main", "accept")
  /\ \/ /\ accepts < Accepts
        /\ \E n \in ConnFds :
             /\ files[n] = NoFile
             /\ \A m \in ConnFds : files[m] = NoFile => n <= m
             /\ files' = [files EXCEPT ![n] = accepts + 1]
             /\ accepts' = accepts + 1
             /\ th' = [th EXCEPT !["main"].pc = "scan", !["main"].at = 0,
                                 !["main"].fd = Fd(n, accepts + 1)]
     \/ Goto("main", "dispatch") /\ UNCHANGED <<files, accepts>>
  /\ UNCHANGED <<slot, reg, heap, epfd, ready>>

(* The search for an entry not in use.  At the connections limit, and when *)
(* DN_NoBlock fails, the descriptor is neither kept nor closed.            *)
ScanEntry ==
  /\ At("main", "scan")
  /\ \/ /\ th["main"].at < MaxEvents
        /\ IF Entry("main").status = "Inuse" THEN th' = [th EXCEPT !["main"].at = @ + 1]
           ELSE Goto("main", "initZero")
        /\ UNCHANGED files
     \/ /\ th["main"].at >= MaxEvents \/ Entry("main").status # "Inuse"
        /\ files' = [files EXCEPT ![th["main"].fd.num] = Lost]
        /\ Goto("main", "dispatch")
  /\ UNCHANGED <<slot, reg, heap, accepts, epfd, ready>>

InitZero ==
  /\ At("main", "initZero")
  /\ slot' = [slot EXCEPT ![th["main"].at] = ZeroEvent]
  /\ Goto("main", "initFd")
  /\ UNCHANGED <<kernel, heap, accepts, epfd, ready>>

(* The signal thread does not read handler: one step writes both. *)
InitFd ==
  /\ At("main", "initFd")
  /\ slot' = [slot EXCEPT ![th["main"].at].handler = "AcceptRequest",
                          ![th["main"].at].fd = th["main"].fd]
  /\ th' = [th EXCEPT !["main"].pc = "initBuff", !["main"].field = "in"]
  /\ UNCHANGED <<kernel, heap, accepts, epfd, ready>>

InitBuff ==
  /\ At("main", "initBuff")
  /\ Write("main", th["main"].field, mallocs + 1)
  /\ live' = live \cup {mallocs + 1}
  /\ mallocs' = mallocs + 1
  /\ th' = IF th["main"].field = "in" THEN [th EXCEPT !["main"].field = "out"]
           ELSE [th EXCEPT !["main"].pc = "addEvents", !["main"].ev = "IN"]
  /\ UNCHANGED <<left, kernel, accepts, epfd, ready>>

(* The handler returns -1 and leaves the entry as it is: Void, so that     *)
(* DN_DestoryEvent passes over it, with what it has by now.                *)
Abandons ==
  left' = [conns  |-> left.conns \cup {Entry("main").fd.conn},
           blocks |-> left.blocks \cup {Entry("main")[f] : f \in {"in", "out", "arg"}}]

(* realloc fails, for either buffer. *)
InitBuffFails ==
  /\ At("main", "initBuff")
  /\ Abandons
  /\ Goto("main", "dispatch")
  /\ UNCHANGED <<slot, live, mallocs, kernel, accepts, epfd, ready>>

(* DN_AddEvent sets events before it knows that epoll_ctl succeeds. *)
AddEvents ==
  /\ At("main", "addEvents")
  /\ Write("main", "events", th["main"].ev)
  /\ Goto("main", "addOp")
  /\ UNCHANGED <<kernel, heap, accepts, epfd, ready>>

AddOp ==
  /\ At("main", "addOp")
  /\ th' = [th EXCEPT !["main"].pc = IF Entry("main").status = "Inuse" THEN "mod" ELSE "add"]
  /\ UNCHANGED <<slot, kernel, heap, accepts, epfd, ready>>

(* When epoll_ctl may succeed.  The descriptor of a zeroed entry is 0, the *)
(* standard input, which epoll takes or refuses as it is a pipe or a file. *)
CtlMay(n) ==
  IF At("main", "mod") THEN Registered(n)
  ELSE /\ n = 0 \/ (n \in ConnFds /\ files[n] # NoFile)
       /\ ~Registered(n)

AddCtl ==
  LET n == Entry("main").fd.num IN
  /\ At("main", "mod") \/ At("main", "add")
  /\ CtlMay(n)
  /\ reg' = {x \in reg : x.fd # n} \cup {Interest(n, th["main"].at, th["main"].ev)}
  /\ Goto("main", "addStatus")
  /\ UNCHANGED <<slot, files, heap, accepts, epfd, ready>>

(* It may always refuse a descriptor that is new to it (ENOSPC, ENOMEM).   *)
AddCtlFails ==
  /\ \/ At("main", "mod") /\ ~CtlMay(Entry("main").fd.num) /\ UNCHANGED left
     \/ At("main", "add") /\ Abandons
  /\ Goto("main", "dispatch")
  /\ UNCHANGED <<slot, live, mallocs, kernel, accepts, epfd, ready>>

AddStatus ==
  /\ At("main", "addStatus")
  /\ Write("main", "status", "Inuse")
  /\ Goto("main", "dispatch")
  /\ UNCHANGED <<kernel, heap, accepts, epfd, ready>>

(* DN_AcceptRequest has read the head, or failed. *)
ReadHead ==
  /\ At("main", "request")
  /\ Goto("main", "setInfo") \/ Goto("main", "dispatch")
  /\ UNCHANGED <<slot, kernel, heap, accepts, epfd, ready>>

(* It allocates info.arg for a file and a program, not for an error page. *)
SetInfo ==
  /\ At("main", "setInfo")
  /\ \/ /\ Write("main", "arg", mallocs + 1)
        /\ live' = live \cup {mallocs + 1}
        /\ mallocs' = mallocs + 1
     \/ UNCHANGED <<slot, live, mallocs>>
  /\ Goto("main", "setHandler")
  /\ UNCHANGED <<left, kernel, accepts, epfd, ready>>

SetEvent ==
  /\ At("main", "setHandler")
  /\ Write("main", "handler", "SendResponse")
  /\ th' = [th EXCEPT !["main"].pc = "addEvents", !["main"].ev = "OUT"]
  /\ UNCHANGED <<kernel, heap, accepts, epfd, ready>>

(* DN_SendResponse has sent what it could and calls DN_FinishHttp. *)
SendResponse ==
  /\ At("main", "respond")
  /\ th' = [th EXCEPT !["main"].pc = "del", !["main"].tmp = EpollFd]
  /\ UNCHANGED <<slot, kernel, heap, accepts, epfd, ready>>

-----------------------------------------------------------------------------

(* Undefined behaviour the process may die of: a block freed twice, a NULL *)
(* handler called, a buffer or an argument used after it has been freed.   *)
Fault(t) ==
  \/ At(t, "free") /\ th[t].tmp \notin live \cup {NULL}
  \/ At(t, "call") /\ Entry(t).handler = "NULL"
  \/ At(t, "request") /\ Entry(t).in \notin live
  \/ At(t, "respond") /\ (Entry(t).out \notin live \/ Entry(t).arg \notin live \cup {NULL})

Crash(t) ==
  /\ Fault(t)
  /\ stopped' = "crashed"
  /\ UNCHANGED <<slot, kernel, heap, accepts, epfd, ready, th, signals, error, history>>

Sig ==
  \/ \E s \in Signals : SigWait(s)
  \/ FinishEvent("sig") /\ UNCHANGED <<mallocs, left, accepts, epfd, ready, signals, stopped>>
  \/ Exit
  \/ Crash("sig")

Main ==
  \/ /\ \/ EpollCreate \/ AddListener \/ WaitEvent
        \/ \E x \in ready : DispatchEvent(x)
        \/ CallHandler
        \/ Accept \/ ScanEntry \/ InitZero \/ InitFd \/ InitBuff \/ InitBuffFails
        \/ AddEvents \/ AddOp \/ AddCtl \/ AddCtlFails \/ AddStatus
        \/ ReadHead \/ SetInfo \/ SetEvent
        \/ SendResponse
     /\ UNCHANGED <<error, history, signals, stopped>>
  \/ FinishEvent("main") /\ UNCHANGED <<mallocs, left, accepts, epfd, ready, signals, stopped>>
  \/ Crash("main")

Kill(s) ==
  /\ signals[s] = "unsent"
  /\ signals' = [signals EXCEPT ![s] = "pending"]
  /\ UNCHANGED <<slot, kernel, heap, accepts, epfd, ready, th, error, stopped, history>>

-----------------------------------------------------------------------------
(* History, and the specification.                                         *)

Destorying == {"test", "load", "free", "clear", "fd", "close", "zero"}

(* One thread takes an entry apart while the other does so too, or makes   *)
(* a new one of it.                                                        *)
Overlap ==
  /\ th["main"].at = th["sig"].at
  /\ th["sig"].pc \in Destorying
  /\ th["main"].pc \in Destorying \cup {"initZero", "initFd", "initBuff"}

Waiting == At("main", "dispatch") /\ ready = {}
NoneSent == \A s \in Signals \ {"HUP"} : signals[s] = "unsent"

Noted == overlapped' = (overlapped \/ Overlap')

SigStep  == stopped = "no" /\ Sig /\ UNCHANGED calm /\ Noted
MainStep == stopped = "no" /\ Main /\ calm' = FALSE /\ Noted
KillStep ==
  /\ stopped = "no"
  /\ \E s \in Signals :
       Kill(s) /\ calm' = (IF s # "HUP" /\ NoneSent THEN Waiting ELSE calm)
  /\ Noted

Next == SigStep \/ MainStep \/ KillStep

Spec == Init /\ [][Next]_vars

(* The signal thread is scheduled.  Nothing is assumed of the main thread, *)
(* which may be in a handler that never returns.                           *)
FairSpec == Spec /\ WF_vars(SigStep)

-----------------------------------------------------------------------------
(* Properties.                                                             *)

TypeOK ==
  /\ \A i \in Slots :
       /\ slot[i].status \in {"Void", "Unused", "Inuse"}
       /\ slot[i].handler \in {"NULL", "AcceptEvent", "AcceptRequest", "SendResponse"}
       /\ slot[i].events \in {"NONE", "IN", "OUT"}
       /\ slot[i].fd.num \in {0, ListenFd} \cup ConnFds /\ slot[i].fd.conn \in 0 .. Accepts
       /\ {slot[i].in, slot[i].out, slot[i].arg} \subseteq 0 .. mallocs
  /\ reg \subseteq [fd : {0, ListenFd} \cup ConnFds, slot : Slots, events : {"IN", "OUT"}]
  /\ files \in [ConnFds -> -1 .. Accepts]
  /\ live \subseteq 1 .. mallocs
  /\ left \in [conns : SUBSET (0 .. Accepts), blocks : SUBSET (0 .. mallocs)]
  /\ ready \subseteq [fd : {0, ListenFd} \cup ConnFds, slot : Slots, events : {"IN", "OUT"}]
  /\ \A t \in Threads : th[t].at \in Slots /\ th[t].tmp \in 0 .. mallocs + 1

(* Memory and descriptors: as long as the two threads have not been inside *)
(* the same entry at once, no block is freed twice and no descriptor that  *)
(* belongs to another connection is closed, in whatever order entries are  *)
(* deleted, destroyed, taken over and re-armed (DN_DestoryEvent tests      *)
(* every field and zeroes the entry, DN_AcceptEvent takes Unused ones).    *)
HarmNeedsOverlap == twice \/ stray => overlapped

(* The loops of the signal thread leave the listener's entry alone         *)
(* (index < DN_MAX_EVENTS): once registered it stays so, whatever numbers  *)
(* the two threads close.                                                  *)
ListenerKept ==
  ~At("main", "create") /\ ~At("main", "listener")
    => /\ Interest(ListenFd, DN_ACCEPT_EVENT, "IN") \in reg
       /\ slot[DN_ACCEPT_EVENT].status = "Inuse"
       /\ {slot[DN_ACCEPT_EVENT].in, slot[DN_ACCEPT_EVENT].out} \subseteq live

(* The entry, connection and blocks that an accept has left when it failed.*)
Abandoned(i) ==
  /\ slot[i].status = "Void"
  /\ slot[i].fd.conn \in left.conns
  /\ {slot[i].in, slot[i].out, slot[i].arg} \subseteq left.blocks

(* A stop that finds the main thread waiting for events, and sees it wait  *)
(* to the end, reports no error and leaves nothing behind but the          *)
(* listener, the connections that got no entry, at the limit or after      *)
(* DN_NoBlock has failed, and what an accept that failed later has left in *)
(* its entry, which DN_DestoryEvent passes over as Void.                   *)
CleanStop ==
  stopped # "no" /\ calm
    => /\ stopped = "without" /\ ~error
       /\ \A i \in Slots \ {DN_ACCEPT_EVENT} : slot[i] = ZeroEvent \/ Abandoned(i)
       /\ reg = {Interest(ListenFd, DN_ACCEPT_EVENT, "IN")}
       /\ \A n \in ConnFds : files[n] \in {NoFile, Lost} \cup left.conns
       /\ live \subseteq {slot[DN_ACCEPT_EVENT].in, slot[DN_ACCEPT_EVENT].out} \cup left.blocks

(* Once SIGINT or SIGTERM is pending the process stops, whatever the main  *)
(* thread does meanwhile and whether or not events could be deleted.       *)
Stops == \A s \in Signals \ {"HUP"} : signals[s] = "pending" ~> stopped # "no"
=============================================================================
