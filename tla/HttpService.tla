---------------------------- MODULE HttpService ----------------------------
(***************************************************************************)
(* What dinner promises to its clients, told without slots, epoll or       *)
(* buffers: connections are admitted first come, first served, at most     *)
(* Capacity are served at a time, one is turned away only when all places  *)
(* are taken or a resource failed, a reply is the one its own request      *)
(* calls for, it goes out in order, and no two replies are under way at    *)
(* once.  Module Dinner, the translation of the server, implements this.   *)
(***************************************************************************)
EXTENDS Integers, Sequences, FiniteSets

CONSTANTS
  Conns,        \* the connections clients make
  Requests,     \* what a client may ask for
  NoRequest,    \* the request of a connection that is not made yet
  Whole,        \* Whole[r] is the reply to request r, piece by piece
  Capacity,     \* the connections served at a time
  Failures      \* whether memory and descriptors may run out

VARIABLES
  phase,    \* absent, waiting, served, refused or done
  line,     \* the connections waiting, the first come first
  request,  \* what each connection asks for
  reply     \* the pieces sent so far

vars == <<phase, line, request, reply>>

Served == {c \in Conns : phase[c] = "served"}
MidReply(c) == phase[c] = "served" /\ reply[c] # << >>

Init ==
  /\ phase = [c \in Conns |-> "absent"]
  /\ line = << >>
  /\ request = [c \in Conns |-> NoRequest]
  /\ reply = [c \in Conns |-> << >>]

Arrive(c, r) ==
  /\ phase[c] = "absent"
  /\ phase' = [phase EXCEPT ![c] = "waiting"]
  /\ line' = Append(line, c)
  /\ request' = [request EXCEPT ![c] = r]
  /\ UNCHANGED reply

Leave(c, where) ==
  /\ line # << >>
  /\ c = Head(line)
  /\ line' = Tail(line)
  /\ phase' = [phase EXCEPT ![c] = where]
  /\ UNCHANGED <<request, reply>>

Admit(c) == Cardinality(Served) < Capacity /\ Leave(c, "served")

Refuse(c) == (Cardinality(Served) = Capacity \/ Failures) /\ Leave(c, "refused")

Answer(c) ==
  /\ phase[c] = "served"
  /\ \A d \in Conns \ {c} : ~MidReply(d)
  /\ Len(reply[c]) < Len(Whole[request[c]])
  /\ reply' = [reply EXCEPT ![c] = Append(@, Whole[request[c]][Len(@) + 1])]
  /\ UNCHANGED <<phase, line, request>>

Close(c) ==
  /\ phase[c] = "served"
  /\ phase' = [phase EXCEPT ![c] = "done"]
  /\ UNCHANGED <<line, request, reply>>

Next == \E c \in Conns :
  \/ \E r \in Requests : Arrive(c, r)
  \/ Admit(c)
  \/ Refuse(c)
  \/ Answer(c)
  \/ Close(c)

Spec == Init /\ [][Next]_vars
=============================================================================
