------------------------------ MODULE Delivery ------------------------------
(***************************************************************************)
(* What a response of dinner promises to the client that gets it: what is  *)
(* on the connection is always a beginning of the reply, byte by byte and  *)
(* in order, while the reply itself may still be growing (a program writes *)
(* it as it goes); the connection is closed when all of it has been sent,  *)
(* unless something failed.  Modules Response and Cgi implement this.      *)
(***************************************************************************)
EXTENDS Streams

VARIABLES
  source,  \* the reply as far as it exists
  wire,    \* what has been sent of it
  failed,  \* whether the peer or a resource has failed
  closed   \* whether the server has closed the connection

vars == <<source, wire, failed, closed>>

Init ==
  /\ wire = << >>
  /\ failed = FALSE
  /\ closed = FALSE

Produce ==
  /\ Begins(source, source')
  /\ UNCHANGED <<wire, failed, closed>>

Deliver ==
  /\ ~closed
  /\ Begins(wire, wire')
  /\ Begins(wire', source)
  /\ UNCHANGED <<source, failed, closed>>

Fail == failed' = TRUE /\ UNCHANGED <<source, wire, closed>>

Close ==
  /\ wire = source \/ failed
  /\ closed' = TRUE
  /\ UNCHANGED <<source, wire, failed>>

Next == Produce \/ Deliver \/ Fail \/ Close

Spec == Init /\ [][Next]_vars
=============================================================================
