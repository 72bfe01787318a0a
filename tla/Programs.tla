------------------------------ MODULE Programs ------------------------------
(***************************************************************************)
(* Processes and descriptors over many CGI requests: what vfork, execl and *)
(* waitpid of DN_ExecCGI (dn_cgi.c) leave behind for the other connections *)
(* and for a stop.  No descriptor of dinner is closed on exec, so that a   *)
(* program gets a copy of every socket the server has; and the child of a  *)
(* failed execl goes on as the server, its parent suspended in vfork.      *)
(*                                                                         *)
(* Each client makes one request for a program.  What passes through the   *)
(* pipes is module Cgi.  (The names PInit, PNext, ... differ from those of *)
(* Startup because ProcessProofs extends both.)                            *)
(***************************************************************************)
EXTENDS Integers

CONSTANTS
  Clients,
  Listener,   \* the listening socket
  Nobody,     \* not a client
  Takeovers   \* a bound: how often execl fails

ASSUME ClientsAssumption == Listener \notin Clients /\ Nobody \notin Clients
ASSUME TakeoversAssumption == Takeovers \in Nat

VARIABLES
  conn,      \* per client: away, open or closed, as the server has left it, or
             \* cut: open, but a stop has taken its event from the table
  turn,      \* the client whose program the server is busy with, or Nobody
  doing,     \* idle, fork, run, finish or stuck
  serving,   \* the server process at work: its ancestors are suspended
  sockets,   \* per server process: the sockets it has open
  program,   \* per client: none, runs, exited or reaped
  holds,     \* per client: the sockets its program has open
  ret,       \* per client: what its DN_ExecCGI returns
  stopped    \* the signal thread has stopped dinner

processes == <<serving, sockets>>
programs  == <<program, holds>>
pvars     == <<conn, turn, doing, processes, programs, ret, stopped>>

PInit ==
  /\ conn = [c \in Clients |-> "away"]
  /\ turn = Nobody
  /\ doing = "idle"
  /\ serving = 0
  /\ sockets = [p \in 0 .. Takeovers |-> IF p = 0 THEN {Listener} ELSE {}]
  /\ program = [c \in Clients |-> "none"]
  /\ holds = [c \in Clients |-> {}]
  /\ ret = [c \in Clients |-> 1]
  /\ stopped = FALSE

-----------------------------------------------------------------------------
(* A stop ends the first process.  A child of a failed execl goes on. *)
AtWork == stopped => serving > 0

(* DN_AcceptEvent.  A stop leaves the listener its entry and registration. *)
Accept(c) ==
  /\ AtWork
  /\ doing = "idle"
  /\ conn[c] = "away"
  /\ conn' = [conn EXCEPT ![c] = "open"]
  /\ sockets' = [sockets EXCEPT ![serving] = @ \cup {c}]
  /\ UNCHANGED <<turn, doing, serving, programs, ret, stopped>>

(* DN_SendResponse calls DN_ExecCGI. *)
Begin(c) ==
  /\ AtWork
  /\ doing = "idle"
  /\ conn[c] = "open"
  /\ turn' = c
  /\ doing' = "fork"
  /\ UNCHANGED <<conn, processes, programs, ret, stopped>>

ReturnsError == ret' = [ret EXCEPT ![turn] = -1]

(* The page, a pipe or vfork fails. *)
NoProgram ==
  /\ doing = "fork"
  /\ ReturnsError
  /\ doing' = "finish"
  /\ UNCHANGED <<conn, turn, processes, programs, stopped>>

Spawn ==
  /\ doing = "fork"
  /\ program' = [program EXCEPT ![turn] = "runs"]
  /\ holds' = [holds EXCEPT ![turn] = sockets[serving]]
  /\ doing' = "run"
  /\ UNCHANGED <<conn, turn, processes, ret, stopped>>

(* A slip: descriptors closed on exec, or by the child when it fails. *)
InheritsNone(p) == {}

Inherits(p) == sockets[p]

(* The child returns from execl with copies of its parent's descriptors    *)
(* and runs the code after "Parent": it finds cgiOut[0] closed, or a write *)
(* fails, and goes to FINISH.                                              *)
ExecFails ==
  /\ doing = "fork"
  /\ serving < Takeovers
  /\ serving' = serving + 1
  /\ sockets' = [sockets EXCEPT ![serving + 1] = Inherits(serving)]
  /\ doing' = "finish"
  /\ UNCHANGED <<conn, turn, programs, ret, stopped>>

(* The same with a body longer than a pipe: the child blocks writing to    *)
(* the pipe whose other end it holds itself.                               *)
ExecFailsOnBody ==
  /\ doing = "fork"
  /\ serving < Takeovers
  /\ serving' = serving + 1
  /\ sockets' = [sockets EXCEPT ![serving + 1] = Inherits(serving)]
  /\ doing' = "stuck"
  /\ UNCHANGED <<conn, turn, programs, ret, stopped>>

(* A slip: waitpid with WNOHANG. *)
WaitsForNone(c) == program[c] \in {"runs", "exited"}

WaitsFor(c) == program[c] = "exited"

(* The program's output has ended and waitpid returns. *)
WaitPid ==
  /\ doing = "run"
  /\ WaitsFor(turn)
  /\ program' = [program EXCEPT ![turn] = IF @ = "exited" THEN "reaped" ELSE @]
  /\ doing' = "finish"
  /\ UNCHANGED <<conn, turn, processes, holds, ret, stopped>>

(* A write to the program or to the client has failed. *)
GiveUp ==
  /\ doing = "run"
  /\ ReturnsError
  /\ doing' = "finish"
  /\ UNCHANGED <<conn, turn, processes, programs, stopped>>

(* FINISH, and DN_FinishHttp in the process at work. *)
Finish ==
  /\ doing = "finish"
  /\ sockets' = [sockets EXCEPT ![serving] = @ \ {turn}]
  /\ conn' = [conn EXCEPT ![turn] = "closed"]
  /\ turn' = Nobody
  /\ doing' = "idle"
  /\ UNCHANGED <<serving, programs, ret, stopped>>

ProgramExits(c) ==
  /\ program[c] = "runs"
  /\ program' = [program EXCEPT ![c] = "exited"]
  /\ holds' = [holds EXCEPT ![c] = {}]
  /\ UNCHANGED <<conn, turn, doing, processes, ret, stopped>>

(* A slip: an exit that leaves the first process its sockets. *)
Keeps(p) == sockets[p]

Loses(p) == {}

(* sigtermHandler: the signal thread is in the first process, which exits. *)
(* A child at work shares its memory and its epoll instance: the events of *)
(* the connections are gone for it too, their sockets are not, and it goes *)
(* on accepting, because the loops of the stop leave out the listener's    *)
(* event.  (A bound: the stop finds such a child between two requests;     *)
(* module Shutdown has the overlaps.)                                      *)
Stop ==
  /\ ~stopped
  /\ serving > 0 => doing = "idle"
  /\ stopped' = TRUE
  /\ sockets' = [sockets EXCEPT ![0] = Loses(0)]
  /\ conn' = [c \in Clients |-> IF conn[c] = "open" THEN "cut" ELSE conn[c]]
  /\ doing' = "idle"
  /\ turn' = Nobody
  /\ UNCHANGED <<serving, programs, ret>>

Server ==
  \/ \E c \in Clients : Accept(c) \/ Begin(c)
  \/ NoProgram \/ Spawn \/ ExecFails \/ ExecFailsOnBody
  \/ WaitPid \/ GiveUp \/ Finish

PNext == Server \/ Stop \/ \E c \in Clients : ProgramExits(c)

PSpec == PInit /\ [][PNext]_pvars

(* The main thread is scheduled, and programs end. *)
PFairSpec == PSpec /\ WF_pvars(WaitPid \/ GiveUp \/ Finish)
                 /\ \A c \in Clients : WF_pvars(ProgramExits(c))

-----------------------------------------------------------------------------
(* Every value stays in its type, and a busy server is busy with a client. *)
PTypeOK ==
  /\ conn \in [Clients -> {"away", "open", "closed", "cut"}]
  /\ turn \in Clients \cup {Nobody}
  /\ doing \in {"idle", "fork", "run", "finish", "stuck"}
  /\ doing # "idle" => turn \in Clients
  /\ serving \in 0 .. Takeovers
  /\ sockets \in [0 .. Takeovers -> SUBSET (Clients \cup {Listener})]
  /\ program \in [Clients -> {"none", "runs", "exited", "reaped"}]
  /\ holds \in [Clients -> SUBSET (Clients \cup {Listener})]
  /\ ret \in [Clients -> {-1, 1}]
  /\ stopped \in BOOLEAN

Held(s) ==
  \/ \E p \in 0 .. Takeovers : s \in sockets[p]
  \/ \E c \in Clients : program[c] = "runs" /\ s \in holds[c]

(* A connection the server has closed is closed for its client too, unless *)
(* some program whose execution failed is still running and has the socket *)
(* (not necessarily the client's own program), or a server process         *)
(* suspended by a failed execl has it.                                     *)
ClosedIsOver ==
  \A c \in Clients : conn[c] = "closed" /\ Held(c) =>
    \/ \E d \in Clients : program[d] = "runs" /\ ret[d] = -1 /\ c \in holds[d]
    \/ \E p \in 0 .. serving - 1 : c \in sockets[p]

(* A program is left running, or unwaited for, only by an execution that   *)
(* failed.                                                                 *)
SuccessReaps ==
  \A c \in Clients :
    conn[c] = "closed" /\ ret[c] = 1 => program[c] \in {"none", "reaped"}

(* Whichever process is at work has the listener and every connection that *)
(* is open, and no other socket: no failed execl loses one, and a stop     *)
(* takes them from the first process only (a child of a failed execl keeps *)
(* even those it has no event for any more).                               *)
OpenIsServed ==
  AtWork =>
    sockets[serving] = {Listener} \cup {c \in Clients : conn[c] \in {"open", "cut"}}

(* As long as execl has not failed, a connection that was closed, and     *)
(* after a stop every socket, is released by all who have it as soon as    *)
(* their programs have ended.  Afterwards the suspended processes keep     *)
(* what they had (dn_cgi.c:201: the code below "Parent" runs in the child).*)
Released ==
  /\ \A c \in Clients : conn[c] = "closed" ~> ~Held(c) \/ serving > 0
  /\ stopped ~> (\A s \in Clients \cup {Listener} : ~Held(s)) \/ serving > 0
=============================================================================
