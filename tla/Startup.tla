------------------------------ MODULE Startup ------------------------------
(***************************************************************************)
(* From main to the event loop: main, isdir, chroot, startup and the first *)
(* part of eventloop (dinner.c), DN_Daemonize (dn_daemonize.c), and the    *)
(* log modes of dn_say.c.  Each function is a step; between two of them    *)
(* SIGHUP may come.  The log lines of main are part of the steps: each     *)
(* goes through syslog, whose descriptor glibc keeps, and DN_Daemonize     *)
(* closes every descriptor behind its back.                                *)
(*                                                                         *)
(* Descriptors are numbers, and a call that opens takes the lowest free    *)
(* one.  Directories: "start", where dinner was started, "/", and "asked", *)
(* what the argument of -r names, or htdocs/ when there is none.           *)
(***************************************************************************)
EXTENDS Integers

CONSTANTS
  MaxFd,     \* a bound: the last descriptor
  Asks,      \* the arguments of -p
  Failures   \* whether system calls may fail

ASSUME BoundsAssumption == MaxFd \in Nat /\ MaxFd >= 8 /\ Asks \subseteq Nat
ASSUME SwitchAssumption == Failures \in BOOLEAN

Fds == 0 .. MaxFd
Standard == 0 .. 2

VARIABLES
  options,   \* help, daemon, port, absolute (the argument of -r), is (what is
             \* at "asked"), atRoot (started in "/") and std (what 0, 1 and 2
             \* were open on then)
  pc,        \* the next step
  fd,        \* what each descriptor is open on
  logFd,     \* the descriptor of syslog, -1 for none
  oneMode,   \* the log mode kept by DN_SayMode for every other module
  mode,      \* that of dinner.c
  status,    \* whether a step of DN_Daemonize has failed
  leader,    \* this process leads a session
  terminal,  \* its session has a controlling terminal
  report,    \* what the one who started dinner has been told: 0, 1, or -1 for nothing
  cwd,       \* the working directory
  path,      \* path of main: "asked" or "start"
  port,      \* the port of startup
  bound,     \* the port the kernel has bound
  hangup,    \* what SIGHUP does: kill, ignore or wait (blocked, for sigwait)
  killed     \* SIGHUP has killed the process

files   == <<fd, logFd>>
modes   == <<oneMode, mode>>
session == <<status, leader, terminal, report>>
place   == <<cwd, path>>
ports   == <<port, bound>>
signals == <<hangup, killed>>
vars    == <<options, pc, files, modes, session, place, ports, signals>>

(* A slip: only the standard input looked at. *)
ModeOfStdin(t) == IF t[0] = "null" THEN {"FILE"} ELSE {"FILE", "OUT"}

(* DN_GetSayMode: the first of 0, 1, 2 that is closed or on /dev/null ends *)
(* the search.                                                             *)
ModeOf(t) ==
  IF \E i \in Standard : t[i] = "null" /\ \A j \in 0 .. i - 1 : t[j] # "none"
  THEN {"FILE"} ELSE {"FILE", "OUT"}

Init ==
  /\ options \in [help : BOOLEAN, daemon : BOOLEAN, port : Asks, absolute : BOOLEAN,
                  is : {"dir", "file", "absent"}, atRoot : BOOLEAN,
                  std : [Standard -> {"tty", "null", "none"}]]
  /\ pc = "main"
  /\ fd = [i \in Fds |-> IF i \in Standard THEN options.std[i]
                         ELSE IF i = 3 THEN "inherited" ELSE "none"]
  /\ logFd = -1
  /\ oneMode = {}
  /\ mode = {}
  /\ status = "ok"
  /\ leader = FALSE
  /\ terminal = TRUE
  /\ report = -1
  /\ cwd = "start"
  /\ path = "asked"
  /\ port = 0
  /\ bound = 0
  /\ hangup = "kill"
  /\ killed = FALSE

-----------------------------------------------------------------------------
(* The kernel and syslog.                                                  *)

Free(t) == CHOOSE i \in Fds : t[i] = "none" /\ \A j \in 0 .. i - 1 : t[j] # "none"

Opened(t, what) == [t EXCEPT ![Free(t)] = what]

(* A line: syslog opens its socket when it has none.  When a send to the   *)
(* one it thinks it has fails, it closes that number and opens another.    *)
Line ==
  LET stale == logFd >= 0 /\ fd[logFd] # "log"
      t == IF stale THEN [fd EXCEPT ![logFd] = "none"] ELSE fd IN
  IF logFd >= 0 /\ ~stale THEN UNCHANGED files
  ELSE \/ fd' = Opened(t, "log") /\ logFd' = Free(t)
       \/ Failures /\ fd' = t /\ logFd' = -1

(* A slip: main says nothing once it is detached. *)
Quiet == UNCHANGED files

Reports == Line

Goes(at, next) == pc = at /\ ~killed /\ pc' = next

(* exit (1), or a return from main that is not 0. *)
Quits == pc' = "ended" /\ report' = IF report = -1 THEN 1 ELSE report

Fails(at) ==
  /\ Failures
  /\ ~killed
  /\ pc = at
  /\ Quits
  /\ UNCHANGED <<options, files, modes, status, leader, terminal, place, ports, signals>>

Hangup ==
  /\ ~killed
  /\ pc # "ended"
  /\ killed' = (hangup = "kill")
  /\ UNCHANGED <<options, pc, files, modes, session, place, ports, hangup>>

-----------------------------------------------------------------------------
(* main, as far as DN_Daemonize.                                           *)

Port(p) == p % 65536

Usage ==
  /\ pc = "main"
  /\ ~killed
  /\ options.help
  /\ pc' = "ended"
  /\ report' = 0
  /\ UNCHANGED <<options, files, modes, status, leader, terminal, place, ports, signals>>

ReadOptions ==
  /\ pc = "main"
  /\ ~options.help
  /\ ~killed
  /\ oneMode' = ModeOf(fd)
  /\ mode' = oneMode'
  /\ port' = Port(options.port)
  /\ IF options.daemon THEN Line /\ pc' = "mask"
                       ELSE pc' = "logmode" /\ UNCHANGED files
  /\ UNCHANGED <<options, session, place, bound, signals>>

(* DN_DaemonSetMask and DN_DaemonNewSession: the parent exits with 0. *)
NewSession ==
  /\ Goes("mask", "terminal")
  /\ report' = 0
  /\ \/ leader' = TRUE /\ terminal' = FALSE /\ UNCHANGED status
     \/ Failures /\ status' = "error" /\ UNCHANGED <<leader, terminal>>
  /\ UNCHANGED <<options, files, modes, place, ports, signals>>

(* A slip: no second fork. *)
Leads == leader

ForkLeads == FALSE

DiscardCtrlTerminal ==
  /\ Goes("terminal", "chdir")
  /\ hangup' = "ignore"
  /\ leader' = ForkLeads
  /\ UNCHANGED <<options, files, modes, status, terminal, report, place, ports, killed>>

(* sigaction fails, and the step ends before its fork. *)
KeepsCtrlTerminal ==
  /\ Failures
  /\ Goes("terminal", "chdir")
  /\ status' = "error"
  /\ UNCHANGED <<options, files, modes, leader, terminal, report, place, ports, signals>>

DaemonChroot ==
  /\ Goes("chdir", "close")
  /\ \/ cwd' = "/" /\ UNCHANGED status
     \/ Failures /\ status' = "error" /\ UNCHANGED cwd
  /\ UNCHANGED <<options, files, modes, leader, terminal, report, path, ports, signals>>

CloseFD ==
  /\ Goes("close", "reopen")
  /\ \/ fd' = [i \in Fds |-> "none"] /\ UNCHANGED status
     \/ Failures /\ status' = "error" /\ UNCHANGED fd
  /\ UNCHANGED <<options, logFd, modes, leader, terminal, report, place, ports, signals>>

(* The three calls must answer 0, 1 and 2. *)
ReopenFD ==
  LET one == Opened(fd, "null")
      two == Opened(one, "null")
      three == Opened(two, "null") IN
  /\ Goes("reopen", "daemon")
  /\ fd' = three
  /\ status' = IF <<Free(fd), Free(one), Free(two)>> = <<0, 1, 2>> THEN status ELSE "error"
  /\ UNCHANGED <<options, logFd, modes, leader, terminal, report, place, ports, signals>>

ReopenFails ==
  /\ Failures
  /\ Goes("reopen", "daemon")
  /\ status' = "error"
  /\ UNCHANGED <<options, files, modes, leader, terminal, report, place, ports, signals>>

(* openlog opens nothing; DN_Daemonize returns. *)
Daemonized ==
  /\ pc = "daemon"
  /\ ~killed
  /\ IF status = "ok" THEN pc' = "logmode" /\ UNCHANGED report ELSE Quits
  /\ UNCHANGED <<options, files, modes, status, leader, terminal, place, ports, signals>>

-----------------------------------------------------------------------------
(* main, as far as startup.                                                *)

(* DN_TRUELOGMODE, which sets oneMode too unless it meets /dev/null, and   *)
(* the line about the directory that will be tried.                        *)
TrueLogMode ==
  /\ Goes("logmode", "isdir")
  /\ mode' = ModeOf(fd)
  /\ oneMode' = IF "OUT" \in mode' THEN mode' ELSE oneMode
  /\ Reports
  /\ UNCHANGED <<options, session, place, ports, signals>>

(* main puts the argument after the working directory and a slash, an      *)
(* absolute one too.                                                       *)
AtPath == IF options.absolute /\ ~options.atRoot THEN "absent" ELSE options.is

(* isdir leaves dir alone when stat fails, and main has not set it. *)
IsDir ==
  /\ Goes("isdir", "chroot")
  /\ path' \in CASE AtPath = "dir" -> {"asked"}
                 [] AtPath = "file" -> {"start"}
                 [] OTHER -> {"asked", "start"}
  /\ IF path' = "start" THEN Reports ELSE UNCHANGED files
  /\ UNCHANGED <<options, modes, session, cwd, ports, signals>>

Chroot ==
  /\ path = "asked" => AtPath = "dir"
  /\ Goes("chroot", "socket")
  /\ cwd' = path
  /\ Reports
  /\ UNCHANGED <<options, modes, session, path, ports, signals>>

(* A slip: main goes on where it is. *)
ChrootGoesOn ==
  /\ path = "asked" /\ AtPath # "dir"
  /\ Goes("chroot", "socket")
  /\ UNCHANGED <<options, files, modes, session, place, ports, signals>>

ChrootFails ==
  /\ Failures \/ (path = "asked" /\ AtPath # "dir")
  /\ pc = "chroot"
  /\ ~killed
  /\ Quits
  /\ UNCHANGED <<options, files, modes, status, leader, terminal, place, ports, signals>>

-----------------------------------------------------------------------------
(* startup and eventloop.                                                  *)

Socket ==
  /\ Goes("socket", "bind")
  /\ fd' = Opened(fd, "listener")
  /\ UNCHANGED <<options, logFd, modes, session, place, ports, signals>>

Announces(p, b) == IF p = 0 THEN b ELSE p

(* The kernel chooses when the port is 0. *)
Bind ==
  /\ Goes("bind", "listen")
  /\ bound' \in IF port = 0 THEN {49152} ELSE {port}
  /\ port' = Announces(port, bound')
  /\ UNCHANGED <<options, files, modes, session, place, signals>>

(* listen, and the lines that announce the port. *)
Listen ==
  /\ Goes("listen", "signals")
  /\ Reports
  /\ UNCHANGED <<options, modes, session, place, ports, signals>>

(* actionBinding, with SIG_DFL. *)
ActionBinding ==
  /\ Goes("signals", "sigmask")
  /\ hangup' = "kill"
  /\ UNCHANGED <<options, files, modes, session, place, ports, killed>>

(* A slip: the signals are not blocked. *)
Unblocked == hangup

Blocked == "wait"

(* pthread_sigmask and pthread_create. *)
SignalThread ==
  /\ Goes("sigmask", "epoll")
  /\ hangup' = Blocked
  /\ UNCHANGED <<options, files, modes, session, place, ports, killed>>

Serve ==
  /\ Goes("epoll", "serving")
  /\ fd' = Opened(fd, "epoll")
  /\ UNCHANGED <<options, logFd, modes, session, place, ports, signals>>

Next ==
  \/ Usage \/ ReadOptions
  \/ NewSession \/ DiscardCtrlTerminal \/ KeepsCtrlTerminal \/ DaemonChroot
  \/ CloseFD \/ ReopenFD \/ ReopenFails \/ Daemonized
  \/ TrueLogMode \/ IsDir \/ Chroot \/ ChrootFails
  \/ Socket \/ Bind \/ Listen \/ ActionBinding \/ SignalThread \/ Serve
  \/ \E at \in {"main", "mask", "terminal", "socket", "bind", "listen",
                "signals", "sigmask", "epoll"} : Fails(at)
  \/ Hangup

Spec == Init /\ [][Next]_vars

-----------------------------------------------------------------------------
(* Every value stays in its type, and no descriptor beyond the bound is    *)
(* needed.                                                                 *)
TypeOK ==
  /\ options.port \in Asks
  /\ pc \in {"main", "mask", "terminal", "chdir", "close", "reopen", "daemon", "logmode",
             "isdir", "chroot", "socket", "bind", "listen", "signals", "sigmask", "epoll",
             "serving", "ended"}
  /\ fd \in [Fds -> {"tty", "null", "inherited", "log", "listener", "epoll", "none"}]
  /\ logFd \in -1 .. MaxFd
  /\ oneMode \subseteq {"FILE", "OUT"} /\ mode \subseteq {"FILE", "OUT"}
  /\ status \in {"ok", "error"}
  /\ leader \in BOOLEAN /\ terminal \in BOOLEAN /\ killed \in BOOLEAN
  /\ report \in {-1, 0, 1}
  /\ cwd \in {"start", "/", "asked"} /\ path \in {"start", "asked"}
  /\ port \in Nat /\ port < 65536 /\ bound \in Nat /\ bound < 65536
  /\ hangup \in {"kill", "ignore", "wait"}
  /\ fd[MaxFd] = "none"

(* 0, 1 and 2 were open when dinner was started.  When one was not, the    *)
(* socket of syslog may take its number.                                   *)
WellStarted == \A i \in Standard : options.std[i] # "none"

(* Once it tries its directory a daemon is one: it leads no session and    *)
(* has no terminal, and of what it was started with no descriptor is left; *)
(* 0, 1 and 2 are on /dev/null (dn_daemonize.c:148), unless one of them    *)
(* was closed at the start.                                                *)
Detached ==
  options.daemon /\ pc \in {"logmode", "isdir", "chroot", "socket", "bind", "listen",
                            "signals", "sigmask", "epoll", "serving"} =>
    /\ ~leader /\ ~terminal
    /\ WellStarted => \A i \in Standard : fd[i] = "null"
    /\ \A i \in Fds : fd[i] \notin {"tty", "inherited"}

(* The descriptor syslog believes to be its own is never that of another   *)
(* file, so that no line is sent to, and no failed send closes, the        *)
(* listener or the epoll instance, though DN_Daemonize has closed it       *)
(* without telling syslog.                                                 *)
LogKeepsOff ==
  /\ WellStarted /\ logFd >= 0 => fd[logFd] \in {"log", "none"}
  /\ pc = "serving" => {"listener", "epoll"} \subseteq {fd[i] : i \in Fds}

(* dinner serves the directory at the path main puts together, or the one  *)
(* it was started in when there is no directory there; never the root a    *)
(* daemon passes through.  An absolute argument of -r (dinner.c:60) makes  *)
(* a path at which there is none.  The port announced is the port that     *)
(* listens, and it is the one asked for, in 16 bits, unless that was 0.    *)
ServedAsAsked ==
  pc = "serving" =>
    /\ cwd = IF AtPath = "dir" THEN "asked" ELSE "start"
    /\ port = bound
    /\ options.port % 65536 # 0 => port = options.port % 65536

(* SIGHUP kills a daemon only before it is detached, and between the reset *)
(* of the handler and the blocking of the signal; it kills nobody who      *)
(* serves.                                                                 *)
HangupHarmless ==
  [][~killed /\ killed' =>
       \/ ~options.daemon /\ pc # "serving"
       \/ pc \in {"main", "mask", "terminal", "sigmask"}
       \/ status = "error"]_vars

(* dn_say.c:103, "If any file descriptor of 0, 1, 2 point to /dev/null,    *)
(* treat this as a daemon, only invoke syslog to write line": dinner.c     *)
(* does so once a daemon is detached; every other module keeps the mode of *)
(* the first call of DN_SayMode, made before that, and so goes on writing  *)
(* to the standard output unless dinner was started without one.           *)
LogModes ==
  LET without == \E i \in Standard : options.std[i] = "null"
      modeIf(b) == IF b THEN {"FILE"} ELSE {"FILE", "OUT"}
  IN
  pc = "serving" /\ WellStarted =>
    mode = modeIf(options.daemon \/ without) /\ oneMode = modeIf(without)
=============================================================================
