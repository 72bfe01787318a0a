--------------------------- MODULE ProcessProofs ----------------------------
(***************************************************************************)
(* Proofs of the invariants of modules Startup and Programs: the server's  *)
(* process from main to its loop, and the processes it makes of itself.    *)
(* They hold for every set of arguments of -p and any table of descriptors *)
(* with room for nine, for every set of clients and every number of failed *)
(* execl.                                                                  *)
(***************************************************************************)
EXTENDS Startup, Programs, TLAPS

-----------------------------------------------------------------------------
(* Startup.  What is hard is who holds which descriptor: syslog's was      *)
(* taken before DN_Daemonize closed them all, and the lowest free number   *)
(* goes to whoever opens next.                                             *)

Detaching == {"mask", "terminal", "chdir", "close", "reopen", "daemon"}
Settled   == {"logmode", "isdir", "chroot", "socket", "bind", "listen", "signals", "sigmask",
              "epoll", "serving"}
Listens   == {"bind", "listen", "signals", "sigmask", "epoll", "serving"}

OptionsType == [help : BOOLEAN, daemon : BOOLEAN, port : Asks, absolute : BOOLEAN,
                is : {"dir", "file", "absent"}, atRoot : BOOLEAN,
                std : [Standard -> {"tty", "null", "none"}]]

Typed == TypeOK /\ options \in OptionsType

(* A step of DN_Daemonize that fails leaves status to say so, and main     *)
(* does not come back from it then.                                        *)
Session ==
  /\ pc \in Detaching => options.daemon
  /\ pc = "terminal" /\ status = "ok" => ~terminal
  /\ pc \in {"chdir", "close", "reopen", "daemon"} /\ status = "ok" => ~leader /\ ~terminal
  /\ pc \in Settled /\ options.daemon => status = "ok" /\ ~leader /\ ~terminal

(* SIGHUP can kill only where HangupHarmless allows it. *)
Hangups ==
  /\ hangup = "kill" /\ pc # "ended" =>
       \/ ~options.daemon /\ pc # "serving"
       \/ pc \in {"main", "mask", "terminal", "sigmask"}
       \/ status = "error"
  /\ pc \in {"epoll", "serving"} => hangup = "wait"

Places ==
  /\ pc = "chroot" /\ AtPath = "dir" => path = "asked"
  /\ pc = "chroot" /\ AtPath = "file" => path = "start"
  /\ pc \in Listens \cup {"socket"} => cwd = IF AtPath = "dir" THEN "asked" ELSE "start"

Ports ==
  /\ pc \in Detaching \cup {"logmode", "isdir", "chroot", "socket", "bind"} =>
       port = options.port % 65536
  /\ pc \in Listens \ {"bind"} =>
       port = bound /\ (options.port % 65536 # 0 => port = options.port % 65536)

-----------------------------------------------------------------------------
(* Descriptors.  Beyond those dinner was started with there is at most one *)
(* of syslog, so that the lowest free number is never high.                *)

Table == [Fds -> {"tty", "null", "inherited", "log", "listener", "epoll", "none"}]

FileTypes == fd \in Table /\ logFd \in -1 .. MaxFd

NoneFrom(k) == \A i \in Fds : i >= k => fd[i] = "none"
LogFrom(k)  == \A i \in Fds : i >= k => fd[i] \in {"log", "none"}

OneLog == \A i \in Fds : fd[i] = "log" => i = logFd

(* syslog has the descriptor it believes to have. *)
Fresh == logFd >= 0 => fd[logFd] = "log"

(* The descriptor of syslog is nobody else's. *)
LogKept == WellStarted /\ logFd >= 0 => fd[logFd] \in {"log", "none"}

StandardNull == \A i \in Standard : fd[i] = "null"

(* As dinner was started, but for what syslog has opened. *)
AsStarted ==
  /\ fd[3] = "inherited"
  /\ \A i \in Standard : fd[i] = "log" \/ fd[i] = options.std[i]
  /\ WellStarted => \A i \in Standard : fd[i] = options.std[i]

Nothing == \A i \in Fds : fd[i] \notin {"tty", "inherited"}

Files ==
  /\ FileTypes
  /\ OneLog
  /\ logFd >= 0 /\ WellStarted => logFd >= 3
  /\ pc = "main" => logFd = -1
  /\ pc \in {"main", "mask", "terminal", "chdir", "close"} =>
       AsStarted /\ Fresh /\ LogFrom(4) /\ NoneFrom(5)
  /\ pc = "reopen" => LogFrom(4) /\ NoneFrom(5) /\ (NoneFrom(0) \/ (Fresh /\ status = "error"))
  /\ pc = "daemon" =>
       /\ NoneFrom(8)
       /\ LogKept
       /\ status = "ok" => StandardNull /\ NoneFrom(3)
  /\ pc = "logmode" =>
       /\ LogFrom(4) /\ NoneFrom(5)
       /\ options.daemon => StandardNull /\ NoneFrom(3)
       /\ ~options.daemon => AsStarted /\ logFd = -1
  /\ pc \in Settled => /\ WellStarted => \A i \in Standard : fd[i] # "none" /\ i # logFd
  /\ pc \in Settled /\ options.daemon => Nothing /\ (WellStarted => StandardNull)
  /\ pc \in Settled \ {"logmode"} => Fresh
  /\ pc \in {"isdir", "chroot", "socket"} => LogFrom(4) /\ NoneFrom(5)
  /\ pc \in Listens \ {"serving"} => LogFrom(6) /\ NoneFrom(7)
  /\ pc \in Listens => \E i \in Fds : fd[i] = "listener"
  /\ pc = "serving" => NoneFrom(8) /\ \E i \in Fds : fd[i] = "epoll"

ModeIf(b) == IF b THEN {"FILE"} ELSE {"FILE", "OUT"}
Without == \E i \in Standard : options.std[i] = "null"

Modes ==
  /\ pc \in Detaching \cup Settled /\ WellStarted => oneMode = ModeIf(Without)
  /\ pc \in Settled \ {"logmode"} /\ WellStarted => mode = ModeIf(options.daemon \/ Without)

IInv == Typed /\ Session /\ Hangups /\ Places /\ Ports /\ Files /\ LogKept /\ Modes

-----------------------------------------------------------------------------
(* What the lowest free descriptor of a table is. *)
LEMMA FreeIsLeast ==
  ASSUME NEW t, NEW k \in 0 .. 7, t[k] = "none"
  PROVE  /\ Free(t) \in 0 .. k
         /\ t[Free(t)] = "none"
         /\ \A j \in 0 .. Free(t) - 1 : t[j] # "none"
<1>1. \E i \in 0 .. 7 : t[i] = "none" /\ \A j \in 0 .. i - 1 : t[j] # "none"
  OBVIOUS
<1>2. \E i \in Fds : t[i] = "none" /\ \A j \in 0 .. i - 1 : t[j] # "none"
  BY <1>1, BoundsAssumption DEF Fds
<1>3. /\ Free(t) \in Fds
      /\ t[Free(t)] = "none"
      /\ \A j \in 0 .. Free(t) - 1 : t[j] # "none"
  BY <1>2 DEF Free
<1>4. ~(k < Free(t))
  BY <1>3, BoundsAssumption DEF Fds
<1>5. QED
  BY <1>3, <1>4, BoundsAssumption DEF Fds

(* A line of the log takes no descriptor but a free one or the one syslog  *)
(* thinks is its own, and one no higher than the lowest nobody else has.   *)
LEMMA LineFiles ==
  ASSUME FileTypes, OneLog, Line, NEW k \in 0 .. 7, LogFrom(k), NoneFrom(k + 1)
  PROVE  /\ FileTypes'
         /\ OneLog' /\ Fresh' /\ LogFrom(k)' /\ NoneFrom(k + 1)'
         /\ \A i \in Fds : fd'[i] \in {fd[i], "log", "none"}
         /\ \A i \in Fds : fd[i] # "none" /\ i # logFd => fd'[i] = fd[i] /\ i # logFd'
         /\ Fresh => \A i \in Fds : fd[i] # "none" => fd'[i] = fd[i]
<1> DEFINE stale == logFd >= 0 /\ fd[logFd] # "log"
           t == IF stale THEN [fd EXCEPT ![logFd] = "none"] ELSE fd
<1> USE BoundsAssumption DEF FileTypes, Table, OneLog, LogFrom, NoneFrom, Fresh, Fds
<1>1. CASE logFd >= 0 /\ ~stale
  BY <1>1 DEF Line, files
<1>2. CASE ~(logFd >= 0 /\ ~stale)
  <2>1. /\ t \in [Fds -> {"tty", "null", "inherited", "log", "listener", "epoll", "none"}]
        /\ \A i \in Fds : t[i] = fd[i] \/ (i = logFd /\ t[i] = "none")
        /\ \A i \in Fds : t[i] # "log"
    BY <1>2
  <2>2. t[k] = "none"
    BY <2>1
  <2>3. /\ Free(t) \in 0 .. k
        /\ t[Free(t)] = "none"
    BY <2>2, FreeIsLeast
  <2> HIDE DEF t
  <2>4. CASE fd' = Opened(t, "log") /\ logFd' = Free(t)
    <3>1. fd' = [t EXCEPT ![Free(t)] = "log"]
      BY <2>4 DEF Opened
    <3>2. QED
      BY <1>2, <2>1, <2>3, <2>4, <3>1
  <2>5. CASE fd' = t /\ logFd' = -1
    BY <1>2, <2>1, <2>5
  <2>6. QED
    BY <1>2, <2>4, <2>5 DEF Line, t
<1>3. QED
  BY <1>1, <1>2

-----------------------------------------------------------------------------
(* The descriptors through each step.                                      *)

LEMMA OpenedFiles ==
  ASSUME FileTypes, NEW k \in 0 .. 7, NoneFrom(k),
         NEW what \in {"listener", "epoll"}, fd' = Opened(fd, what), UNCHANGED logFd
  PROVE  /\ FileTypes' /\ NoneFrom(k + 1)'
         /\ \A i \in Fds : fd'[i] # fd[i] => fd[i] = "none" /\ fd'[i] = what /\ i <= k
         /\ \E i \in Fds : fd'[i] = what
<1> USE BoundsAssumption DEF FileTypes, Table, NoneFrom, Fds
<1>1. fd[k] = "none"
  OBVIOUS
<1>2. Free(fd) \in 0 .. k /\ fd[Free(fd)] = "none"
  BY <1>1, FreeIsLeast
<1>3. fd' = [fd EXCEPT ![Free(fd)] = what]
  BY DEF Opened
<1>4. QED
  BY <1>2, <1>3

LEMMA OpenedNull ==
  ASSUME NEW t \in Table, NEW k \in 0 .. 7, t[k] = "none"
  PROVE  /\ Opened(t, "null") \in Table
         /\ Free(t) \in 0 .. k /\ t[Free(t)] = "none"
         /\ \A j \in 0 .. Free(t) - 1 : t[j] # "none"
         /\ \A i \in Fds : Opened(t, "null")[i] = IF i = Free(t) THEN "null" ELSE t[i]
<1>1. /\ Free(t) \in 0 .. k /\ t[Free(t)] = "none"
      /\ \A j \in 0 .. Free(t) - 1 : t[j] # "none"
  BY FreeIsLeast
<1>2. QED
  BY <1>1, BoundsAssumption DEF Opened, Table, Fds

LEMMA ReopenedFiles ==
  ASSUME FileTypes, NEW k \in 0 .. 5, NoneFrom(k),
         fd' = Opened(Opened(Opened(fd, "null"), "null"), "null"), UNCHANGED logFd
  PROVE  /\ FileTypes' /\ NoneFrom(k + 3)'
         /\ \A i \in Fds : fd'[i] # fd[i] => fd[i] = "none" /\ fd'[i] = "null"
         /\ NoneFrom(0) => StandardNull' /\ NoneFrom(3)'
<1> DEFINE one == Opened(fd, "null")
           two == Opened(one, "null")
<1>0. fd \in Table /\ \A i \in k .. MaxFd : i \in Fds /\ fd[i] = "none"
  BY BoundsAssumption DEF FileTypes, Table, NoneFrom, Fds
<1>1. /\ one \in Table
      /\ Free(fd) \in 0 .. k /\ fd[Free(fd)] = "none"
      /\ \A j \in 0 .. Free(fd) - 1 : fd[j] # "none"
      /\ \A i \in Fds : one[i] = IF i = Free(fd) THEN "null" ELSE fd[i]
  BY <1>0, OpenedNull, BoundsAssumption
<1> HIDE DEF one
<1>2. one[k + 1] = "none"
  BY <1>0, <1>1, BoundsAssumption
<1>3. /\ two \in Table
      /\ Free(one) \in 0 .. k + 1 /\ one[Free(one)] = "none"
      /\ \A j \in 0 .. Free(one) - 1 : one[j] # "none"
      /\ \A i \in Fds : two[i] = IF i = Free(one) THEN "null" ELSE one[i]
  BY <1>1, <1>2, OpenedNull
<1> HIDE DEF two
<1>4. two[k + 2] = "none"
  BY <1>0, <1>1, <1>3, BoundsAssumption
<1>5. /\ fd' \in Table
      /\ Free(two) \in 0 .. k + 2 /\ two[Free(two)] = "none"
      /\ \A j \in 0 .. Free(two) - 1 : two[j] # "none"
      /\ \A i \in Fds : fd'[i] = IF i = Free(two) THEN "null" ELSE two[i]
  BY <1>3, <1>4, OpenedNull DEF one, two
<1>6. FileTypes' /\ NoneFrom(k + 3)'
  <2>1. ASSUME NEW i \in Fds, i >= k + 3 PROVE fd'[i] = "none"
    <3>1. fd[i] = "none" /\ i # Free(fd) /\ i # Free(one) /\ i # Free(two)
      BY <1>0, <1>1, <1>3, <1>5, <2>1, BoundsAssumption DEF Fds
    <3>2. QED
      BY <1>1, <1>3, <1>5, <3>1
  <2>2. QED
    BY <1>5, <2>1 DEF FileTypes, NoneFrom
<1>7. \A i \in Fds : fd'[i] # fd[i] => fd[i] = "none" /\ fd'[i] = "null"
  BY <1>1, <1>3, <1>5
<1>8. ASSUME NoneFrom(0) PROVE StandardNull' /\ NoneFrom(3)'
  <2>0. \A i \in Fds : fd[i] = "none"
    BY <1>8 DEF NoneFrom, Fds
  <2>1. Free(fd) = 0
    BY <1>1, <2>0, BoundsAssumption DEF Fds
  <2>2. Free(one) = 1
    BY <1>1, <1>3, <2>0, <2>1, BoundsAssumption DEF Fds
  <2>3. Free(two) = 2
    BY <1>1, <1>3, <1>5, <2>0, <2>1, <2>2, BoundsAssumption DEF Fds
  <2>4. QED
    BY <1>1, <1>3, <1>5, <2>0, <2>1, <2>2, <2>3, BoundsAssumption
       DEF StandardNull, Standard, NoneFrom, Fds
<1>9. QED
  BY <1>6, <1>7, <1>8

LEMMA FilesKept ==
  ASSUME Files, Session, UNCHANGED <<options, files>>, UNCHANGED status \/ status' = "error",
         \/ pc' = pc
         \/ pc' = "ended"
         \/ <<pc, pc'>> \in {<<"mask", "terminal">>, <<"terminal", "chdir">>, <<"chdir", "close">>,
                              <<"bind", "listen">>, <<"signals", "sigmask">>, <<"sigmask", "epoll">>}
         \/ pc = "close" /\ pc' = "reopen" /\ status' = "error"
         \/ pc = "reopen" /\ pc' = "daemon" /\ status' = "error"
         \/ pc = "daemon" /\ pc' = "logmode" /\ status = "ok" /\ options.daemon
  PROVE  Files'
  BY BoundsAssumption
     DEF Files, files, FileTypes, OneLog, WellStarted, AsStarted, Fresh, LogFrom, NoneFrom,
         StandardNull, Nothing, LogKept, Settled, Listens, Detaching, Standard, Fds, Session

LEMMA ReadOptionsFiles == ASSUME Typed, Files, ReadOptions PROVE Files'
<1>1. options' = options /\ pc = "main" /\ UNCHANGED session /\ logFd = -1
  BY DEF ReadOptions, Files
<1>2. CASE pc' = "logmode" /\ UNCHANGED files /\ ~options.daemon
  BY <1>1, <1>2, BoundsAssumption
     DEF Files, files, FileTypes, OneLog, WellStarted, AsStarted, Fresh, LogFrom, NoneFrom,
         Settled, Listens, Standard, Fds
<1>3. CASE Line /\ pc' = "mask"
  <2>1. LogFrom(4) /\ NoneFrom(5) /\ FileTypes /\ OneLog /\ Fresh /\ AsStarted
    BY <1>1 DEF Files
  <2>2. /\ FileTypes' /\ OneLog' /\ Fresh' /\ LogFrom(4)' /\ NoneFrom(5)'
        /\ \A i \in Fds : fd'[i] \in {fd[i], "log", "none"}
        /\ \A i \in Fds : fd[i] # "none" /\ i # logFd => fd'[i] = fd[i] /\ i # logFd'
        /\ \A i \in Fds : fd[i] # "none" => fd'[i] = fd[i]
    BY <1>3, <2>1, LineFiles
  <2>3. options.std \in [Standard -> {"tty", "null", "none"}]
    BY DEF Typed, OptionsType
  <2>4. AsStarted'
    <3>1. fd'[3] = "inherited"
      BY <2>1, <2>2, BoundsAssumption DEF AsStarted, Fds
    <3>2. \A i \in Standard : fd'[i] = "log" \/ fd'[i] = options.std[i]
      BY <2>1, <2>2, <2>3, BoundsAssumption DEF AsStarted, Fds, Standard
    <3>3. WellStarted => \A i \in Standard : fd'[i] = options.std[i]
      BY <2>1, <2>2, <2>3, BoundsAssumption DEF AsStarted, Fds, Standard, WellStarted
    <3>4. QED
      BY <1>1, <3>1, <3>2, <3>3 DEF AsStarted, WellStarted
  <2>5. logFd' >= 0 /\ WellStarted => logFd' >= 3
    BY <1>1, <2>1, <2>2, <2>3, BoundsAssumption
       DEF AsStarted, Fds, Standard, WellStarted, FileTypes
  <2>6. QED
    BY <1>1, <1>3, <2>2, <2>4, <2>5 DEF Files, Settled, Listens, WellStarted
<1>4. QED
  BY <1>2, <1>3 DEF ReadOptions

LEMMA CloseFDFiles == ASSUME Files, Session, CloseFD PROVE Files'
<1>1. CASE fd' = [i \in Fds |-> "none"] /\ UNCHANGED status
  BY <1>1, BoundsAssumption
     DEF CloseFD, Goes, Files, FileTypes, Table, OneLog, WellStarted, LogFrom, NoneFrom, Fds,
         Settled, Listens
<1>2. CASE status' = "error" /\ UNCHANGED fd
  BY <1>2, FilesKept DEF CloseFD, Goes, files
<1>3. QED
  BY <1>1, <1>2 DEF CloseFD

LEMMA ReopenFDFiles == ASSUME Files, ReopenFD PROVE Files'
<1> DEFINE one == Opened(fd, "null")
           two == Opened(one, "null")
<1>1. /\ pc = "reopen" /\ pc' = "daemon" /\ options' = options /\ logFd' = logFd
      /\ fd' = Opened(Opened(Opened(fd, "null"), "null"), "null")
      /\ status' = "ok" => status = "ok"
  BY DEF ReopenFD, Goes
<1>2. FileTypes /\ NoneFrom(5) /\ OneLog /\ (NoneFrom(0) \/ (Fresh /\ status = "error"))
  BY <1>1 DEF Files
<1>3. /\ FileTypes' /\ NoneFrom(8)'
      /\ \A i \in Fds : fd'[i] # fd[i] => fd[i] = "none" /\ fd'[i] = "null"
      /\ NoneFrom(0) => StandardNull' /\ NoneFrom(3)'
  BY <1>1, <1>2, ReopenedFiles
<1>4. OneLog'
  BY <1>1, <1>2, <1>3 DEF OneLog
<1>5. LogKept'
  <2>1. CASE NoneFrom(0)
    BY <1>1, <1>2, <1>3, <2>1, BoundsAssumption
       DEF LogKept, WellStarted, Files, NoneFrom, FileTypes, Fds
  <2>2. CASE Fresh
    BY <1>1, <1>2, <1>3, <2>2, BoundsAssumption DEF LogKept, Fresh, FileTypes, Fds
  <2>3. QED
    BY <1>2, <2>1, <2>2
<1>6. status' = "ok" => StandardNull' /\ NoneFrom(3)'
  BY <1>1, <1>2, <1>3
<1>7. logFd' >= 0 /\ WellStarted' => logFd' >= 3
  BY <1>1 DEF Files, WellStarted
<1>8. QED
  BY <1>1, <1>3, <1>4, <1>5, <1>6, <1>7 DEF Files, Settled, Listens, WellStarted

(* A line of main once a daemon is detached. *)
LEMMA SettledLine ==
  ASSUME Files, Line, NEW k \in 0 .. 7, LogFrom(k), NoneFrom(k + 1), UNCHANGED options,
         WellStarted => \A i \in Standard : fd[i] # "none" /\ i # logFd,
         options.daemon => Nothing /\ (WellStarted => StandardNull)
  PROVE  /\ FileTypes' /\ OneLog' /\ Fresh' /\ LogFrom(k)' /\ NoneFrom(k + 1)'
         /\ (logFd >= 0 /\ WellStarted => logFd >= 3)'
         /\ (WellStarted => \A i \in Standard : fd[i] # "none" /\ i # logFd)'
         /\ (options.daemon => Nothing /\ (WellStarted => StandardNull))'
         /\ Fresh => \A i \in Fds : fd[i] # "none" => fd'[i] = fd[i]
<1>1. /\ FileTypes' /\ OneLog' /\ Fresh' /\ LogFrom(k)' /\ NoneFrom(k + 1)'
      /\ \A i \in Fds : fd'[i] \in {fd[i], "log", "none"}
      /\ \A i \in Fds : fd[i] # "none" /\ i # logFd => fd'[i] = fd[i] /\ i # logFd'
      /\ Fresh => \A i \in Fds : fd[i] # "none" => fd'[i] = fd[i]
  BY LineFiles DEF Files
<1>2. Standard \subseteq Fds
  BY BoundsAssumption DEF Standard, Fds
<1>3. (WellStarted => \A i \in Standard : fd[i] # "none" /\ i # logFd)'
  BY <1>1, <1>2 DEF WellStarted
<1>4. (logFd >= 0 /\ WellStarted => logFd >= 3)'
  BY <1>1, <1>3 DEF Standard, FileTypes
<1>5. (options.daemon => Nothing /\ (WellStarted => StandardNull))'
  BY <1>1, <1>2 DEF WellStarted, Nothing, StandardNull
<1>6. QED
  BY <1>1, <1>3, <1>4, <1>5

LEMMA TrueLogModeFiles == ASSUME Typed, Files, TrueLogMode PROVE Files'
<1>1. /\ pc = "logmode" /\ pc' = "isdir" /\ UNCHANGED options /\ Line
      /\ LogFrom(4) /\ NoneFrom(5)
      /\ WellStarted => \A i \in Standard : fd[i] # "none" /\ i # logFd
      /\ options.daemon => Nothing /\ (WellStarted => StandardNull)
  BY DEF TrueLogMode, Goes, Reports, Files, Settled, Listens, AsStarted, LogFrom, NoneFrom, Typed, OptionsType, Standard, Nothing, StandardNull, WellStarted
<1>2. /\ FileTypes' /\ OneLog' /\ Fresh' /\ LogFrom(4)' /\ NoneFrom(5)'
      /\ (logFd >= 0 /\ WellStarted => logFd >= 3)'
      /\ (WellStarted => \A i \in Standard : fd[i] # "none" /\ i # logFd)'
      /\ (options.daemon => Nothing /\ (WellStarted => StandardNull))'
      /\ Fresh => \A i \in Fds : fd[i] # "none" => fd'[i] = fd[i]
  BY <1>1, SettledLine
<1>3. QED
  BY <1>1, <1>2 DEF Files, Settled, Listens

LEMMA IsDirFiles == ASSUME Typed, Files, IsDir PROVE Files'
<1>1. CASE UNCHANGED files
  BY <1>1 DEF IsDir, Goes, Files, files, FileTypes, OneLog, WellStarted, Fresh, LogFrom, NoneFrom,
              StandardNull, Nothing, Settled, Listens
<1>2. CASE Line
  <2>1. /\ pc = "isdir" /\ pc' = "chroot" /\ UNCHANGED options
        /\ LogFrom(4) /\ NoneFrom(5)
        /\ WellStarted => \A i \in Standard : fd[i] # "none" /\ i # logFd
        /\ options.daemon => Nothing /\ (WellStarted => StandardNull)
    BY DEF IsDir, Goes, Files, Settled, Listens
  <2>2. /\ FileTypes' /\ OneLog' /\ Fresh' /\ LogFrom(4)' /\ NoneFrom(5)'
        /\ (logFd >= 0 /\ WellStarted => logFd >= 3)'
        /\ (WellStarted => \A i \in Standard : fd[i] # "none" /\ i # logFd)'
        /\ (options.daemon => Nothing /\ (WellStarted => StandardNull))'
    BY <1>2, <2>1, SettledLine
  <2>3. QED
    BY <2>1, <2>2 DEF Files, Settled, Listens
<1>3. QED
  BY <1>1, <1>2 DEF IsDir, Reports

LEMMA ChrootFiles == ASSUME Typed, Files, Chroot PROVE Files'
<1>1. /\ pc = "chroot" /\ pc' = "socket" /\ UNCHANGED options /\ Line
      /\ LogFrom(4) /\ NoneFrom(5)
      /\ WellStarted => \A i \in Standard : fd[i] # "none" /\ i # logFd
      /\ options.daemon => Nothing /\ (WellStarted => StandardNull)
  BY DEF Chroot, Goes, Reports, Files, Settled, Listens
<1>2. /\ FileTypes' /\ OneLog' /\ Fresh' /\ LogFrom(4)' /\ NoneFrom(5)'
      /\ (logFd >= 0 /\ WellStarted => logFd >= 3)'
      /\ (WellStarted => \A i \in Standard : fd[i] # "none" /\ i # logFd)'
      /\ (options.daemon => Nothing /\ (WellStarted => StandardNull))'
      /\ Fresh => \A i \in Fds : fd[i] # "none" => fd'[i] = fd[i]
  BY <1>1, SettledLine
<1>3. QED
  BY <1>1, <1>2 DEF Files, Settled, Listens

LEMMA ListenFiles == ASSUME Typed, Files, Listen PROVE Files'
<1>1. /\ pc = "listen" /\ pc' = "signals" /\ UNCHANGED options /\ Line
      /\ LogFrom(6) /\ NoneFrom(7)
      /\ WellStarted => \A i \in Standard : fd[i] # "none" /\ i # logFd
      /\ options.daemon => Nothing /\ (WellStarted => StandardNull)
  BY DEF Listen, Goes, Reports, Files, Settled, Listens
<1>2. /\ FileTypes' /\ OneLog' /\ Fresh' /\ LogFrom(6)' /\ NoneFrom(7)'
      /\ (logFd >= 0 /\ WellStarted => logFd >= 3)'
      /\ (WellStarted => \A i \in Standard : fd[i] # "none" /\ i # logFd)'
      /\ (options.daemon => Nothing /\ (WellStarted => StandardNull))'
      /\ Fresh => \A i \in Fds : fd[i] # "none" => fd'[i] = fd[i]
  BY <1>1, SettledLine
<1>3. \E i \in Fds : fd'[i] = "listener"
  BY <1>1, <1>2 DEF Files, Settled, Listens
<1>4. QED
  BY <1>1, <1>2, <1>3 DEF Files, Settled, Listens

LEMMA SocketFiles == ASSUME Typed, Files, Socket PROVE Files'
<1>1. /\ pc = "socket" /\ pc' = "bind" /\ UNCHANGED <<options, logFd>>
      /\ fd' = Opened(fd, "listener")
      /\ FileTypes /\ OneLog /\ Fresh /\ NoneFrom(5)
      /\ logFd >= 0 /\ WellStarted => logFd >= 3
      /\ WellStarted => \A i \in Standard : fd[i] # "none" /\ i # logFd
      /\ options.daemon => Nothing /\ (WellStarted => StandardNull)
  BY DEF Socket, Goes, Files, Settled, Listens
<1>2. /\ FileTypes' /\ NoneFrom(6)'
      /\ \A i \in Fds : fd'[i] # fd[i] => fd[i] = "none" /\ fd'[i] = "listener" /\ i <= 5
      /\ \E i \in Fds : fd'[i] = "listener"
  BY <1>1, OpenedFiles
<1>3. Standard \subseteq Fds
  BY BoundsAssumption DEF Standard, Fds
<1>4. OneLog' /\ Fresh' /\ LogFrom(6)'
  BY <1>1, <1>2, BoundsAssumption DEF OneLog, Fresh, LogFrom, NoneFrom, FileTypes, Fds
<1>5. /\ WellStarted' => \A i \in Standard : fd'[i] # "none" /\ i # logFd'
      /\ options'.daemon => Nothing' /\ (WellStarted' => StandardNull')
  BY <1>1, <1>2, <1>3 DEF WellStarted, Nothing, StandardNull
<1>6. NoneFrom(7)'
  BY <1>2, BoundsAssumption DEF NoneFrom, Fds
<1>7. QED
  BY <1>1, <1>2, <1>4, <1>5, <1>6 DEF Files, Settled, Listens, WellStarted

LEMMA ServeFiles == ASSUME Typed, Files, Serve PROVE Files'
<1>1. /\ pc = "epoll" /\ pc' = "serving" /\ UNCHANGED <<options, logFd>>
      /\ fd' = Opened(fd, "epoll")
      /\ FileTypes /\ OneLog /\ Fresh /\ NoneFrom(7)
      /\ logFd >= 0 /\ WellStarted => logFd >= 3
      /\ WellStarted => \A i \in Standard : fd[i] # "none" /\ i # logFd
      /\ options.daemon => Nothing /\ (WellStarted => StandardNull)
  BY DEF Serve, Goes, Files, Settled, Listens
<1>2. /\ FileTypes' /\ NoneFrom(8)'
      /\ \A i \in Fds : fd'[i] # fd[i] => fd[i] = "none" /\ fd'[i] = "epoll" /\ i <= 7
      /\ \E i \in Fds : fd'[i] = "epoll"
  BY <1>1, OpenedFiles
<1>3. Standard \subseteq Fds
  BY BoundsAssumption DEF Standard, Fds
<1>4. OneLog' /\ Fresh'
  BY <1>1, <1>2, BoundsAssumption DEF OneLog, Fresh, FileTypes, Fds
<1>5. /\ WellStarted' => \A i \in Standard : fd'[i] # "none" /\ i # logFd'
      /\ options'.daemon => Nothing' /\ (WellStarted' => StandardNull')
  BY <1>1, <1>2, <1>3 DEF WellStarted, Nothing, StandardNull
<1>6. \E i \in Fds : fd'[i] = "listener"
  BY <1>1, <1>2 DEF Files, Settled, Listens
<1>7. QED
  BY <1>1, <1>2, <1>4, <1>5, <1>6 DEF Files, Settled, Listens, WellStarted

LEMMA FilesStep == ASSUME Typed, Session, Files, Next PROVE Files'
<1>1. CASE ReadOptions \/ CloseFD \/ ReopenFD
  BY <1>1, ReadOptionsFiles, CloseFDFiles, ReopenFDFiles
<1>2. CASE TrueLogMode \/ IsDir \/ Chroot \/ Listen
  BY <1>2, TrueLogModeFiles, IsDirFiles, ChrootFiles, ListenFiles
<1>3. CASE Socket \/ Serve
  BY <1>3, SocketFiles, ServeFiles
<1>4. CASE \/ Usage \/ NewSession \/ DiscardCtrlTerminal \/ KeepsCtrlTerminal \/ DaemonChroot
           \/ ReopenFails \/ Daemonized \/ ChrootFails \/ Bind \/ ActionBinding \/ SignalThread
           \/ (\E at \in {"main", "mask", "terminal", "socket", "bind", "listen", "signals",
                          "sigmask", "epoll"} : Fails(at))
           \/ Hangup
  <2>1. /\ UNCHANGED <<options, files>>
        /\ UNCHANGED status \/ status' = "error"
    BY <1>4 DEF Usage, NewSession, DiscardCtrlTerminal, KeepsCtrlTerminal, DaemonChroot,
                ReopenFails, Daemonized, ChrootFails, Bind, ActionBinding, SignalThread, Fails,
                Hangup, session
  <2>2. \/ pc' = pc
        \/ pc' = "ended"
        \/ <<pc, pc'>> \in {<<"mask", "terminal">>, <<"terminal", "chdir">>, <<"chdir", "close">>,
                            <<"bind", "listen">>, <<"signals", "sigmask">>, <<"sigmask", "epoll">>}
        \/ pc = "reopen" /\ pc' = "daemon" /\ status' = "error"
        \/ pc = "daemon" /\ pc' = "logmode" /\ status = "ok" /\ options.daemon
    BY <1>4 DEF Usage, NewSession, DiscardCtrlTerminal, KeepsCtrlTerminal, DaemonChroot,
                ReopenFails, Daemonized, ChrootFails, Bind, ActionBinding, SignalThread, Fails,
                Hangup, Goes, Quits, Session, Detaching
  <2>3. QED
    BY <2>1, <2>2, FilesKept
<1>5. QED
  BY <1>1, <1>2, <1>3, <1>4 DEF Next

LEMMA LogKeptStep == ASSUME Typed, LogKept, Files', Typed', Next PROVE LogKept'
<1>1. CASE pc' = "ended"
  <2>1. UNCHANGED <<options, files>>
    BY <1>1 DEF Next, Usage, ReadOptions, NewSession, DiscardCtrlTerminal, KeepsCtrlTerminal,
         DaemonChroot, CloseFD, ReopenFD, ReopenFails, Daemonized, TrueLogMode, IsDir, Chroot,
         ChrootFails, Socket, Bind, Listen, ActionBinding, SignalThread, Serve, Fails, Hangup,
         Goes, Quits
  <2>2. QED
    BY <2>1 DEF LogKept, WellStarted, files
<1>2. CASE pc' \in {"main", "mask", "terminal", "chdir", "close"} \cup (Settled \ {"logmode"})
  BY <1>2 DEF Files, Fresh, LogKept, Settled
<1>3. CASE pc' \in {"reopen", "daemon", "logmode"}
  <2>1. logFd' >= 0 => logFd' \in Fds
    BY BoundsAssumption DEF Files, FileTypes, Fds
  <2>2. QED
    BY <1>3, <2>1 DEF Files, Fresh, NoneFrom, LogKept, Fds
<1>4. QED
  BY <1>1, <1>2, <1>3 DEF Typed, TypeOK, Settled

-----------------------------------------------------------------------------
(* The other parts of the invariant.                                       *)

LEMMA SessionStep == ASSUME Typed, Session, Next PROVE Session'
  BY DEF Next, Usage, ReadOptions, NewSession, DiscardCtrlTerminal, KeepsCtrlTerminal,
         DaemonChroot, CloseFD, ReopenFD, ReopenFails, Daemonized, TrueLogMode, IsDir, Chroot,
         ChrootFails, Socket, Bind, Listen, ActionBinding, SignalThread, Serve, Fails, Hangup,
         Goes, Quits,
         Session, Typed, TypeOK, session, Detaching, Settled, ForkLeads

LEMMA HangupsStep == ASSUME Typed, Session, Hangups, Next PROVE Hangups'
  BY DEF Next, Usage, ReadOptions, NewSession, DiscardCtrlTerminal, KeepsCtrlTerminal,
         DaemonChroot, CloseFD, ReopenFD, ReopenFails, Daemonized, TrueLogMode, IsDir, Chroot,
         ChrootFails, Socket, Bind, Listen, ActionBinding, SignalThread, Serve, Fails, Hangup,
         Goes, Quits,
         Session, Hangups, Typed, TypeOK, session, signals, Detaching, Settled, Blocked

LEMMA PlacesStep == ASSUME Typed, Places, Next PROVE Places'
<1>0. AtPath \in {"dir", "file", "absent"} /\ path \in {"start", "asked"}
  BY DEF Typed, TypeOK, OptionsType, AtPath
<1>1. UNCHANGED options /\ AtPath' = AtPath
  BY DEF Next, Usage, ReadOptions, NewSession, DiscardCtrlTerminal, KeepsCtrlTerminal,
         DaemonChroot, CloseFD, ReopenFD, ReopenFails, Daemonized, TrueLogMode, IsDir, Chroot,
         ChrootFails, Socket, Bind, Listen, ActionBinding, SignalThread, Serve, Fails, Hangup,
         Goes, Quits, AtPath
<1>2. CASE IsDir
  BY <1>0, <1>1, <1>2 DEF IsDir, Goes, Places, Listens
<1>3. CASE Chroot
  BY <1>0, <1>1, <1>3 DEF Chroot, Goes, Places, Listens
<1>4. CASE ~IsDir /\ ~Chroot
  <2>1. path' = path /\ (cwd' = cwd \/ pc' = "close")
    BY <1>4 DEF Next, Usage, ReadOptions, NewSession, DiscardCtrlTerminal, KeepsCtrlTerminal,
         DaemonChroot, CloseFD, ReopenFD, ReopenFails, Daemonized, TrueLogMode, 
         ChrootFails, Socket, Bind, Listen, ActionBinding, SignalThread, Serve, Fails, Hangup,
         Goes, Quits, place
  <2>2. \/ pc' = "ended" \/ pc' = pc
        \/ pc # "isdir" /\ pc # "chroot" /\ pc' # "chroot" /\ pc' # "socket"
           /\ (pc' \in Listens => pc \in Listens \cup {"socket"})
    BY <1>4 DEF Next, Usage, ReadOptions, NewSession, DiscardCtrlTerminal, KeepsCtrlTerminal,
         DaemonChroot, CloseFD, ReopenFD, ReopenFails, Daemonized, TrueLogMode, 
         ChrootFails, Socket, Bind, Listen, ActionBinding, SignalThread, Serve, Fails, Hangup,
         Goes, Quits, Listens
  <2>3. QED
    BY <1>1, <2>1, <2>2 DEF Places, Listens
<1>5. QED
  BY <1>2, <1>3, <1>4

LEMMA PortsStep == ASSUME Typed, Ports, Next PROVE Ports'
<1>1. CASE Bind
  <2>1. bound' = IF port = 0 THEN 49152 ELSE port
    BY <1>1 DEF Bind
  <2>2. port' = bound' /\ (port # 0 => port' = port) /\ port = options.port % 65536
    BY <1>1, <2>1 DEF Bind, Goes, Announces, Ports
  <2>3. QED
    BY <1>1, <2>2 DEF Bind, Goes, Ports, Listens, Detaching
<1>2. CASE ReadOptions
  BY <1>2 DEF ReadOptions, Ports, Port, Listens
<1>3. CASE ~Bind /\ ~ReadOptions
  <2>1. UNCHANGED <<options, ports>>
    BY <1>3 DEF Next, Usage, NewSession, DiscardCtrlTerminal, KeepsCtrlTerminal,
         DaemonChroot, CloseFD, ReopenFD, ReopenFails, Daemonized, TrueLogMode, IsDir, Chroot,
         ChrootFails, Socket, Listen, ActionBinding, SignalThread, Serve, Fails, Hangup,
         Goes, Quits
  <2>2. \/ pc' = "ended"
        \/ pc' = pc
        \/ pc # "main" /\ pc # "bind"
           /\ (pc' \in Listens \ {"bind"} => pc \in Listens \ {"bind"})
           /\ (pc' \in Detaching \cup {"logmode", "isdir", "chroot", "socket", "bind"} =>
                 pc \in Detaching \cup {"logmode", "isdir", "chroot", "socket"})
    BY <1>3 DEF Next, Usage, ReadOptions, NewSession, DiscardCtrlTerminal, KeepsCtrlTerminal,
         DaemonChroot, CloseFD, ReopenFD, ReopenFails, Daemonized, TrueLogMode, IsDir, Chroot,
         ChrootFails, Socket, Listen, ActionBinding, SignalThread, Serve, Fails, Hangup,
         Goes, Quits, Listens,
         Detaching
  <2>3. QED
    BY <2>1, <2>2 DEF Ports, ports, Listens, Detaching
<1>4. QED
  BY <1>1, <1>2, <1>3

(* What the two searches of DN_GetSayMode find. *)
LEMMA ModeOfStart ==
  ASSUME WellStarted, Typed, \A i \in Standard : fd[i] = options.std[i]
  PROVE  ModeOf(fd) = ModeIf(Without)
  BY DEF ModeOf, ModeIf, Without, WellStarted, Standard, Typed, OptionsType

LEMMA ModeOfNull == ASSUME StandardNull PROVE ModeOf(fd) = {"FILE"}
  BY DEF ModeOf, StandardNull, Standard

LEMMA ModesStep == ASSUME Typed, Session, Files, Modes, Next PROVE Modes'
<1>1. CASE ReadOptions
  <2>1. WellStarted => \A i \in Standard : fd[i] = options.std[i]
    BY <1>1 DEF ReadOptions, Files, AsStarted
  <2>2. WellStarted => oneMode' = ModeIf(Without)
    BY <1>1, <2>1, ModeOfStart DEF ReadOptions
  <2>3. pc' \in {"mask", "logmode"} /\ UNCHANGED options
    BY <1>1 DEF ReadOptions
  <2>4. QED
    BY <2>2, <2>3 DEF Modes, WellStarted, Without, Settled, Detaching
<1>2. CASE TrueLogMode
  <2>1. pc = "logmode" /\ pc' = "isdir" /\ UNCHANGED options
    BY <1>2 DEF TrueLogMode, Goes
  <2>2. CASE options.daemon
    <3>1. mode' = {"FILE"}
      BY <1>2, <2>1, <2>2, ModeOfNull DEF TrueLogMode, Files
    <3>2. oneMode' = oneMode
      BY <1>2, <3>1 DEF TrueLogMode
    <3>3. QED
      BY <2>1, <2>2, <3>1, <3>2 DEF Modes, ModeIf, WellStarted, Without, Settled, Detaching
  <2>3. CASE ~options.daemon
    <3>1. WellStarted => \A i \in Standard : fd[i] = options.std[i]
      BY <2>1, <2>3 DEF Files, AsStarted
    <3>2. WellStarted => mode' = ModeIf(Without)
      BY <1>2, <3>1, ModeOfStart DEF TrueLogMode
    <3>3. WellStarted => oneMode = ModeIf(Without)
      BY <2>1 DEF Modes, Settled
    <3>4. WellStarted => oneMode' = ModeIf(Without)
      BY <1>2, <3>2, <3>3 DEF TrueLogMode
    <3>5. QED
      BY <2>1, <2>3, <3>2, <3>4 DEF Modes, ModeIf, WellStarted, Without, Settled, Detaching
  <2>4. QED
    BY <2>2, <2>3
<1>3. CASE ~ReadOptions /\ ~TrueLogMode
  <2>1. UNCHANGED <<options, modes>>
    BY <1>3 DEF Next, Usage, ReadOptions, NewSession, DiscardCtrlTerminal, KeepsCtrlTerminal,
         DaemonChroot, CloseFD, ReopenFD, ReopenFails, Daemonized, TrueLogMode, IsDir, Chroot,
         ChrootFails, Socket, Bind, Listen, ActionBinding, SignalThread, Serve, Fails, Hangup,
         Goes, Quits
  <2>2. \/ pc' = "ended"
        \/ pc # "main" /\ pc # "logmode" /\ (pc' \in Settled \ {"logmode"} => pc \in Settled)
           /\ pc \in Detaching \cup Settled
        \/ pc' = pc
    BY <1>3 DEF Next, Usage, ReadOptions, NewSession, DiscardCtrlTerminal, KeepsCtrlTerminal,
         DaemonChroot, CloseFD, ReopenFD, ReopenFails, Daemonized, TrueLogMode, IsDir, Chroot,
         ChrootFails, Socket, Bind, Listen, ActionBinding, SignalThread, Serve, Fails, Hangup,
         Goes, Quits, Settled, Detaching
  <2>3. QED
    BY <2>1, <2>2 DEF Modes, modes, WellStarted, Without, Settled, Detaching
<1>4. QED
  BY <1>1, <1>2, <1>3

LEMMA TypedStep == ASSUME Typed, Session, Places, Files, Files', Next PROVE Typed'
<1>1. /\ options \in OptionsType
      /\ pc \in Detaching \cup Settled \cup {"main", "ended"}
      /\ fd[MaxFd] = "none"
      /\ status \in {"ok", "error"} /\ report \in {-1, 0, 1}
      /\ cwd \in {"start", "/", "asked"} /\ path \in {"start", "asked"}
      /\ port \in Nat /\ port < 65536 /\ bound \in Nat /\ bound < 65536
      /\ hangup \in {"kill", "ignore", "wait"}
  BY DEF Typed, TypeOK, Detaching, Settled
<1>2. leader \in BOOLEAN /\ terminal \in BOOLEAN /\ killed \in BOOLEAN
  BY DEF Typed, TypeOK
<1>3. options' = options
  BY DEF Next, Usage, ReadOptions, NewSession, DiscardCtrlTerminal, KeepsCtrlTerminal,
         DaemonChroot, CloseFD, ReopenFD, ReopenFails, Daemonized, TrueLogMode, IsDir, Chroot,
         ChrootFails, Socket, Bind, Listen, ActionBinding, SignalThread, Serve, Fails, Hangup,
         Goes, Quits
<1>4. pc' \in Detaching \cup Settled \cup {"main", "ended"}
  BY <1>1 DEF Next, Usage, ReadOptions, NewSession, DiscardCtrlTerminal, KeepsCtrlTerminal,
         DaemonChroot, CloseFD, ReopenFD, ReopenFails, Daemonized, TrueLogMode, IsDir, Chroot,
         ChrootFails, Socket, Bind, Listen, ActionBinding, SignalThread, Serve, Fails, Hangup,
         Goes, Quits, Detaching, Settled
<1>5. fd'[MaxFd] = "none"
  <2>1. CASE pc' \in {"ended", "main"}
    BY <1>1, <2>1 DEF Next, Usage, ReadOptions, NewSession, DiscardCtrlTerminal, KeepsCtrlTerminal,
         DaemonChroot, CloseFD, ReopenFD, ReopenFails, Daemonized, TrueLogMode, IsDir, Chroot,
         ChrootFails, Socket, Bind, Listen, ActionBinding, SignalThread, Serve, Fails, Hangup,
         Goes, Quits, files
  <2>2. CASE pc' \in Detaching \cup Settled
    <3>1. NoneFrom(5)' \/ NoneFrom(7)' \/ NoneFrom(8)'
      BY <2>2 DEF Files, Detaching, Settled, Listens
    <3>2. QED
      BY <3>1, BoundsAssumption DEF NoneFrom, Fds
  <2>3. QED
    BY <1>4, <2>1, <2>2
<1>6. oneMode' \subseteq {"FILE", "OUT"} /\ mode' \subseteq {"FILE", "OUT"}
  <2>1. oneMode \subseteq {"FILE", "OUT"} /\ mode \subseteq {"FILE", "OUT"}
    BY DEF Typed, TypeOK
  <2>2. ModeOf(fd) \subseteq {"FILE", "OUT"}
    BY DEF ModeOf
  <2>3. CASE ReadOptions
    BY <2>2, <2>3 DEF ReadOptions
  <2>4. CASE TrueLogMode
    <3>1. mode' = ModeOf(fd)
      BY <2>4 DEF TrueLogMode
    <3>2. oneMode' = IF "OUT" \in mode' THEN mode' ELSE oneMode
      BY <2>4 DEF TrueLogMode
    <3>3. QED
      BY <2>1, <2>2, <3>1, <3>2
  <2>5. CASE ~ReadOptions /\ ~TrueLogMode
    BY <2>1, <2>5
       DEF Next, Usage, NewSession, DiscardCtrlTerminal, KeepsCtrlTerminal, DaemonChroot, CloseFD,
         ReopenFD, ReopenFails, Daemonized, IsDir, Chroot, ChrootFails, Socket, Bind, Listen,
         ActionBinding, SignalThread, Serve, Fails, Hangup, Goes, Quits, modes
  <2>6. QED
    BY <2>3, <2>4, <2>5
<1>7. status' \in {"ok", "error"} /\ report' \in {-1, 0, 1}
  BY <1>1 DEF Next, Usage, ReadOptions, NewSession, DiscardCtrlTerminal, KeepsCtrlTerminal,
         DaemonChroot, CloseFD, ReopenFD, ReopenFails, Daemonized, TrueLogMode, IsDir, Chroot,
         ChrootFails, Socket, Bind, Listen, ActionBinding, SignalThread, Serve, Fails, Hangup,
         Goes, Quits, session
<1>8. leader' \in BOOLEAN /\ terminal' \in BOOLEAN
  <2>1. CASE NewSession
    BY <1>2, <2>1 DEF NewSession
  <2>2. CASE DiscardCtrlTerminal
    BY <1>2, <2>2 DEF DiscardCtrlTerminal, ForkLeads
  <2>3. CASE ~NewSession /\ ~DiscardCtrlTerminal
    <3>1. UNCHANGED <<leader, terminal>>
      BY <2>3 DEF Next, Usage, ReadOptions, KeepsCtrlTerminal,
         DaemonChroot, CloseFD, ReopenFD, ReopenFails, Daemonized, TrueLogMode, IsDir, Chroot,
         ChrootFails, Socket, Bind, Listen, ActionBinding, SignalThread, Serve, Fails, Hangup,
         Goes, Quits, session
    <3>2. QED
      BY <1>2, <3>1
  <2>4. QED
    BY <2>1, <2>2, <2>3
<1>9. cwd' \in {"start", "/", "asked"} /\ path' \in {"start", "asked"}
  BY <1>1 DEF Next, Usage, ReadOptions, NewSession, DiscardCtrlTerminal, KeepsCtrlTerminal,
         DaemonChroot, CloseFD, ReopenFD, ReopenFails, Daemonized, TrueLogMode, IsDir, Chroot,
         ChrootFails, Socket, Bind, Listen, ActionBinding, SignalThread, Serve, Fails, Hangup,
         Goes, Quits, place
<1>10. port' \in Nat /\ port' < 65536 /\ bound' \in Nat /\ bound' < 65536
  <2>1. CASE ReadOptions
    <3>1. options.port \in Nat
      <4>1. options.port \in Asks
        BY DEF Typed, TypeOK
      <4>2. QED
        BY <4>1, BoundsAssumption
    <3>2. \A n \in Nat : n % 65536 \in Nat /\ n % 65536 < 65536
      OBVIOUS
    <3>3. port' = options.port % 65536 /\ bound' = bound
      BY <2>1 DEF ReadOptions, Port
    <3>4. QED
      BY <1>1, <3>1, <3>2, <3>3
  <2>2. CASE Bind
    BY <1>1, <2>2 DEF Bind, Announces
  <2>3. CASE ~Bind /\ ~ReadOptions
    BY <1>1, <2>3 DEF Next, Usage, NewSession, DiscardCtrlTerminal, KeepsCtrlTerminal,
         DaemonChroot, CloseFD, ReopenFD, ReopenFails, Daemonized, TrueLogMode, IsDir, Chroot,
         ChrootFails, Socket, Listen, ActionBinding, SignalThread, Serve, Fails, Hangup,
         Goes, Quits, ports
  <2>4. QED
    BY <2>1, <2>2, <2>3
<1>11. hangup' \in {"kill", "ignore", "wait"}
  BY <1>1 DEF Next, Usage, ReadOptions, NewSession, DiscardCtrlTerminal, KeepsCtrlTerminal,
         DaemonChroot, CloseFD, ReopenFD, ReopenFails, Daemonized, TrueLogMode, IsDir, Chroot,
         ChrootFails, Socket, Bind, Listen, ActionBinding, SignalThread, Serve, Fails, Hangup,
         Goes, Quits, signals, Blocked
<1>12. killed' \in BOOLEAN
  <2>1. UNCHANGED killed \/ killed' = (hangup = "kill")
    BY DEF Next, Usage, ReadOptions, NewSession, DiscardCtrlTerminal, KeepsCtrlTerminal,
         DaemonChroot, CloseFD, ReopenFD, ReopenFails, Daemonized, TrueLogMode, IsDir, Chroot,
         ChrootFails, Socket, Bind, Listen, ActionBinding, SignalThread, Serve, Fails, Hangup,
         Goes, Quits, signals
  <2>2. QED
    BY <1>2, <2>1
<1>13. fd' \in Table /\ logFd' \in -1 .. MaxFd
  BY DEF Files, FileTypes
<1>14. options'.port \in Asks
  BY <1>3 DEF Typed, TypeOK
<1>15. QED
  BY <1>1, <1>3, <1>4, <1>5, <1>6, <1>7, <1>8, <1>9, <1>10, <1>11, <1>12, <1>13, <1>14
     DEF Typed, TypeOK, Table, Detaching, Settled

LEMMA KilledByHangup == ASSUME Next PROVE Hangup \/ killed' = killed
  BY DEF Next, Usage, ReadOptions, NewSession, DiscardCtrlTerminal, KeepsCtrlTerminal,
         DaemonChroot, CloseFD, ReopenFD, ReopenFails, Daemonized, TrueLogMode, IsDir, Chroot,
         ChrootFails, Socket, Bind, Listen, ActionBinding, SignalThread, Serve, Fails, Goes,
         Quits,
         signals

LEMMA InitIInv == Init => IInv
<1> SUFFICES ASSUME Init PROVE IInv
  OBVIOUS
<1>1. Typed
  <2>1. fd \in Table /\ fd[MaxFd] = "none"
    BY BoundsAssumption DEF Init, Table, Fds, Standard
  <2>2. options \in OptionsType /\ options.port \in Asks
    BY DEF Init, OptionsType
  <2>3. logFd \in -1 .. MaxFd
    BY BoundsAssumption DEF Init
  <2>4. leader \in BOOLEAN /\ terminal \in BOOLEAN /\ killed \in BOOLEAN
    BY DEF Init
  <2>5. QED
    BY <2>1, <2>2, <2>3, <2>4 DEF Init, Typed, TypeOK, Table
<1>2. Session /\ Hangups /\ Places /\ Ports /\ LogKept /\ Modes
  BY DEF Init, LogKept, Session, Hangups, Places, Ports, Modes, Detaching, Settled, Listens
<1>3. Files
  <2>1. FileTypes /\ OneLog /\ Fresh /\ LogFrom(4) /\ NoneFrom(5) /\ AsStarted
    BY <1>1, BoundsAssumption
       DEF Init, Typed, TypeOK, OptionsType, FileTypes, Table, OneLog, Fresh, LogFrom, NoneFrom,
           AsStarted, WellStarted, Fds, Standard
  <2>2. QED
    BY <2>1 DEF Init, Files, Settled, Listens
<1>4. QED
  BY <1>1, <1>2, <1>3 DEF IInv

LEMMA StepIInv == ASSUME IInv, [Next]_vars PROVE IInv'
<1>1. CASE Next
  <2>1. Files'
    BY <1>1, FilesStep DEF IInv
  <2>2. Typed' /\ Session' /\ Hangups' /\ LogKept'
    BY <1>1, <2>1, TypedStep, SessionStep, HangupsStep, LogKeptStep DEF IInv
  <2>3. Places' /\ Ports' /\ Modes'
    BY <1>1, PlacesStep, PortsStep, ModesStep DEF IInv
  <2>4. QED
    BY <2>1, <2>2, <2>3 DEF IInv
<1>2. CASE UNCHANGED vars
  <2>1. Typed'
    BY <1>2 DEF IInv, vars, files, modes, session, place, ports, signals, Typed, TypeOK
  <2>2. Session' /\ Hangups' /\ Ports'
    BY <1>2 DEF IInv, vars, session, ports, signals, Session, Hangups, Ports
  <2>3. Places' /\ LogKept' /\ Modes'
    BY <1>2 DEF IInv, vars, files, modes, place, LogKept, Places, Modes, AtPath, WellStarted,
                Without
  <2>4. Files'
    BY <1>2, FilesKept DEF IInv, vars, session
  <2>5. QED
    BY <2>1, <2>2, <2>3, <2>4 DEF IInv
<1>3. QED
  BY <1>1, <1>2

(* The strengthening that makes the invariants inductive. *)
THEOREM Invariance == Spec => []IInv
  BY InitIInv, StepIInv, PTL DEF Spec

(* Every value of a start keeps its type, and nine descriptors are enough. *)
THEOREM TypeCorrect == Spec => []TypeOK
<1>1. IInv => TypeOK
  BY DEF IInv, Typed
<1>2. QED
  BY <1>1, Invariance, PTL

(* A daemon that tries its directory is one, whatever was open when it was *)
(* started and whichever step of DN_Daemonize failed.                      *)
THEOREM DaemonDetached == Spec => []Detached
<1>1. IInv => Detached
  BY DEF IInv, Detached, Session, Files, Settled, Nothing, StandardNull
<1>2. QED
  BY <1>1, Invariance, PTL

(* No line of the log goes to, and none closes, the listener or the epoll  *)
(* instance, though every descriptor was closed behind syslog's back.      *)
THEOREM LogHarmless == Spec => []LogKeepsOff
<1>1. IInv => LogKeepsOff
  <2> SUFFICES ASSUME IInv PROVE LogKeepsOff
    OBVIOUS
  <2>1. WellStarted /\ logFd >= 0 => fd[logFd] \in {"log", "none"}
    BY DEF IInv, LogKept
  <2>2. pc = "serving" => {"listener", "epoll"} \subseteq {fd[i] : i \in Fds}
    BY DEF IInv, Files, Listens
  <2>3. QED
    BY <2>1, <2>2 DEF LogKeepsOff
<1>2. QED
  BY <1>1, Invariance, PTL

(* dinner serves the directory main names or the one it was started in, on *)
(* the port it announces.                                                  *)
THEOREM AsAsked == Spec => []ServedAsAsked
<1>1. IInv => ServedAsAsked
  BY DEF IInv, ServedAsAsked, Places, Ports, Listens
<1>2. QED
  BY <1>1, Invariance, PTL

(* The log modes are those of dn_say.c's comment for dinner.c, and those   *)
(* before the daemon for every other module.                               *)
THEOREM ModesKnown == Spec => []LogModes
<1>1. IInv => LogModes
  BY DEF IInv, LogModes, Modes, ModeIf, Without, Settled
<1>2. QED
  BY <1>1, Invariance, PTL

(* SIGHUP kills a daemon only before it is detached and between the reset  *)
(* of the handler and the blocking of the signal.                          *)
THEOREM HangupsSurvived == Spec => HangupHarmless
<1>1. IInv /\ [Next]_vars =>
        [~killed /\ killed' =>
           \/ ~options.daemon /\ pc # "serving"
           \/ pc \in {"main", "mask", "terminal", "sigmask"}
           \/ status = "error"]_vars
  <2> SUFFICES ASSUME IInv, Next, ~killed, killed'
               PROVE  \/ ~options.daemon /\ pc # "serving"
                      \/ pc \in {"main", "mask", "terminal", "sigmask"}
                      \/ status = "error"
    OBVIOUS
  <2>1. Hangup
    BY KilledByHangup
  <2>2. hangup = "kill" /\ pc # "ended"
    BY <2>1 DEF Hangup
  <2>3. QED
    BY <2>2 DEF IInv, Hangups
<1>2. QED
  BY <1>1, Invariance, PTL DEF Spec, HangupHarmless

-----------------------------------------------------------------------------
(* Programs.  None of its invariants is inductive by itself: who keeps a   *)
(* closed connection depends on what each program had copied when it was   *)
(* started, and on which process was at work.                              *)

(* The server works for a client whose connection is open, and the first   *)
(* process not after the stop.                                             *)
Busy == doing # "idle" => AtWork /\ conn[turn] = "open"

(* What the process at work has of the clients' connections is open, and   *)
(* no process has anything yet that no failed execl has made.              *)
Sockets ==
  /\ \A c \in Clients : c \in sockets[serving] => conn[c] \in {"open", "cut"}
  /\ \A p \in 0 .. Takeovers : p > serving => sockets[p] = {}

(* A program not yet waited for, whose execution has not failed, is the    *)
(* one the server is busy with, or the stop has ended the server.  All it  *)
(* has copied is still open.                                               *)
Live ==
  \A d \in Clients : program[d] \in {"runs", "exited"} /\ ret[d] = 1 =>
    /\ conn[d] \in {"open", "cut"}
    /\ ~AtWork \/ (doing = "run" /\ turn = d)
    /\ \A c \in Clients : c \in holds[d] => conn[c] \in {"open", "cut"}

PInv == PTypeOK /\ Busy /\ Sockets /\ Live /\ OpenIsServed

LEMMA InitPInv == PInit => PInv
<1> SUFFICES ASSUME PInit PROVE PInv
  OBVIOUS
<1> USE ClientsAssumption, TakeoversAssumption DEF PInit
<1>1. PTypeOK
  <2>1. sockets \in [0 .. Takeovers -> SUBSET (Clients \cup {Listener})]
    OBVIOUS
  <2>2. holds \in [Clients -> SUBSET (Clients \cup {Listener})]
    OBVIOUS
  <2>3. serving \in 0 .. Takeovers
    OBVIOUS
  <2>4. /\ conn \in [Clients -> {"away", "open", "closed", "cut"}]
        /\ program \in [Clients -> {"none", "runs", "exited", "reaped"}]
        /\ ret \in [Clients -> {-1, 1}]
        /\ turn \in Clients \cup {Nobody} /\ doing = "idle" /\ stopped \in BOOLEAN
    OBVIOUS
  <2>5. QED
    BY <2>1, <2>2, <2>3, <2>4 DEF PTypeOK
<1>2. sockets[serving] = {Listener} /\ \A p \in 0 .. Takeovers : p > 0 => sockets[p] = {}
  OBVIOUS
<1>3. Busy /\ Sockets /\ Live
  BY <1>2 DEF Busy, Sockets, Live, AtWork
<1>4. OpenIsServed
  BY <1>2 DEF OpenIsServed, AtWork
<1>5. QED
  BY <1>1, <1>3, <1>4 DEF PInv

LEMMA AcceptPInv == ASSUME PInv, NEW c \in Clients, Accept(c) PROVE PInv'
  BY ClientsAssumption, TakeoversAssumption
     DEF Accept, PInv, PTypeOK, Busy, Sockets, Live, OpenIsServed, AtWork, programs

LEMMA BeginPInv == ASSUME PInv, NEW c \in Clients, Begin(c) PROVE PInv'
  BY ClientsAssumption, TakeoversAssumption
     DEF Begin, PInv, PTypeOK, Busy, Sockets, Live, OpenIsServed, AtWork, programs, processes

LEMMA NoProgramPInv == ASSUME PInv, NoProgram PROVE PInv'
  BY ClientsAssumption, TakeoversAssumption
     DEF NoProgram, ReturnsError, PInv, PTypeOK, Busy, Sockets, Live, OpenIsServed, AtWork,
         programs, processes

LEMMA SpawnPInv == ASSUME PInv, Spawn PROVE PInv'
  BY ClientsAssumption, TakeoversAssumption
     DEF Spawn, PInv, PTypeOK, Busy, Sockets, Live, OpenIsServed, AtWork, processes

LEMMA ExecFailsPInv == ASSUME PInv, ExecFails \/ ExecFailsOnBody PROVE PInv'
  BY ClientsAssumption, TakeoversAssumption
     DEF ExecFails, ExecFailsOnBody, Inherits, PInv, PTypeOK, Busy, Sockets, Live,
         OpenIsServed, AtWork, programs

LEMMA WaitPidPInv == ASSUME PInv, WaitPid PROVE PInv'
  BY ClientsAssumption, TakeoversAssumption
     DEF WaitPid, WaitsFor, PInv, PTypeOK, Busy, Sockets, Live, OpenIsServed, AtWork, processes

LEMMA GiveUpPInv == ASSUME PInv, GiveUp PROVE PInv'
  BY ClientsAssumption, TakeoversAssumption
     DEF GiveUp, ReturnsError, PInv, PTypeOK, Busy, Sockets, Live, OpenIsServed, AtWork,
         processes, programs

LEMMA FinishPInv == ASSUME PInv, Finish PROVE PInv'
  BY ClientsAssumption, TakeoversAssumption
     DEF Finish, PInv, PTypeOK, Busy, Sockets, Live, OpenIsServed, AtWork, programs

LEMMA ProgramExitsPInv == ASSUME PInv, NEW c \in Clients, ProgramExits(c) PROVE PInv'
  BY ClientsAssumption, TakeoversAssumption
     DEF ProgramExits, PInv, PTypeOK, Busy, Sockets, Live, OpenIsServed, AtWork, processes

LEMMA StopPInv == ASSUME PInv, Stop PROVE PInv'
  BY ClientsAssumption, TakeoversAssumption
     DEF Stop, Loses, PInv, PTypeOK, Busy, Sockets, Live, OpenIsServed, AtWork, programs

LEMMA PInductive == PInv /\ [PNext]_pvars => PInv'
<1> SUFFICES ASSUME PInv, [PNext]_pvars PROVE PInv'
  OBVIOUS
<1>1. CASE \E c \in Clients : Accept(c) \/ Begin(c)
  BY <1>1, AcceptPInv, BeginPInv
<1>2. CASE NoProgram \/ Spawn \/ ExecFails \/ ExecFailsOnBody
  BY <1>2, NoProgramPInv, SpawnPInv, ExecFailsPInv
<1>3. CASE WaitPid \/ GiveUp \/ Finish
  BY <1>3, WaitPidPInv, GiveUpPInv, FinishPInv
<1>4. CASE Stop \/ \E c \in Clients : ProgramExits(c)
  BY <1>4, StopPInv, ProgramExitsPInv
<1>5. CASE UNCHANGED pvars
  BY <1>5 DEF pvars, processes, programs, PInv, PTypeOK, Busy, Sockets, Live, OpenIsServed, AtWork
<1> QED
  BY <1>1, <1>2, <1>3, <1>4, <1>5 DEF PNext, Server

(* Every value stays in its type, and a busy server is busy with a client  *)
(* (DN_ExecCGI is only called for one).                                    *)
THEOREM ProgramsTyped == PSpec => []PTypeOK
  BY InitPInv, PInductive, PTL DEF PSpec, PInv

(* Whichever process is at work, after any number of failed execl, has the *)
(* listener and the connections that are open.                             *)
THEOREM ServesOpen == PSpec => []OpenIsServed
  BY InitPInv, PInductive, PTL DEF PSpec, PInv

(* A connection that DN_FinishHttp has closed lives on only in a program   *)
(* whose DN_ExecCGI gave up before waitpid, or in a suspended process.     *)
THEOREM ClosedIsReleased == PSpec => []ClosedIsOver
<1>1. ASSUME PInv PROVE ClosedIsOver
  <2> SUFFICES ASSUME NEW c \in Clients, conn[c] = "closed", Held(c)
               PROVE  \/ \E d \in Clients : program[d] = "runs" /\ ret[d] = -1 /\ c \in holds[d]
                      \/ \E p \in 0 .. serving - 1 : c \in sockets[p]
    BY DEF ClosedIsOver
  <2>1. ASSUME NEW p \in 0 .. Takeovers, c \in sockets[p]
        PROVE  p \in 0 .. serving - 1
    BY <1>1, <2>1, TakeoversAssumption DEF PInv, PTypeOK, Sockets
  <2>2. ASSUME NEW d \in Clients, program[d] = "runs", c \in holds[d]
        PROVE  ret[d] = -1
    BY <1>1, <2>2 DEF PInv, PTypeOK, Live
  <2> QED
    BY <2>1, <2>2 DEF Held
<1> QED
  BY <1>1, InitPInv, PInductive, PTL DEF PSpec

(* An execution that has not failed leaves no program running or unwaited  *)
(* for once its connection is closed.                                      *)
THEOREM SuccessLeavesNone == PSpec => []SuccessReaps
<1>1. PInv => SuccessReaps
  BY DEF PInv, PTypeOK, Busy, Live, SuccessReaps, AtWork
<1> QED
  BY <1>1, InitPInv, PInductive, PTL DEF PSpec
=============================================================================
