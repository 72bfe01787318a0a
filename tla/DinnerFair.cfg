CONSTANTS
  c1 = c1
  c2 = c2
  c3 = c3
  file = file
  prog = prog
  gone = gone
  Conns = {c1, c2, c3}
  Listener = Listener
  None = None
  MaxEvents = 2
  MaxFds = 2
  Backlog = 2
  Paths <- MCPaths
  Absent = {gone}
  Executable = {prog}
  Requests <- JustFile
  HeadLen = 2
  MaxPieces = 2
  Window = 1
  MaxBody = 1
  Ends = {"rst"}
  Failures = FALSE
SPECIFICATION FairSpec
INVARIANT ReplyComplete
PROPERTY Answered
