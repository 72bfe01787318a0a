CONSTANTS
  c1 = c1
  c2 = c2
  c3 = c3
  file = file
  prog = prog
  gone = gone
  Conns = {c1, c2, c3}
  Listener = Listener
  None = None
  MaxEvents = 2
  MaxFds = 3
  Backlog = 2
  Paths <- MCPaths
  Absent = {gone}
  Executable = {prog}
  Requests <- FileOrProgram
  HeadLen = 1
  MaxPieces = 1
  Window = 1
  MaxBody = 1
  Ends = {"fin"}
  Failures = TRUE
SPECIFICATION Spec
SYMMETRY Symmetry
INVARIANTS
  IInv
  EpollAgrees
  BatchFresh
  HandlerState
  ReplyMatchesRequest
PROPERTY ImplementsService
