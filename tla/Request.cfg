SPECIFICATION FairSpec
CONSTANTS
  Size = 4
  Ask = 3
  None = None
  Paths <- MCPaths
  Absent = {"missing"}
  Executable = {"program"}
  Directories = {"dir"}
  Index <- MCIndex
  Requests <- EveryRequest
  Ends = {"fin", "rst"}
INVARIANTS
  HeldIsStream
  AnsweredWhole
  GetRunsExecutables
PROPERTY HeadRead
