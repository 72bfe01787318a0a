SPECIFICATION FairSpec
CONSTANTS
  PageLen = 3
  Cache = 3
  Size = 4
  Window = 3
  FileLens <- Lengths
  Refusals = 2
  Failures = TRUE
INVARIANTS
  Conserved
  ReportIsTrue
  OutDrained
PROPERTIES
  ImplementsDelivery
  Sent
CHECK_DEADLOCK FALSE
