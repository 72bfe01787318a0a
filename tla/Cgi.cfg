SPECIFICATION FairSpec
CONSTANTS
  None = None
  Requests <- Split
  PageLen = 1
  Buf = 2
  PipeCap = 3
  Output = 4
  Failures = TRUE
INVARIANTS
  BodyConserved
  ReturnIsClean
  DiesOnly
  WaitsAreKnown
  WaitsNowhereElse
PROPERTIES
  ImplementsDelivery
  
CHECK_DEADLOCK FALSE
