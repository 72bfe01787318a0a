SPECIFICATION PFairSpec
CONSTANTS
  Clients = {c1, c2, c3}
  Listener = Listener
  Nobody = Nobody
  Takeovers = 2
INVARIANTS
  ClosedIsOver
  SuccessReaps
  OpenIsServed
PROPERTY Released
CHECK_DEADLOCK FALSE
