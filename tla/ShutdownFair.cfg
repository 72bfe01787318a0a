SPECIFICATION FairSpec
CONSTANTS
  MaxEvents = 1
  Accepts = 1
  Signals = {"HUP", "INT", "TERM"}
PROPERTY Stops
CHECK_DEADLOCK FALSE
