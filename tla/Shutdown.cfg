SPECIFICATION Spec
CONSTANTS
  MaxEvents = 2
  Accepts = 2
  Signals = {"TERM"}
INVARIANTS
  HarmNeedsOverlap
  ListenerKept
  CleanStop
CHECK_DEADLOCK FALSE
