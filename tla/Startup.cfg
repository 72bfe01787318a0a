SPECIFICATION Spec
CONSTANTS
  MaxFd = 8
  Asks = {0, 8080, 65616}
  Failures = TRUE
INVARIANTS
  Detached
  LogKeepsOff
  ServedAsAsked
  LogModes
PROPERTY HangupHarmless
CHECK_DEADLOCK FALSE
