SPECIFICATION Spec
CONSTANTS
  MaxInFlight = 1
  MaxOutside = 3
INVARIANT ReadyHearsWakeWord
CHECK_DEADLOCK FALSE
