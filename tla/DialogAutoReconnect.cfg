SPECIFICATION Spec
CONSTANTS
  MaxInFlight = 1
  MaxOutside = 3
INVARIANT SessionIsStarted
CHECK_DEADLOCK FALSE
