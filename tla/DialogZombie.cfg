SPECIFICATION Spec
CONSTANTS
  MaxInFlight = 1
  MaxOutside = 3
INVARIANT ConnectedHasClient
CHECK_DEADLOCK FALSE
