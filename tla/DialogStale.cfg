SPECIFICATION Spec
CONSTANTS
  MaxInFlight = 1
  MaxOutside = 3
PROPERTY StaleEventsAreIgnored
CHECK_DEADLOCK FALSE
