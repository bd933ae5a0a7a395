SPECIFICATION MCSpec
CONSTANTS
  MaxInFlight = 1
  MaxOutside = 2
INVARIANTS TypeOK FreshSessionIsStarted NoClientIsOverwritten SerialModeMatchesState SerialReadyHasNoSession
PROPERTIES DeadSessionIsLeft HandshakeEnds LostConnectionIsNoticed BargeInIsServed
CHECK_DEADLOCK FALSE
