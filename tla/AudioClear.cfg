SPECIFICATION Spec
CONSTANTS
  MaxReplies = 2
  LastPage = 3
  PlaybackSize = 2
  RefSize = 2
  RefBytes = 2
  MaxInFlight = 1
  MaxOutside = 2
PROPERTY ClearedPlaybackIsEmpty
CHECK_DEADLOCK FALSE
