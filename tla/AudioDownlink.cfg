SPECIFICATION Spec
CONSTANTS
  MaxReplies = 2
  LastPage = 3
  PlaybackSize = 2
  RefSize = 1
  RefBytes = 1
  MaxInFlight = 1
  MaxOutside = 1
INVARIANTS TypeOK HeadersAreNotDecoded  PlaybackInOrder
PROPERTIES MessagesAreHandled SpeechIsPlayed
CHECK_DEADLOCK FALSE
