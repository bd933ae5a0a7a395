SPECIFICATION Spec
CONSTANTS
  ChunkBytes = 5
  FetchBytes = 8
  CaptureSize = 20
  MaxItems = 4
  MaxOutside = 4
PROPERTY NoSpeechIsSkipped
CHECK_DEADLOCK FALSE
