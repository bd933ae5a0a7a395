SPECIFICATION Spec
CONSTANTS
  QueueSize = 3
  Msg = {"StartConnection", "StartSession", "SayHello", "Input", "FinishSession", "FinishConnection"}
  NoMsg = NoMsg
  MaxOutside = 2
  MaxChunks = 2
  MaxNodes = 1
INVARIANTS TypeOK SleepersHaveNotHeard NoMessageIsStranded WireFollowsProtocol GoodbyeIsSaid ThreadsHaveTheirResources CrashesHaveACause
CHECK_DEADLOCK FALSE
PROPERTIES ImplementsFifo ProgramEnds
