SPECIFICATION PathSpec
CONSTANTS
  Shapes <- MCShapes
  Meanings <- MCMeanings
  Encode <- MCEncode
  Inflate <- MCInflate
  CannotInflate = CannotInflate
  ChunkSize = 6
  InitSize = 8
  MinGrowth = 6
  MaxMessages = 2
  MaxFaults = 2
INVARIANTS TypeOK NoOverflow ParserStaysInside WholeMessagesAreUnderstood
PROPERTY ImplementsChannel
CHECK_DEADLOCK FALSE
