SPECIFICATION Spec
CONSTANTS
  StreamLen = 5
  MaxChunk = 4
  BufSize = 2
  MaxToken = 3
INVARIANTS SameBytesOrFailure CloseFlushes LinesInOrder
PROPERTIES WritesReturn
CHECK_DEADLOCK FALSE
