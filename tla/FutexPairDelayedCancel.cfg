SPECIFICATION Spec
CONSTANTS
  NumPairs = 1
  U16 = 65536
  MaxCount = 2
  StoreBuffers = TRUE
INVARIANTS NoDeadlock
