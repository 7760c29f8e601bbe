SPECIFICATION Spec
CONSTANTS
  NumPairs = 1
  U16 = 65536
  MaxCount = 3
  StoreBuffers = FALSE
INVARIANTS NoDeadlock NoLostWakeup
PROPERTIES Termination ImplementsRunner
