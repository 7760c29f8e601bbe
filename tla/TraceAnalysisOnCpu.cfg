SPECIFICATION Spec
CONSTANTS
  DiscardNum = 1
  DiscardDen = 3
  WindowSizes = {1, 2, 3, 4}
  InsnCounts = {0, 1}
  CycCounts = {1, 2, 3}
  DurationNs = 1
  MaxSamples = 3
  Preemption = FALSE
  MaxTime = 16
INVARIANTS OnCpuConsistent
CHECK_DEADLOCK FALSE
