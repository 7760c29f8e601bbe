SPECIFICATION Spec
CONSTANTS
  Clients = {c1}
  c1 = c1
  Faults = {"ctx", "drop", "refuse", "accept"}
  SemLimit = 1
  NumIterations = 2
  MaxIter = 1
INVARIANTS NilMeansComplete NothingLeft
