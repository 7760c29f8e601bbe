SPECIFICATION Spec
CONSTANTS
  Clients = {c1, c2}
  c1 = c1
  c2 = c2
  Faults = {}
  SemLimit = 1
  NumIterations = 0
  MaxIter = 2
INVARIANTS CountsAgree ClientStopIsGraceful
PROPERTIES ClientsStop BothStop
