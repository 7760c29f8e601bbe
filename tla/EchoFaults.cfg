SPECIFICATION Spec
CONSTANTS
  Clients = {c1, c2}
  c1 = c1
  c2 = c2
  Faults = {"refuse", "drop"}
  SemLimit = 1
  NumIterations = 2
  MaxIter = 1
INVARIANTS BarrierHolds WaitGroupExact RoundTripsCounted HandlersFollowClients
PROPERTIES RunEnds ImplementsEchoRun
