SPECIFICATION Spec
CONSTANTS
  Options <- AllOptions
  Handlers <- AllTables
  MaxRecords = 2
  WindowSizes = {1}
  MaxConnections = 0
  AnalysedRecords = 1
INVARIANTS
  NothingLost
CHECK_DEADLOCK FALSE
