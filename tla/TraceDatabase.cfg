SPECIFICATION Spec
CONSTANTS
  Options <- AllOptions
  Handlers <- SoundHandlers
  MaxRecords = 2
  WindowSizes = {1, 2}
  MaxConnections = 2
  AnalysedRecords = 1
INVARIANTS
  NothingLost
  JoinsComplete
  ViewsReadable
  FigureIsFresh
PROPERTIES
  ExportEnds
CHECK_DEADLOCK FALSE
