SPECIFICATION AskSpec
CONSTANTS
  MaxInterval = 1
  MaxFailures = 1
  MaxEpochs = 5
  MaxPauses = 1
  Runs = {1, 2}
  None = None
  Off = Off
  Limit = 2
  MaxMoves = 2
INVARIANTS
  PollingInv
  HistoryIsASet
  ChosenStays
  BusyIsReal
PROPERTIES
  KeepsContract
  AnswerArrives
CHECK_DEADLOCK FALSE
