SPECIFICATION Spec
CONSTANTS
  Runs = {1, 2}
  None = None
  Procs = {1, 2}
  MaxLog = 1
  MaxPages = 2
  MaxMoves = 2
  MaxErrors = 1
INVARIANTS ConsoleInv AskedRunIsSelected
CHECK_DEADLOCK FALSE
