SPECIFICATION LiveSpec
CONSTANTS
  Workspaces = {"w1", "w2"}
  Present = {"w1"}
  None = None
  Failed = Failed
  Forms = {"f1", "f2"}
  Sample = "f1"
  Stored = "f2"
  Bad = "bad"
  Procs = {1, 2}
  MaxMoves = 2
  MaxErrors = 1
INVARIANTS EditorInv
PROPERTIES ClearedIsSaved BusyEnds
CHECK_DEADLOCK FALSE
