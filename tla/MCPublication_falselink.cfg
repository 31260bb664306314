SPECIFICATION Spec
CONSTANTS
  Attempts = {a1, a2}
  None = None
  Messages = {"m1"}
  Trees = {"t1", "t2"}
  Main = "main"
  Proposal = "proposal"
  MaxCommits = 3
  MaxMoves = 6
  MaxFaults = 0
  MaxCrashes = 2
INVARIANT LinkIsExact
CHECK_DEADLOCK FALSE
