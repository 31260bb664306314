SPECIFICATION LiveSpec
CONSTANTS
  Attempts = {a1, a2}
  None = None
  Messages = {"m1", "m2"}
  Trees = {"t1", "t2"}
  Main = "main"
  Proposal = "proposal"
  MaxCommits = 3
  MaxMoves = 5
  MaxFaults = 2
  MaxCrashes = 1
INVARIANTS PublicationInv LinkIsRecoverable
PROPERTIES CommittedIsConfirmed BusyEnds
CHECK_DEADLOCK FALSE
