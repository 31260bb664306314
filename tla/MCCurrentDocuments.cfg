SPECIFICATION LiveSpec
CONSTANTS
  Docs = {d1, d2}
  d1 = d1
  d2 = d2
  Home = d1
  None = None
  MaxMoves = 3
  MaxFaults = 2
INVARIANTS DocumentsInv ReaderIsOfSelected
PROPERTIES AddressIsAnswered
CHECK_DEADLOCK FALSE
