SPECIFICATION Spec
CONSTANTS
  Tasks = {t1, t2}
  Known = {t1}
  None = None
  Filters = {f1, f2}
  FirstFilter = f1
  Pages = 2
  Texts = {goal}
  Empty = Empty
  FirstDraft = goal
  MaxAttempts = 2
  MaxHistory = 3
  MaxMoves = 2
  MaxErrors = 1
  Jumps = TRUE
INVARIANTS
  InboxInv
  ShownIsAddressed
  ReviewIsOfShown
  DraftIsSaved
PROPERTIES OwnStartIsFound CatchesUp
CHECK_DEADLOCK FALSE
