SPECIFICATION MCSpec
CONSTANTS
  Vars = {1, 2, 3}
  Limit = 2
  Requests <- Mixed
  RandomDecisions = TRUE
  Decay = 2
  MaxDecisions = 5
  MaxConflicts = 1
INVARIANTS HeapIndexed OpenInHeap IncrementAlive HeldForPeriod
PROPERTIES OrderKept Restored StaticScoresStay
CHECK_DEADLOCK FALSE
