SPECIFICATION Spec
CONSTANTS
  MaxProcs = 2
  MaxDecisions = 3
  Limit = 1
  GoAheads = {0, 2}
  StartCsr = TRUE
  StepCsr = {TRUE, FALSE}
  CpuLimit = TRUE
  CanCrash = TRUE
  WallLimit = TRUE
  CanDie = TRUE
INVARIANTS InStep RequestsExpected ResultIsCurrent SegmentsAccounted RaisesOnlyOnCrash
PROPERTIES ImplementsSession
CHECK_DEADLOCK FALSE
