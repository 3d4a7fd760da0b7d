SPECIFICATION FairSpec
CONSTANTS
  MaxProcs = 2
  MaxDecisions = 3
  Limit = 1
  GoAheads = {2}
  StartCsr = TRUE
  StepCsr = {TRUE, FALSE}
  CpuLimit = TRUE
  CanCrash = TRUE
  WallLimit = TRUE
  CanDie = TRUE
PROPERTIES CallsReturn OrphansEnd
CHECK_DEADLOCK FALSE
