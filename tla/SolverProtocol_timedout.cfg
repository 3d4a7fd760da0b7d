SPECIFICATION FairSpec
CONSTANTS
  MaxProcs = 1
  MaxDecisions = 3
  Limit = 1
  GoAheads = {0, 2}
  StartCsr = TRUE
  StepCsr = {TRUE, FALSE}
  CpuLimit = FALSE
  CanCrash = FALSE
  WallLimit = FALSE
  CanDie = FALSE
INVARIANT TimedOutMeansUndecided
CHECK_DEADLOCK FALSE
