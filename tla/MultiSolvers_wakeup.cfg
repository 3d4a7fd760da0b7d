SPECIFICATION FairSpec
CONSTANTS
  Vars = {1, 2}
  NbSolvers = 2
  MaxLearnts = 1
  Formulas <- Facts
PROPERTY SolveReturns
CHECK_DEADLOCK FALSE
