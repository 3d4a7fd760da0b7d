CONSTANTS
  Vars = {1, 2, 3, 4}
  Formulas <- Files
  MaxClauses = 12
  Options <- Rcheck
SPECIFICATION FairSpec
INVARIANT ModelExtends
CHECK_DEADLOCK FALSE
