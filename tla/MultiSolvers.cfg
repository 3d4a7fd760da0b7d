SPECIFICATION FairSpec
CONSTANTS
  Vars = {1, 2, 3}
  NbSolvers = 2
  MaxLearnts = 1
  Formulas <- Small
INVARIANTS KnownEntailed FactsConsistent ResultRight
PROPERTY WorkersStop
CHECK_DEADLOCK FALSE
