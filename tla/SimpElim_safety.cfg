CONSTANTS
  Vars = {1, 2, 3, 4}
  Formulas <- Files
  MaxClauses = 12
  Options <- Usual
SPECIFICATION FairSpec
INVARIANTS InPreprocessing OccursComplete Reduced ModelExtends
PROPERTIES Terminates ImplementsRules
CHECK_DEADLOCK FALSE
