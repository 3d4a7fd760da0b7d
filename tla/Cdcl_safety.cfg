SPECIFICATION FairSpec
CONSTANTS
  Vars = {1, 2, 3, 4}
  Formulas <- Files
  Decidable <- Decisions
  MaxClauses = 12
  MaxReductions <- Reductions
  Adapts <- Adaptive
INVARIANTS PropagationComplete ConflictAnalysable InRules
PROPERTIES LearntIsNew ImplementsRules Terminates
