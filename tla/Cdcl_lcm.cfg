SPECIFICATION LSpec
CONSTANTS
  Vars = {1, 2, 3, 4}
  Formulas <- Files
  Decidable <- Decisions
  MaxClauses = 18
  MaxReductions <- Reductions
  MaxStarts = 2
  Adapts <- Adaptive
INVARIANTS ResumesPropagated InLRules
PROPERTIES LImplementsRules
CONSTRAINT LastSearch
