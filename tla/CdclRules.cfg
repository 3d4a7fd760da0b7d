SPECIFICATION Spec
CONSTANTS
  Vars = {1, 2}
  Formulas <- Formulas2
INVARIANTS Inv Sound
CHECK_DEADLOCK FALSE
