\* Every closed formula of up to three clauses over three variables.
SPECIFICATION Spec
CONSTANTS
  NumVars = 3
  VarChoices = {0, 1, 2}
  ClauseChoices <- MCClauses
  MaxClauses = 3
  MaxQuantified = 3
  WellFormed = TRUE
INVARIANTS
  TypeOK
  NewVariablesAreNew
  GCountsTwoOutputs
  CountsSkolemFunctions
  BaselineAgrees
