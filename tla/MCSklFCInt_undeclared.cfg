\* Quantifier lines that name a variable beyond the header.
SPECIFICATION Spec
CONSTANTS
  NumVars = 2
  VarChoices = {0, 1, 2, 3}
  ClauseChoices <- MCOneClause
  MaxClauses = 2
  MaxQuantified = 2
  WellFormed = FALSE
INVARIANT
  NewVariablesAreNew
