\* Every file of up to four of the lines, the last of which may be cut.
SPECIFICATION FairSpec
CONSTANTS
  LineChoices <- MCLines
  MaxLines = 4
  MaxTokens = 5
  MaxName = 2
  NumVars = 2
  VarLimit = 2
INVARIANTS
  TypeOK
  ParseCorrect
PROPERTIES
  ParsingEnds
  ImplementsReading
