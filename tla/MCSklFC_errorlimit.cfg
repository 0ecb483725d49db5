\* The error limit of the defaults, 0.1, on an exact count.
SPECIFICATION Spec
CONSTANTS
  NumExists = 2
  Inputs <- MCTwoInputs
  OptionSet <- MCCommandLine
  ThreshPerVar = 3
  SampleLogs = {1, 2}
  PairLogs = {1, 3}
  NegInf = NegInf
  MultiSample = 2
  MaxBatch = 3
  Overshoot = 1
  Word = 16
  Tolerance = 2
  WrongCounts = {0, 9}
  LogEpsC = 173
  MaxError = 10
  ApproxThreshold = 35
  TrapFpe = TRUE
  MaxIteration = 8
INVARIANT
  ErrorWithinLimit
