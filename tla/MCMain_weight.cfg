\* One option set: --delta-fc is without effect.
SPECIFICATION MainSpec
CONSTANTS
  NumExists = 2
  Inputs <- MCInputs
  OptionSet <- MCOptions
  ThreshPerVar = 2
  SampleLogs = {1, 2}
  PairLogs = {1, 3}
  NegInf = NegInf
  MultiSample = 2
  MaxBatch = 3
  Overshoot = 0
  Word = 17
  Tolerance = 2
  WrongCounts = {0, 9}
  LogEpsC = 173
  MaxError = 10
  ApproxThreshold = 35
  TrapFpe = TRUE
  MaxIteration = 6
  Assertions = TRUE
  CommandLines <- MCOneOption
INVARIANT
  WeightApplied
