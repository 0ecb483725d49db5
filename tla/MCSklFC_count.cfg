\* The loop with logarithms of at least one bit, batches of 2 and 4.
SPECIFICATION FairSpec
CONSTANTS
  NumExists = 2
  Inputs <- MCInputs
  OptionSet <- MCOptions
  ThreshPerVar = 3
  SampleLogs = {1, 2}
  PairLogs = {1, 3}
  NegInf = NegInf
  MultiSample = 2
  MaxBatch = 3
  Overshoot = 1
  Word = 17
  Tolerance = 2
  WrongCounts = {0, 9}
  LogEpsC = 173
  MaxError = 10
  ApproxThreshold = 35
  TrapFpe = TRUE
  MaxIteration = 8
INVARIANTS
  TypeOK
  UndefinedOnlyWithoutS2
  PoolInv
  FreshSeeds
  EstimateWithinLogs
  SignalOnlyAfterOvercount
  NeverRefused
PROPERTIES
  ImplementsStoppingRule
  Terminates
