\* Counts of 0 and 1 without FPE traps, logarithms of -infinity and 0; the 32 bits
\* of the clearance and of the seeds wrap after five iterations.
SPECIFICATION Spec
CONSTANTS
  NumExists = 2
  Inputs <- MCFewInputs
  OptionSet <- MCOptions
  ThreshPerVar = 1
  SampleLogs = {0, 1, NegInf}
  PairLogs = {0, 1}
  NegInf = NegInf
  MultiSample = 2
  MaxBatch = 3
  Overshoot = 1
  Word = 5
  Tolerance = 2
  WrongCounts = {0, 9}
  LogEpsC = 173
  MaxError = 10
  ApproxThreshold = 35
  TrapFpe = FALSE
  MaxIteration = 8
INVARIANT
  UndefinedOnlyAtZeroTotal
PROPERTY
  SamplesNeverReused
