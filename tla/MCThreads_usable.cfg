\* The documented use of --threads.
SPECIFICATION Spec
CONSTANTS
  NumThreads = 2
  SamplesNeeded = 2
  Overshoot = 0
  Threshold = 2
  Logs <- MCLogs
  NegInf = NegInf
INVARIANTS
  ThreadsCanBeUsed
