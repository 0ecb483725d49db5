\* Three threads, four samples asked for, one more delivered by each.
SPECIFICATION FairSpec
CONSTANTS
  NumThreads = 3
  SamplesNeeded = 4
  Overshoot = 1
  Threshold = 2
  Logs <- MCLogs
  NegInf = NegInf
INVARIANTS
  TypeOK
  NeverAnswers
  OneCounterAtATime
  PartitionCovers
  SamplersDrawOneStream
PROPERTIES
  SamplesSettled
  AlwaysFails
