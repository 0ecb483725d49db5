\* mkstemp, write, pipe, fork, exec and Ganak may fail, and Ganak may never end.
SPECIFICATION FairSpec
CONSTANTS
  Scripts <- MCScripts
  PipeCapacity = 3
  ReadSize = 2
  MayFail = TRUE
INVARIANTS
  TypeOK
  AllOutputIsParsed
  NoZombie
  FileOutlivesGanak
PROPERTIES
  CallEnds
  HangsOnlyWithGanak
  ImplementsOracle
