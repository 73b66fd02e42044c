SPECIFICATION FairSpec
CONSTANT Cap = 2
INVARIANTS
  TypeOK
  LateIsReported
  CleanExit
PROPERTIES
  ShutdownEnds
CHECK_DEADLOCK FALSE
