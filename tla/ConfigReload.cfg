SPECIFICATION FairSpec
CONSTANTS
  Versions = {v1, v2, v3}
  QueueCap = 2
  MaxEdits = 3
INVARIANTS
  TypeOK
  CaughtUp
PROPERTIES
  EventuallyApplied
