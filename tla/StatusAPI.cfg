SPECIFICATION Spec
CONSTANTS
  FailThreshold = 3
  FlapWindow = 10
  FlapThreshold = 5
  CertWarnDays = 14
  Monitors = {m1}
  Limit = 4
INVARIANTS
  OneOrphanAtMost
  CardIsExplained
