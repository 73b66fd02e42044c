SPECIFICATION FairSpec
CONSTANTS
  FailThreshold = 1
  FlapWindow = 1
  FlapThreshold = 1
  CertWarnDays = 14
  Monitors = {m1, m2}
  Workers = {w1}
  Hours <- NoHours
  MayCrash = FALSE
PROPERTIES
  EveryBatchEnds
  CancelStops
  ProbedAgain
