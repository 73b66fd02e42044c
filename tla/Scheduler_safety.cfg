SPECIFICATION Spec
CONSTANTS
  FailThreshold = 1
  FlapWindow = 1
  FlapThreshold = 1
  CertWarnDays = 14
  Monitors = {m1, m2}
  Workers = {w1, w2}
  Hours <- LowHour
  MayCrash = TRUE
SYMMETRY Symmetry
INVARIANTS
  TypeOK
  OneWorkerPerMonitor
  NoSendOnClosedJobs
  QuiescentOnReturn
PROPERTIES
  PipelineSpec
