SPECIFICATION Spec
CONSTANTS
  FailThreshold = 3
  FlapWindow = 10
  FlapThreshold = 5
  CertWarnDays = 14
  Monitors = {m1}
  Workers = {w1}
  Hours <- NoHours
  MayCrash = FALSE
PROPERTIES
  DownAlertsAreEarned
