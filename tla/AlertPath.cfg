SPECIFICATION FairPathSpec
CONSTANTS
  FailThreshold = 1
  FlapWindow = 2
  FlapThreshold = 1
  CertWarnDays = 14
  Monitors = {m1}
  Hours <- MCHours
  Cap = 2
INVARIANTS
  PictureIsTrue
  WarningsAreGiven
PROPERTIES
  OutageIsHeard
