SPECIFICATION Spec
CONSTANTS
  FailThreshold = 3
  FlapWindow = 10
  FlapThreshold = 5
  CertWarnDays = 14
  Monitors = {m1}
  Hours <- MCHours
INVARIANTS
  TypeOK
  StateIsVerdict
  DownIsReported
  CertOncePerCrossing
  NoSilentOutage
  RecoveryAnswersAlarm
