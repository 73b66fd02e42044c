SPECIFICATION FairSpec
CONSTANTS
  Producers = {p1, p2}
  Closers = {c1, c2}
  Alerts = {e1, e2, e3, e4}
  NumChildren = 2
  Cap = 2
INVARIANTS
  TypeOK
  NoPanic
  DrainedOnNil
  OutcomeIsTruth
PROPERTIES
  KeepsPromise
  CallsReturn
  EventuallyDelivered
CHECK_DEADLOCK FALSE
