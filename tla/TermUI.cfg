SPECIFICATION FairSpec
CONSTANTS
  Names <- MCNames
  Checks = {1, 2, 3, 4}
  Queries <- MCQueries
  Dashboards <- MCDashboards
  BarLen = 2
  Fetches = {f1, f2}
INVARIANTS
  TypeOK
  MarkedIsDescribed
PROPERTIES
  ScreenCatchesUp
CHECK_DEADLOCK FALSE
