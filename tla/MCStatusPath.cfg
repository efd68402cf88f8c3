SPECIFICATION Spec
CONSTANTS
  t1 = t1
  Targets <- MCTargets
  NoTarget = NoTarget
  MaxReports = 1
  HistoryMax = 2
INVARIANTS
  TypeOK
  PageShowsStatus
  LedFollowsMain
  LedLetsGo
