SPECIFICATION FairSpec
CONSTANTS
  a1 = a1
  a2 = a2
  h1 = h1
  h2 = h2
  NoTarget = NoTarget
  Targets <- MCTargets
INVARIANTS
  TypeOK
  ConnectedMeansLive
  NoStaleEvent
PROPERTIES
  FiniReturns
\* A call of session_fini on a dead session may hang the program for good.
CHECK_DEADLOCK FALSE
