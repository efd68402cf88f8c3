SPECIFICATION FairSpec
CONSTANTS
  Empty = Empty
  s1 = s1
  p1 = p1
  h1 = h1
  h2 = h2
  Ssids <- MCSsids
  Passwords <- MCPasswords
  Accounts <- MCAccounts
  Hosts <- MCHosts
INVARIANTS
  TypeOK
  NoLostSave
  NoLostFlag
PROPERTIES
  ReportsKeepEachOther
  EventuallySaved
