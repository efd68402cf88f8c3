SPECIFICATION FairSpec
CONSTANTS
  n1 = n1
  n2 = n2
  p1 = p1
  p2 = p2
  k1 = k1
  k2 = k2
  Nets <- MCNets
  Ps5s <- MCPs5s
  Keys <- MCKeys
  Empty = Empty
  NoKey = NoKey
  Torn = Torn
INVARIANTS
  TypeOK
  FlashFollowsRam
  LinkedIsStored
  NoTornHost
PROPERTIES
  StoredHalfKept
  RegistrationEnds
