SPECIFICATION Spec
CONSTANTS
  Empty = Empty
  NoTarget = NoTarget
  NoNetwork = NoNetwork
  NoPin = NoPin
  s1 = s1
  s2 = s2
  a1 = a1
  h1 = h1
  h2 = h2
  k1 = k1
  Ssids <- MCSsids
  Passwords <- MCPasswords
  Accounts <- MCAccounts
  Hosts <- MCHosts
  Pins <- MCPins
  BootConfigs <- BootSetUp
  NetReports <- NetMoves
  Ps5Reports <- NoReports
  PinReports <- NoReports
PROPERTY
  RetryTakesPushedCredentials
