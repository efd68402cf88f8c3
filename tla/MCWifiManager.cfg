SPECIFICATION FairSpec
CONSTANTS
  c1 = c1
  c2 = c2
  NoNetwork = NoNetwork
  Credentials <- MCCredentials
  MaxQueue = 2
INVARIANTS
  TypeOK
  AnswersEarned
  FlagsTellTheLink
PROPERTIES
  CallsReturn
  ImplementsWifiLink
