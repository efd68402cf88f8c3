SPECIFICATION FairSpec
CONSTANTS
  south = south
  portA = portA
  portB = portB
  L2 = L2
  R2 = R2
  Pins <- MCPins
  Port <- MCPort
INVARIANTS
  TypeOK
  NoLostInput
PROPERTIES
  PressArrives
