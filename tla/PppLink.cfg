SPECIFICATION Spec
CONSTANTS
  IdSpace = 5
  Addr <- MCAddr
  PeerOptions <- MCOptions
  MaxRestarts = 1
  MaxUpsets = 1
  MaxLost = 1
  MaxTroubles = 2
  MaxAhead = 2
INVARIANTS
  TypeOK
  AddressAgreed
  PanicsOnlyAfterRestart
  
PROPERTIES
  IpMeetsOpenLink
  IpSentOnOpenLink
CHECK_DEADLOCK FALSE
