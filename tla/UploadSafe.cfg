SPECIFICATION Spec
CONSTANTS
  Images <- MCImages
  Misread <- MCMisread
  Noise <- MCNoise
  TxCap = 3
  RxCap = 3
  OutCap = 2
  MaxRuns = 2
  MaxFaults = 2
INVARIANTS
  TypeOK
  SessionAgreement
  HostNeverPanics
PROPERTIES
  ImplementsTransfer
CHECK_DEADLOCK FALSE
