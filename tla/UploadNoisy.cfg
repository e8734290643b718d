SPECIFICATION NoisySpec
CONSTANTS
  Images <- MCMixed
  Misread <- MCMoved
  Noise <- MCNoise
  TxCap = 2
  RxCap = 2
  OutCap = 2
  MaxRuns = 2
  MaxFaults = 3
INVARIANTS
  BootsIntactImage
  
CHECK_DEADLOCK FALSE
