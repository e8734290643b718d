SPECIFICATION TimelySpec
CONSTANTS
  Images <- MCOneImage
  Misread <- MCMisread
  Noise <- MCNoise
  TxCap = 2
  RxCap = 2
  OutCap = 2
  MaxRuns = 1
  MaxFaults = 1
PROPERTIES
  UploadCompletes
CHECK_DEADLOCK FALSE
