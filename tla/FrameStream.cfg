SPECIFICATION Spec
CONSTANTS
  F = 2
  Payloads <- MCPayloads
  Logs <- MCLogs
  Texts <- MCTexts
  MaxItems = 3
  LineCap = 2
  MaxFaults = 1
  Noise <- MCNoise
INVARIANTS
  DeliveredInOrder
  Resynchronises
  NeverBails
  StuffingRoundTrips
CHECK_DEADLOCK FALSE
