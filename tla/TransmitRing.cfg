SPECIFICATION Spec
CONSTANTS
  Size = 13
  WordLen = 2
  BlockMax = 3
  MaxPayload = 2
  MaxText = 3
INVARIANTS
  DropsOnlyWhatCannotFit
PROPERTIES
  ImplementsFrameQueue
