SPECIFICATION FairSpec
CONSTANTS
  SelfStart = 8
  SelfEnd = 16
  PageSize = 8
  Word = 4
  StubLen = 4
  WordLimit = 64
  MemTop = 52
  Loads <- MCLoads
  Lens <- MCLens
  Words <- MCWords
  MaxPiece = 5
  MaxFaults = 2
INVARIANTS
  EnteredIntact
  StaysInControl
  RefusesOnlyStraddling
PROPERTIES
  AcceptedIsEntered
  HostLearns
CHECK_DEADLOCK FALSE
