SPECIFICATION FairSpec
CONSTANTS
  MaxPad = 4
  Runs = 10
INVARIANTS
  PreemptedOnce
  VerdictExact
  RaceFound
PROPERTIES
  ImplementsInterleaving
  LoopEnds
CHECK_DEADLOCK FALSE
