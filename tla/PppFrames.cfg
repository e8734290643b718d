SPECIFICATION FairSpec
CONSTANTS
  N = 3
  MaxFrame = 3
  LineCap = 3
  MaxSent = 4
  MaxLost = 1
  Tails <- MCTail
INVARIANTS
  ReaderUndisturbed
  OverrunsOnlyAfterLoss
PROPERTIES
  TakenInOrder
  WrittenFramesArrive
CHECK_DEADLOCK FALSE
