SPECIFICATION FairCellSpec
CONSTANTS
  t1 = t1
  t2 = t2
  t3 = t3
  Callers <- AllThreads
  Setters <- SomeSet
  MaxUses = 2
INVARIANTS
  ReadsInitialised
  InitRunsOnce
PROPERTIES
  ValueNeverChanges
  GetReturns
CHECK_DEADLOCK FALSE
