SPECIFICATION FairSpec
CONSTANTS
  t1 = t1
  t3 = t3
  t2 = t2
  Threads <- TwoThreads
  Half = 4
  MaxCalls = 3
PROPERTIES
  WaiterEnters
CHECK_DEADLOCK FALSE
