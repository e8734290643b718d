SPECIFICATION FairSpec
CONSTANTS
  t1 = t1
  t2 = t2
  t3 = t3
  Threads <- ThreeThreads
  Half = 5
  MaxCalls = 2
INVARIANTS
  MutualExclusion
PROPERTIES
  ImplementsFairLock
  NoWakeupLost
CHECK_DEADLOCK FALSE
