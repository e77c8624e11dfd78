CONSTANTS
  p1 = p1
  p2 = p2
  p3 = p3
  Nobody = Nobody
  Procs <- ThreeProcs
  InitialCount = 0
  MaxCount = 2
  MaxCalls = 2
  MaxSpurious = 1
  MaxDeaths = 1
SPECIFICATION FairSpec
CHECK_DEADLOCK FALSE
INVARIANT SemaphoreInv
INVARIANT NoLostWakeup
PROPERTY ClosedForGood
PROPERTY WaitersAreServed
