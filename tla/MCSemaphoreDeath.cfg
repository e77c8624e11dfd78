CONSTANTS
  p1 = p1
  p2 = p2
  p3 = p3
  Nobody = Nobody
  Procs <- ThreeProcs
  InitialCount = 0
  MaxCount = 2
  MaxCalls = 2
  MaxSpurious = 0
  MaxDeaths = 1
SPECIFICATION Spec
CHECK_DEADLOCK FALSE
INVARIANT OwnerDeathIsReported
