CONSTANTS
  p1 = p1
  p2 = p2
  r1 = r1
  h1 = h1
  h2 = h2
  Nobody = Nobody
  Readers <- OneReader
  HeapCells <- HeapOnly
  Procs <- TwoProcs
  Cells <- HeapOnly
  Builds = {TRUE}
  MaxAttempts = 2
  MaxGeneration = 3
  MaxDeaths = 1
SPECIFICATION FairSpec
PROPERTY LockNeverLost
