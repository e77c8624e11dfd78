\* A page is 4 units.  Created sizes: empty, too small for a manager, and one that does
\* not fill its pages; growing by 1 is not always enough for a block.
CONSTANTS
  p1 = p1
  p2 = p2
  Procs <- TwoProcs
  CreateSizes = {0, 1, 7}
  ExtraSizes = {1, 4}
  MinInitialization = 1
  FirstBlock = 2
  MinBlock = 2
  PageSize = 4
  MaxAttempts = 2
  MaxObjects = 2
  MaxFileSize = 8
  MaxDeaths = 1
SPECIFICATION FairSpec
INVARIANT SegmentInv
INVARIANT AttachedIsUsable
INVARIANT SoleCreator
PROPERTY FailureRestoresHeap
PROPERTY EveryCallEnds
