\* Mixed alignments, batches of two and three, both ways to grow, a resize that is too
\* small for a new block (368), and one that is not a multiple of 16 (453).
CONSTANTS
  ManagerHeaderSize = 40
  TotalSize = 352
  SizeModulus = 65536
  Requests = {1, 40, 100}
  Alignments = {8, 64}
  GrowSizes = {368, 453}
  BatchSizes = {2, 3}
SPECIFICATION Spec
VIEW LiveView
INVARIANT HeapInv
INVARIANT PayloadsSafe
PROPERTY FailedBatchRestores
PROPERTY PayloadsStay
