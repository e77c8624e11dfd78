CONSTANTS
  a = a
  b = b
  Keys = {1, 2, 3, 4, 5}
  Values = {a, b}
  ValuesOf <- TwoForOneKey
  Nodes = {1, 2, 3, 4, 5}
  Hash <- HashOfInteger
  DefaultBucketCount = 2
  MaxBuckets = 8
  LoadUnit = 4
  LoadFactors = {1, 2, 8}
  Requests = {0, 1, 3}
SPECIFICATION Spec
VIEW KeyView
INVARIANT TableInv
PROPERTY LoadKept
PROPERTY OrderKept
PROPERTY MapSpec
