CONSTANTS
  a = a
  b = b
  Keys = {1, 2, 3, 4, 5, 6, 7, 8}
  Values = {a, b}
  ValuesOf <- TwoForOneKey
  Nodes = {1, 2, 3, 4, 5, 6, 7, 8}
SPECIFICATION Spec
VIEW KeyView
INVARIANT TreeInv
INVARIANT SearchExact
PROPERTY NodesStay
PROPERTY MapSpec
