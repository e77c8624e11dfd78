CONSTANTS
  list1 = list1
  list2 = list2
  a1 = a1
  a2 = a2
  b1 = b1
  Temp = Temp
  Lists = {list1, list2}
  Nodes = {1, 2, 3, 4}
  Values = {a1, a2, b1}
  Rank <- Ranks
  Inputs <- Ranges
  MaxSize = 2
SPECIFICATION Spec
VIEW PlaceView
INVARIANT ListInv
PROPERTY ListSpec
