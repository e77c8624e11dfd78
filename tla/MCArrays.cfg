CONSTANTS
  v1 = v1
  v2 = v2
  s1 = s1
  s2 = s2
  e1 = e1
  e2 = e2
  Size = 6
  Values = {e1, e2}
  Vectors = {v1, v2}
  Strings = {s1, s2}
  MaxRequest = 3
  Texts <- FewTexts
SPECIFICATION Spec
SYMMETRY Symmetry
INVARIANT ArrayInv
INVARIANT StringsTerminated
PROPERTY ArraySpec
