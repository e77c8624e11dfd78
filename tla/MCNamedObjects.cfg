CONSTANTS
  p1 = p1
  p2 = p2
  p3 = p3
  n1 = n1
  n2 = n2
  a1 = a1
  a2 = a2
  a3 = a3
  Nobody = Nobody
  NoHeader = NoHeader
  Pids <- ThreePids
  Names <- TwoNames
  Headers <- ThreeHeaders
  PidReuse = TRUE
  MaxDeaths = 2
SPECIFICATION Spec
SYMMETRY Symmetry
INVARIANT RegistryInv
INVARIANT PendingHeaderKept
INVARIANT FreedOnce
INVARIANT ReadyIsWhole
INVARIANT UntornIsClean
PROPERTY OpenCleans
