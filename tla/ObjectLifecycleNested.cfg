CONSTANTS
  Null = Null
  Zvals = {z1, z2}
  Wrappers = {w1, w2}
  GObjs = {g1, g2}
  Closures = {c1}
  MaxVars = 1
  MaxEmissions = 2
  MaxLost = 0
  MaxRequests = 1
SPECIFICATION Spec
SYMMETRY Symmetry
INVARIANTS
  ClosuresWatched
  GObjectRefsExact
