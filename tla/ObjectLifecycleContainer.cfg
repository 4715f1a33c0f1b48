CONSTANTS
  Null = Null
  Zvals = {z1, z2}
  Wrappers = {w1}
  GObjs = {g1}
  Closures = {c1}
  MaxVars = 1
  MaxEmissions = 1
  MaxLost = 1
  MaxRequests = 1
SPECIFICATION Spec
INVARIANTS
  CallbackGetsContainer
