CONSTANTS
  Null = Null
  Zvals = {z1, z2}
  Wrappers = {w1, w2}
  GObjs = {g1}
  Closures = {c1}
  MaxVars = 1
  MaxEmissions = 1
  MaxLost = 1
  MaxRequests = 2
SPECIFICATION FairSpec
PROPERTIES
  ShutdownEnds
  ImplementsRequestScope
