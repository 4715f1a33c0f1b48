CONSTANTS
  Null = Null
  Invalid = Invalid
  A = A
  B = B
  Span <- MCSpan
  SinglePrecision = 4
  Unichars <- MCUnichars
  FirstChar <- MCFirstChar
  Utf8 <- MCUtf8
  Text <- MCText
  ParamSpecs = {p1, p2}
  Arguments <- MCArguments
  Classes = {A, B}
  Ancestors <- MCAncestors
  Keys = {0}
  StringKey = StringKey
  MaxId = 2
  Objs = {o1}
  Zvals <- MCZvals
  MaxRequests = 2
  MaxTables = 3
SPECIFICATION Spec
SYMMETRY Symmetry
INVARIANTS
  TypeOK
  
  WithinBounds
  ReadsAreTyped
  TablesExact
PROPERTIES
  
  ImplementsPropertyMap
