CONSTANTS
  NoType = NoType
  None = None
  Unset = Unset
  Failed = Failed
  Span <- MCSpan
  SinglePrecision = 4
  Unichars = {0}
  FirstChar <- MCFirstChar
  Utf8 <- MCUtf8
  Text <- MCText
  Number <- MCNumber
  Infos <- MCInfos
  TypeNames <- MCTypeNames
  Folded <- MCFolded
  MaxTypes = 2
  Functions <- MCFunctions
  Values <- MCValues
  Vars = {v1, v2, v3}
  Cells = {c1, c2, c3}
  MaxArgs = 2
SPECIFICATION Spec
SYMMETRY Symmetry
INVARIANTS
  TypeOK
  ClassMeansType
  ArgumentsArrive
  ReadsWithin
  VariablesSurvive
