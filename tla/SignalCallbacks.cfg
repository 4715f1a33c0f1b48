CONSTANTS
  None = None
  Callbacks = {b1, b2}
  Signals = {s1, s2}
  MaxRefs = 5
SPECIFICATION Spec
SYMMETRY Symmetry
INVARIANTS
  HeldIsAlive
  NothingIsKept
