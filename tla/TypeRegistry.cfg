CONSTANTS
  Null = Null
  GObject = GObject
  GInitiallyUnowned = GInitiallyUnowned
  GEnum = GEnum
  notify = notify
  NativeTypes <- Natives
  NativeSupers <- MCNativeSupers
  GObjectType = GObject
  Derivable <- MCDerivable
  TypeNames = {A, B}
  Keys = {changed}
  NativeSignals = {}
  TypeObjs = {t1}
  SigObjs = {s1}
  SignalArgs <- FullOnly
  MaxRequests = 2
SPECIFICATION Spec
INVARIANTS
  TypeOK
  NoStaleClassClosure
  ClassesClosed
  
PROPERTIES
  AccumulatorMissesOnlyOld
