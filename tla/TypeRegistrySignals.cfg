CONSTANTS
  Null = Null
  GObject = GObject
  GInitiallyUnowned = GInitiallyUnowned
  GEnum = GEnum
  notify = notify
  NativeTypes <- Natives
  NativeSupers <- MCNativeSupers
  GObjectType = GObject
  Derivable <- MCDerivable
  TypeNames = {A}
  Keys = {changed, notify}
  NativeSignals = {notify}
  TypeObjs = {t1}
  SigObjs = {s1, s2}
  SignalArgs <- FullOnly
  MaxRequests = 1
SPECIFICATION Spec
SYMMETRY Symmetry
INVARIANTS
  AssociationExact
PROPERTIES
  RegistrationIsFinal
  RegisteredSignalIsKept
