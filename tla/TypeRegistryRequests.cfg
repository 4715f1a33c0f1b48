CONSTANTS
  Null = Null
  GObject = GObject
  GInitiallyUnowned = GInitiallyUnowned
  GEnum = GEnum
  notify = notify
  NativeTypes <- Natives
  NativeSupers <- MCNativeSupers
  GObjectType = GObject
  Derivable <- MCDerivable
  TypeNames = {A}
  Keys = {changed, moved}
  NativeSignals = {}
  TypeObjs = {t1}
  SigObjs = {s1}
  SignalArgs <- AllArgs
  MaxRequests = 2
SPECIFICATION FairSpec
PROPERTIES
  GenerateEnds
  FatalIsSwept
  ImplementsRequestScope
