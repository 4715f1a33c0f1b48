CONSTANTS
  Null = Null
  GObject = GObject
  Gio = Gio
  Gtk = Gtk
  Object = Object
  Initable = Initable
  Widget = Widget
  Node = Node
  guess_type = guess_type
  Guess_type = Guess_type
  init = init
  POINT_NAME = POINT_NAME
  MAJOR_VERSION = MAJOR_VERSION
  gio_guess_type = gio_guess_type
  gtk_init = gtk_init
  Namespaces = {GObject, Gio, Gtk}
  Requires <- MCRequires
  FunctionInfos = {guess_type, Guess_type, init}
  ConstantInfos = {POINT_NAME, MAJOR_VERSION}
  HomeOf <- MCHomeOf
  Ancestors <- MCAncestors
  BaseClasses = {Object}
  FunctionName <- MCFunctionName
  TextConstants = {POINT_NAME}
  Preloaded = {GObject}
  ObjectInfos = {Object, Initable, Widget, Node}
  UserNames = {gtk_init, gio_guess_type}
  MaxRequests = 2
SPECIFICATION FairSpec
INVARIANTS
  TypeOK
  
  GirFunctionsTracked
  
PROPERTIES
  LoadedAtMostOnce
  LoadCompletesOrDies
  ImplementsRequestScope
