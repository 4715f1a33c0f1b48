-------------------------- MODULE GIRepositoryProofs --------------------------
(***************************************************************************)
(* Proofs about GIRepository, for every repository: any namespaces, any     *)
(* dependencies, ancestries and names, and any number of requests.          *)
(***************************************************************************)
EXTENDS GIRepository, TLAPS

-----------------------------------------------------------------------------
\* Only a running script is inside load_ns().
LoadingIsActive == loading # Null => phase = "active"

\* What load_ns() has gone through so far is there.
LoadedSoFar ==
    loading # Null =>
        LET gone == InfosOf(loading.ns) \ loading.todo
        IN  /\ gone \cap ObjectInfos \subseteq classes
            /\ \A f \in gone \cap FunctionInfos : function_table[FunctionName[f]] # "none"
            /\ gone \cap TextConstants \subseteq constants

\* No namespace was completed by a request that is yet to come.
CompletedBefore == \A ns \in Namespaces : completed[ns] <= request

\* The inductive invariant.
Inv ==
    /\ TypeOK
    /\ LoadingIsActive
    /\ AncestorsLoaded
    /\ GirFunctionsTracked
    /\ LoadedSoFar
    /\ CompletedBefore
    /\ CompletedIsPresent

-----------------------------------------------------------------------------
(* Typing                                                                   *)

\* Every function's name is a key of PHP's table.
LEMMA FunctionNames == \A f \in FunctionInfos : FunctionName[f] \in Names
BY DEF Names

\* A namespace consists of infos.
LEMMA InfosOfInfos == \A ns \in Namespaces : InfosOf(ns) \subseteq Infos
BY DEF InfosOf

\* PHP_MINIT_FUNCTION leaves well typed variables.
LEMMA TypeInit == Init => TypeOK
BY ConstantsAssumption DEF Init, TypeOK

\* One step of load_ns() keeps the types, whichever info comes next.
LEMMA TypeLoadStep ==
    ASSUME TypeOK, LoadStep
    PROVE  TypeOK'
<1>1. loading \in [ns : Namespaces, todo : SUBSET Infos]
  BY DEF TypeOK, LoadStep
<1>2. ASSUME NEW info PROVE [loading EXCEPT !.todo = @ \ {info}]
                                \in [ns : Namespaces, todo : SUBSET Infos]
  BY <1>1
<1>3. CASE \E o \in ObjectInfos : LoadClass(o)
  BY <1>2, <1>3, ConstantsAssumption DEF TypeOK, LoadClass, ClassesFor, Done
<1>4. CASE \E f \in FunctionInfos : LoadFunction(f)
  BY <1>2, <1>4, FunctionNames DEF TypeOK, LoadFunction, Remember, Done
<1>5. CASE \E c \in ConstantInfos : LoadConstant(c)
  BY <1>2, <1>5 DEF TypeOK, LoadConstant, Done
<1>6. CASE LoadEnd
  BY <1>1, <1>6 DEF TypeOK, LoadEnd
<1> QED BY <1>3, <1>4, <1>5, <1>6 DEF LoadStep

\* Every step keeps the types.
LEMMA TypeNext == TypeOK /\ [Next]_vars => TypeOK'
<1> SUFFICES ASSUME TypeOK, [Next]_vars PROVE TypeOK'
  OBVIOUS
<1>1. CASE RInit
  BY <1>1, ConstantsAssumption DEF TypeOK, RInit
<1>2. CASE \E n \in UserNames : DeclareFunction(n)
  BY <1>2 DEF TypeOK, DeclareFunction
<1>3. CASE \E ns \in Namespaces : LoadKnown(ns)
  BY <1>3 DEF TypeOK, LoadKnown
<1>4. CASE \E ns \in Namespaces : LoadStart(ns)
  BY <1>4, InfosOfInfos, ConstantsAssumption DEF TypeOK, LoadStart, Require
<1>5. CASE LoadStep
  BY <1>5, TypeLoadStep
<1>6. CASE RShutdown
  BY <1>6 DEF TypeOK, RShutdown, DeleteRuntimeFunctions
<1>7. CASE ShutdownExecutor
  BY <1>7 DEF TypeOK, ShutdownExecutor
<1>8. CASE Halted \/ UNCHANGED vars
  BY <1>8 DEF TypeOK, Halted, vars
<1> QED BY <1>1, <1>2, <1>3, <1>4, <1>5, <1>6, <1>7, <1>8 DEF Next

\* Every variable of the repository's model keeps its type, whatever PHP,
\* the scripts and load_ns() do.
THEOREM Typing == Spec => []TypeOK
BY TypeInit, TypeNext, PTL DEF Spec


-----------------------------------------------------------------------------
(* The inductive invariant                                                  *)

\* The invariant holds after PHP_MINIT_FUNCTION.
LEMMA InvInit == Init => Inv
<1> SUFFICES ASSUME Init PROVE Inv
  OBVIOUS
<1>1. TypeOK
  BY TypeInit
<1>2. AncestorsLoaded
  BY ConstantsAssumption DEF Init, AncestorsLoaded
<1>3. GirFunctionsTracked
  BY DEF Init, GirFunctionsTracked, GirNames
<1>4. LoadingIsActive /\ LoadedSoFar /\ CompletedBefore
  BY DEF Init, LoadingIsActive, LoadedSoFar, CompletedBefore
<1>5. CompletedIsPresent
  BY DEF Init, CompletedIsPresent
<1> QED BY <1>1, <1>2, <1>3, <1>4, <1>5 DEF Inv

\* A class comes with its ancestors, and these with theirs.
LEMMA InvLoadClass ==
    ASSUME Inv, loading # Null, NEW o \in ObjectInfos, LoadClass(o), TypeOK'
    PROVE  Inv'
<1> USE DEF Inv
<1>1. AncestorsLoaded'
  BY ConstantsAssumption DEF AncestorsLoaded, LoadClass, ClassesFor
<1>2. classes \subseteq classes'
  BY DEF LoadClass, ClassesFor
<1>3. CompletedBefore'
  BY DEF CompletedBefore, LoadClass
<1>4. CASE o \in classes \/ HasBase(o)
  <2>1. /\ phase' = phase /\ phase = "active"
        /\ classes' = classes \cup Ancestors[o]
        /\ loading' = [loading EXCEPT !.todo = @ \ {o}]
        /\ UNCHANGED <<request, function_table, runtime_functions, constants, completed>>
    BY <1>4 DEF LoadClass, ClassesFor, Done, LoadingIsActive
  <2>2. GirFunctionsTracked' /\ LoadingIsActive' /\ CompletedIsPresent'
    BY <1>2, <2>1 DEF GirFunctionsTracked, GirNames, LoadingIsActive, CompletedIsPresent
  <2>3. loading \in [ns : Namespaces, todo : SUBSET Infos]
    BY DEF TypeOK
  <2>4. loading'.ns = loading.ns /\ loading'.todo = loading.todo \ {o}
    BY <2>1, <2>3
  <2>5. o \in Ancestors[o] /\ o \notin FunctionInfos /\ o \notin ConstantInfos
    BY ConstantsAssumption
  <2>6. LoadedSoFar'
    BY <2>1, <2>4, <2>5, ConstantsAssumption DEF LoadedSoFar
  <2> QED BY <1>1, <1>3, <2>2, <2>6
<1>5. CASE ~(o \in classes \/ HasBase(o))
  <2>1. /\ phase' = "crashed" /\ loading' = Null
        /\ UNCHANGED <<request, classes, function_table, runtime_functions,
                       constants, completed>>
    BY <1>5 DEF LoadClass
  <2>2. GirFunctionsTracked' /\ LoadingIsActive' /\ CompletedIsPresent' /\ LoadedSoFar'
    BY <2>1 DEF GirFunctionsTracked, GirNames, LoadingIsActive, CompletedIsPresent,
                LoadedSoFar
  <2> QED BY <1>1, <1>3, <2>2
<1> QED BY <1>4, <1>5

\* A function is remembered whether its registration succeeds or not, so what
\* was registered is.
LEMMA InvLoadFunction ==
    ASSUME Inv, loading # Null, NEW f \in FunctionInfos, LoadFunction(f), TypeOK'
    PROVE  Inv'
<1> DEFINE name == FunctionName[f]
<1> USE DEF Inv
<1>1. /\ phase = "active" /\ phase' \in {"active", "exiting"}
      /\ UNCHANGED <<request, classes, constants, completed>>
      /\ \A n \in Names : function_table[n] # "none" => function_table'[n] = function_table[n]
      /\ \A n \in Names \ {name} : function_table'[n] = function_table[n]
  BY FunctionNames DEF LoadFunction, LoadingIsActive, TypeOK
<1>2. runtime_functions \subseteq runtime_functions'
  BY DEF LoadFunction, Remember
<1>3. AncestorsLoaded' /\ CompletedBefore'
  BY <1>1 DEF AncestorsLoaded, CompletedBefore
<1>4. CompletedIsPresent'
  <2> SUFFICES ASSUME NEW ns \in Namespaces,
                      completed'[ns] = request', request' # 0,
                      NEW h \in InfosOf(ns) \cap FunctionInfos
               PROVE  function_table'[FunctionName[h]] # "none"
    BY <1>1 DEF CompletedIsPresent
  <2> QED BY <1>1, FunctionNames DEF CompletedIsPresent
<1>5. GirFunctionsTracked'
  <2> SUFFICES ASSUME NEW n \in Names, function_table'[n] = "gir"
               PROVE  \E h \in runtime_functions' : FunctionName[h] = n
    BY <1>1 DEF GirFunctionsTracked, GirNames
  <2>1. CASE function_table[n] = "gir"
    BY <2>1, <1>2 DEF GirFunctionsTracked, GirNames
  <2>2. CASE function_table[n] # "gir"
    <3>1. function_table[name] = "none" /\ runtime_functions' = runtime_functions \cup {f}
      BY <2>2, <1>1 DEF LoadFunction, Remember
    <3>2. n = name
      BY <2>2, <1>1
    <3> QED BY <3>1, <3>2
  <2> QED BY <2>1, <2>2
<1>6. CASE loading' = Null
  BY <1>3, <1>4, <1>5, <1>6 DEF LoadingIsActive, LoadedSoFar
<1>7. CASE loading' # Null
  <2>1. loading \in [ns : Namespaces, todo : SUBSET Infos]
    BY DEF TypeOK
  <2>2. /\ loading' = [loading EXCEPT !.todo = @ \ {f}]
        /\ phase' = "active"
        /\ function_table'[name] # "none"
    BY <1>1, <1>7, FunctionNames DEF LoadFunction, Done, TypeOK
  <2>3. loading'.ns = loading.ns /\ loading'.todo = loading.todo \ {f}
    BY <2>1, <2>2
  <2>4. f \notin ObjectInfos /\ f \notin TextConstants
    BY ConstantsAssumption
  <2>5. \A h \in FunctionInfos :
            function_table[FunctionName[h]] # "none" => function_table'[FunctionName[h]] # "none"
    BY <1>1, FunctionNames
  <2>6. LoadedSoFar'
    BY <1>1, <2>2, <2>3, <2>4, <2>5 DEF LoadedSoFar
  <2> QED BY <1>3, <1>4, <1>5, <2>2, <2>6 DEF LoadingIsActive
<1> QED BY <1>6, <1>7

\* A constant is there or cannot be converted.
LEMMA InvLoadConstant ==
    ASSUME Inv, loading # Null, NEW c \in ConstantInfos, LoadConstant(c), TypeOK'
    PROVE  Inv'
<1> USE DEF Inv
<1>1. /\ phase' = phase /\ phase = "active"
      /\ constants' = constants \cup ({c} \cap TextConstants)
      /\ loading' = [loading EXCEPT !.todo = @ \ {c}]
      /\ UNCHANGED <<request, classes, function_table, runtime_functions, completed>>
  BY DEF LoadConstant, Done, LoadingIsActive
<1>2. AncestorsLoaded' /\ CompletedBefore' /\ LoadingIsActive' /\ GirFunctionsTracked'
  BY <1>1 DEF AncestorsLoaded, CompletedBefore, LoadingIsActive, GirFunctionsTracked, GirNames
<1>3. CompletedIsPresent'
  BY <1>1 DEF CompletedIsPresent
<1>4. loading \in [ns : Namespaces, todo : SUBSET Infos]
  BY DEF TypeOK
<1>5. loading'.ns = loading.ns /\ loading'.todo = loading.todo \ {c}
  BY <1>1, <1>4
<1>6. c \notin ObjectInfos /\ c \notin FunctionInfos
  BY ConstantsAssumption
<1>7. LoadedSoFar'
  BY <1>1, <1>5, <1>6 DEF LoadedSoFar
<1> QED BY <1>2, <1>3, <1>7

\* With nothing left to do, what was gone through is the whole namespace.
LEMMA InvLoadEnd ==
    ASSUME Inv, loading # Null, LoadEnd, TypeOK'
    PROVE  Inv'
<1> USE DEF Inv
<1>1. /\ loading.ns \in Namespaces /\ loading.todo = {}
      /\ phase' = phase /\ loading' = Null
      /\ completed' = [completed EXCEPT ![loading.ns] = request]
      /\ UNCHANGED <<request, classes, function_table, runtime_functions, constants>>
  BY DEF LoadEnd, TypeOK
<1>2. AncestorsLoaded' /\ LoadingIsActive' /\ GirFunctionsTracked' /\ LoadedSoFar'
  BY <1>1 DEF AncestorsLoaded, LoadingIsActive, GirFunctionsTracked, GirNames, LoadedSoFar
<1>3. CompletedBefore'
  BY <1>1 DEF CompletedBefore, TypeOK
<1>4. CompletedIsPresent'
  <2> SUFFICES ASSUME NEW ns \in Namespaces
               PROVE  /\ completed'[ns] # 0 => InfosOf(ns) \cap ObjectInfos \subseteq classes'
                      /\ completed'[ns] = request' /\ phase' \in {"active", "exiting"}
                           /\ request' # 0 =>
                            /\ \A f \in InfosOf(ns) \cap FunctionInfos :
                                    function_table'[FunctionName[f]] # "none"
                            /\ InfosOf(ns) \cap TextConstants \subseteq constants'
    BY DEF CompletedIsPresent
  <2>1. CASE ns = loading.ns
    BY <1>1, <2>1 DEF LoadedSoFar
  <2>2. CASE ns # loading.ns
    <3>1. completed'[ns] = completed[ns]
      BY <1>1, <2>2 DEF TypeOK
    <3> QED BY <1>1, <3>1 DEF CompletedIsPresent
  <2> QED BY <2>1, <2>2
<1> QED BY <1>2, <1>3, <1>4

\* The invariant is inductive.
LEMMA InvNext == Inv /\ [Next]_vars => Inv'
<1> SUFFICES ASSUME Inv, [Next]_vars PROVE Inv'
  OBVIOUS
<1> USE DEF Inv
<1>0. TypeOK'
  BY TypeNext
<1>1. CASE RInit
  <2>1. GirNames = {} /\ loading = Null
    BY <1>1 DEF RInit, GirFunctionsTracked, LoadingIsActive
  <2>2. GirFunctionsTracked' /\ LoadingIsActive' /\ LoadedSoFar'
    BY <1>1, <2>1 DEF RInit, GirFunctionsTracked, GirNames, LoadingIsActive, LoadedSoFar
  <2>3. \A ns \in Namespaces : /\ completed[ns] \in Nat /\ request \in Nat
                               /\ completed[ns] <= request
    BY ConstantsAssumption DEF TypeOK, CompletedBefore
  <2>4. /\ \A ns \in Namespaces : completed'[ns] = completed[ns] /\ completed'[ns] < request'
        /\ request' = request + 1
    BY <1>1, <2>3 DEF RInit
  <2>5. CompletedBefore'
    BY <2>3, <2>4 DEF CompletedBefore
  <2>6. CompletedIsPresent'
    BY <1>1, <2>3, <2>4 DEF RInit, CompletedIsPresent
  <2> QED BY <1>0, <1>1, <2>2, <2>5, <2>6 DEF RInit, AncestorsLoaded
<1>2. CASE \E n \in UserNames : DeclareFunction(n)
  <2>1. PICK n \in UserNames : DeclareFunction(n)
    BY <1>2
  <2>2. /\ phase = "active" /\ loading = Null
        /\ \A x \in Names : /\ function_table[x] = "gir" <=> function_table'[x] = "gir"
                            /\ function_table[x] # "none" => function_table'[x] # "none"
        /\ UNCHANGED <<phase, request, classes, runtime_functions, constants,
                       loading, completed>>
    BY <2>1 DEF DeclareFunction, Running, TypeOK
  <2>3. GirFunctionsTracked'
    BY <2>2 DEF GirFunctionsTracked, GirNames
  <2>4. CompletedIsPresent'
    BY <2>2, FunctionNames DEF CompletedIsPresent
  <2> QED BY <1>0, <2>2, <2>3, <2>4
          DEF AncestorsLoaded, LoadingIsActive, LoadedSoFar, CompletedBefore
<1>3. CASE \E ns \in Namespaces : LoadKnown(ns)
  BY <1>0, <1>3
  DEF LoadKnown, AncestorsLoaded, LoadingIsActive, LoadedSoFar, CompletedBefore,
      GirFunctionsTracked, GirNames, CompletedIsPresent
<1>4. CASE \E ns \in Namespaces : LoadStart(ns)
  <2>1. PICK ns \in Namespaces : LoadStart(ns)
    BY <1>4
  <2>2. /\ loading' = [ns |-> ns, todo |-> InfosOf(ns)]
        /\ phase = "active"
        /\ UNCHANGED <<phase, request, classes, function_table, runtime_functions,
                       constants, completed>>
    BY <2>1 DEF LoadStart, Running
  <2>3. LoadedSoFar'
    <3>1. loading'.ns = ns /\ loading'.todo = InfosOf(ns)
      BY <2>2
    <3> QED BY <3>1 DEF LoadedSoFar, InfosOf
  <2> QED BY <1>0, <2>2, <2>3
          DEF AncestorsLoaded, LoadingIsActive, CompletedBefore, GirFunctionsTracked,
              GirNames, CompletedIsPresent
<1>5. CASE LoadStep
  BY <1>0, <1>5, InvLoadClass, InvLoadFunction, InvLoadConstant, InvLoadEnd DEF LoadStep
<1>6. CASE RShutdown
  <2>1. GirNames' = {}
    BY <1>6 DEF RShutdown, DeleteRuntimeFunctions, GirFunctionsTracked, GirNames
  <2>2. loading = Null
    BY <1>6 DEF RShutdown, Running, LoadingIsActive
  <2> QED BY <1>0, <1>6, <2>1, <2>2
          DEF RShutdown, AncestorsLoaded, LoadingIsActive, LoadedSoFar, CompletedBefore,
              GirFunctionsTracked, CompletedIsPresent
<1>7. CASE ShutdownExecutor
  <2>1. GirNames' = {}
    BY <1>7 DEF ShutdownExecutor, GirFunctionsTracked, GirNames
  <2>2. loading = Null
    BY <1>7 DEF ShutdownExecutor, LoadingIsActive
  <2> QED BY <1>0, <1>7, <2>1, <2>2
          DEF ShutdownExecutor, AncestorsLoaded, LoadingIsActive, LoadedSoFar,
              CompletedBefore, GirFunctionsTracked, CompletedIsPresent
<1>8. CASE Halted \/ UNCHANGED vars
  BY <1>0, <1>8
  DEF Halted, vars, AncestorsLoaded, LoadingIsActive, LoadedSoFar, CompletedBefore,
      GirFunctionsTracked, GirNames, CompletedIsPresent
<1> QED BY <1>1, <1>2, <1>3, <1>4, <1>5, <1>6, <1>7, <1>8 DEF Next

\* The inductive invariant holds in every reachable state.
THEOREM InvHolds == Spec => []Inv
BY InvInit, InvNext, PTL DEF Spec

\* PHP's table never holds a class without the classes it inherits from, however
\* namespaces require each other and wherever load_class was interrupted.
THEOREM AncestorsAlwaysLoaded == Spec => []AncestorsLoaded
<1>1. Inv => AncestorsLoaded
  BY DEF Inv
<1> QED BY <1>1, InvHolds, PTL

\* A function that calls into the repository is there only while its request
\* runs, under a name that PHP_RSHUTDOWN_FUNCTION will delete.
THEOREM FunctionsAlwaysTracked == Spec => []GirFunctionsTracked
<1>1. Inv => GirFunctionsTracked
  BY DEF Inv
<1> QED BY <1>1, InvHolds, PTL

\* What a request's load_ns() went through is there until the request ends.
THEOREM CompletedStaysPresent == Spec => []CompletedIsPresent
<1>1. Inv => CompletedIsPresent
  BY DEF Inv
<1> QED BY <1>1, InvHolds, PTL
-----------------------------------------------------------------------------
(* The promise of RequestScope                                              *)

\* No function of the repository is there before the first request.
LEMMA ScopeInit == Init => FunctionScope!Init
BY DEF Init, GirNames, FunctionScope!Init

\* Every step is a step of RequestScope or changes nothing of it.
LEMMA ScopeNext ==
    ASSUME Inv, Inv', [Next]_vars
    PROVE  [FunctionScope!Next]_(FunctionScope!vars)
<1> USE DEF Inv, FunctionScope!vars, FunctionScope!Next
<1>0. GirNames \subseteq Names /\ GirNames' \subseteq Names
  BY DEF GirNames, Names
<1>1. ASSUME UNCHANGED <<phase, function_table>>
      PROVE  [FunctionScope!Next]_(FunctionScope!vars)
  BY <1>1 DEF GirNames, Names
<1>2. CASE RInit
  <2>1. phase = "idle" /\ phase' = "active" /\ UNCHANGED function_table
    BY <1>2 DEF RInit
  <2>2. GirNames = {} /\ GirNames' = {}
    BY <2>1 DEF GirFunctionsTracked, GirNames, Names
  <2> QED BY <2>1, <2>2 DEF FunctionScope!Begin
<1>3. CASE \E n \in UserNames : DeclareFunction(n)
  <2>1. UNCHANGED phase /\ GirNames' = GirNames
    BY <1>3 DEF DeclareFunction, GirNames, Names, TypeOK
  <2> QED BY <2>1
<1>4. CASE LoadStep
  <2>0. phase = "active"
    BY <1>4 DEF LoadStep, LoadingIsActive
  <2>1. CASE \E o \in ObjectInfos : LoadClass(o)
    <3>1. UNCHANGED function_table /\ phase' \in {"active", "crashed"}
      BY <2>0, <2>1 DEF LoadClass
    <3>2. CASE phase' = "active"
      BY <1>1, <2>0, <3>1, <3>2
    <3>3. CASE phase' = "crashed"
      BY <2>0, <3>3 DEF FunctionScope!End
    <3> QED BY <3>1, <3>2, <3>3
  <2>2. CASE \E f \in FunctionInfos : LoadFunction(f)
    <3>1. PICK f \in FunctionInfos : LoadFunction(f)
      BY <2>2
    <3>2. phase' \in {"active", "exiting"} /\ GirNames \subseteq GirNames'
      BY <2>0, <3>1, FunctionNames DEF LoadFunction, GirNames, TypeOK, Names
    <3>3. GirNames' = GirNames \cup GirNames'
      BY <3>2
    <3> QED BY <1>0, <2>0, <3>2, <3>3 DEF FunctionScope!Acquire
  <2>3. CASE (\E c \in ConstantInfos : LoadConstant(c)) \/ LoadEnd
    BY <1>1, <2>3 DEF LoadConstant, LoadEnd
  <2> QED BY <1>4, <2>1, <2>2, <2>3 DEF LoadStep
<1>5. CASE RShutdown
  <2>1. phase \in {"active", "exiting"} /\ phase' = "swept"
    BY <1>5 DEF RShutdown, Running
  <2>2. GirNames' = {}
    BY <2>1 DEF GirFunctionsTracked, GirNames
  <2> QED BY <2>1, <2>2 DEF FunctionScope!End
<1>6. CASE ShutdownExecutor
  <2>1. phase = "swept" /\ phase' = "idle"
    BY <1>6 DEF ShutdownExecutor
  <2>2. GirNames = {} /\ GirNames' = {}
    BY <2>1 DEF GirFunctionsTracked
  <2> QED BY <2>1, <2>2
<1>7. CASE \E ns \in Namespaces : LoadKnown(ns) \/ LoadStart(ns)
  BY <1>1, <1>7 DEF LoadKnown, LoadStart
<1>8. CASE Halted \/ UNCHANGED vars
  BY <1>1, <1>8 DEF Halted, vars
<1> QED BY <1>2, <1>3, <1>4, <1>5, <1>6, <1>7, <1>8 DEF Next

\* The functions implement RequestScope: acquired inside a request, given up with
\* it, whether the script ends, exits in an error handler or dies.
THEOREM RefinesRequestScope == Spec => ImplementsRequestScope
BY ScopeInit, ScopeNext, InvHolds, PTL
   DEF Spec, ImplementsRequestScope, FunctionScope!Spec

-----------------------------------------------------------------------------
(* What was left undone stays undone                                        *)

\* The repository knows ns, no call is going through it, and the last request
\* whose call did so is r.
LeftAt(ns, r) ==
    /\ ns \in gir
    /\ loading # Null => loading.ns # ns
    /\ completed[ns] = r

\* load_ns() starts only on namespaces that the repository does not know.
LEMMA LeftAtStable ==
    ASSUME Inv, [Next]_vars, NEW ns \in Namespaces, NEW r, LeftAt(ns, r)
    PROVE  LeftAt(ns, r)'
<1> USE DEF Inv, LeftAt
<1>1. CASE \E other \in Namespaces : LoadStart(other)
  BY <1>1 DEF LoadStart, IsRegistered, Require
<1>2. CASE LoadStep
  <2>1. loading \in [ns : Namespaces, todo : SUBSET Infos] /\ loading.ns # ns
    BY <1>2 DEF LoadStep, TypeOK
  <2>2. /\ loading' # Null => loading'.ns = loading.ns
        /\ gir' = gir
        /\ completed'[ns] = completed[ns]
    BY <1>2, <2>1 DEF LoadStep, LoadClass, LoadFunction, LoadConstant, LoadEnd, Done, TypeOK
  <2> QED BY <2>1, <2>2
<1>3. CASE RInit \/ RShutdown \/ ShutdownExecutor
  BY <1>3 DEF RInit, RShutdown, ShutdownExecutor
<1>4. CASE \/ \E n \in UserNames : DeclareFunction(n)
           \/ \E other \in Namespaces : LoadKnown(other)
  BY <1>4 DEF DeclareFunction, LoadKnown
<1>5. CASE Halted \/ UNCHANGED vars
  BY <1>5 DEF Halted, vars
<1> QED BY <1>1, <1>2, <1>3, <1>4, <1>5 DEF Next

\* Once the repository knows a namespace that is not being loaded, no later
\* load_ns() goes through its infos: neither in this request nor in another.
THEOREM NeverLoadedAgain == Spec => LoadedAtMostOnce
<1> SUFFICES ASSUME NEW ns \in Namespaces, NEW r \in 0 .. MaxRequests
             PROVE  Spec => [](LeftAt(ns, r) => [](completed[ns] = r))
  BY DEF LoadedAtMostOnce, LeftAt
<1>1. Inv /\ [Next]_vars /\ LeftAt(ns, r) => LeftAt(ns, r)'
  BY LeftAtStable
<1>2. LeftAt(ns, r) => completed[ns] = r
  BY DEF LeftAt
<1> QED BY <1>1, <1>2, InvHolds, PTL DEF Spec
=============================================================================
