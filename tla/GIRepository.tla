---------------------------- MODULE GIRepository ----------------------------
(***************************************************************************)
(* GIRepository\load_ns(): the classes, functions and constants that a     *)
(* namespace of the introspection repository adds to PHP.                  *)
(*                                                                         *)
(* Whether a namespace "is loaded" is asked of the repository, whose answer *)
(* lasts as long as the process and covers the namespaces that were loaded  *)
(* as dependencies.  What the answer stands for does not last: classes stay *)
(* with the process, functions are in PHP's function table until            *)
(* PHP_RSHUTDOWN_FUNCTION deletes the names in runtime_functions, and       *)
(* constants until PHP cleans its table.  One process serves requests       *)
(* 1 .. MaxRequests.                                                        *)
(***************************************************************************)
EXTENDS Naturals

CONSTANTS
    Namespaces,     \* namespaces with a typelib on disk
    Preloaded,      \* namespaces that PHP_MINIT_FUNCTION(gobject) requires
    Requires,       \* [Namespaces -> SUBSET Namespaces]: all dependencies, and itself
    ObjectInfos,    \* GIObjectInfos
    FunctionInfos,  \* GIFunctionInfos at the top level of a namespace
    ConstantInfos,  \* GIConstantInfos
    HomeOf,         \* [infos -> Namespaces]
    Ancestors,      \* [ObjectInfos -> SUBSET ObjectInfos]: an object and its ancestors
    BaseClasses,    \* objects with a PHP class since PHP_MINIT_FUNCTION
    FunctionName,   \* [FunctionInfos -> Names]: the key in PHP's table, lower case
    UserNames,      \* names under which scripts declare functions
    TextConstants,  \* constants of type UTF8, the only one that is converted
    MaxRequests,    \* bound: requests the process serves
    Null

Infos == ObjectInfos \cup FunctionInfos \cup ConstantInfos
Names == {FunctionName[f] : f \in FunctionInfos} \cup UserNames

InfosOf(ns) == {i \in Infos : HomeOf[i] = ns}

\* An ancestry that ends in GObject\Object, and not in a fundamental type of
\* its own.
HasBase(o) == Ancestors[o] \cap BaseClasses # {}

ASSUME ConstantsAssumption ==
    /\ Preloaded \subseteq Namespaces
    /\ Requires \in [Namespaces -> SUBSET Namespaces]
    /\ \A ns \in Namespaces : ns \in Requires[ns]
    /\ HomeOf \in [Infos -> Namespaces]
    /\ Ancestors \in [ObjectInfos -> SUBSET ObjectInfos]
    /\ \A o \in ObjectInfos : /\ o \in Ancestors[o]
                          /\ \A a \in Ancestors[o] : Ancestors[a] \subseteq Ancestors[o]
    /\ BaseClasses \subseteq ObjectInfos
    /\ \A o \in BaseClasses : Ancestors[o] \subseteq BaseClasses
    /\ TextConstants \subseteq ConstantInfos
    /\ MaxRequests \in Nat
    /\ ObjectInfos \cap FunctionInfos = {} /\ ObjectInfos \cap ConstantInfos = {}
    /\ FunctionInfos \cap ConstantInfos = {}
    /\ Null \notin [ns : Namespaces, todo : SUBSET Infos]

VARIABLES
    phase,              \* what PHP is doing
    request,            \* number of the request being served, or served last
    gir,                \* namespaces g_irepository_is_registered answers for
    classes,            \* objects that have a PHP class
    function_table,     \* EG(function_table): [Names -> {"none", "user", "gir"}]
    runtime_functions,  \* functions whose name is in the request's table
    constants,          \* constants in EG(zend_constants)
    loading,            \* the load_ns() call in progress
    completed,          \* [Namespaces -> the last request whose load_ns() went
                        \* through every info of the namespace, 0 if none]
    answer              \* what the last load_ns() returned

vars == <<phase, request, gir, classes, function_table, runtime_functions,
          constants, loading, completed, answer>>

TypeOK ==
    /\ phase \in {"idle", "active", "exiting", "swept", "crashed"}
    /\ request \in 0 .. MaxRequests
    /\ gir \subseteq Namespaces
    /\ classes \subseteq ObjectInfos
    /\ function_table \in [Names -> {"none", "user", "gir"}]
    /\ runtime_functions \subseteq FunctionInfos
    /\ constants \subseteq ConstantInfos
    /\ loading \in [ns : Namespaces, todo : SUBSET Infos] \cup {Null}
    /\ completed \in [Namespaces -> 0 .. MaxRequests]
    /\ answer \in Namespaces \cup {Null}

Running == phase = "active" /\ loading = Null

\* What PHP_MINIT_FUNCTION(gobject) leaves.
Init ==
    /\ phase = "idle"
    /\ request = 0
    /\ gir = UNION {Requires[ns] : ns \in Preloaded}
    /\ classes = BaseClasses
    /\ function_table = [n \in Names |-> "none"]
    /\ runtime_functions = {}
    /\ constants = {}
    /\ loading = Null
    /\ completed = [ns \in Namespaces |-> 0]
    /\ answer = Null

\* PHP_RINIT_FUNCTION(gobject_girepository)
RInit ==
    /\ phase = "idle"
    /\ request < MaxRequests
    /\ phase' = "active"
    /\ request' = request + 1
    /\ runtime_functions' = {}
    /\ answer' = Null
    /\ UNCHANGED <<gir, classes, function_table, constants, loading, completed>>

\* The script is compiled, or includes a file, that declares a function.
DeclareFunction(name) ==
    /\ Running
    /\ function_table[name] = "none"
    /\ function_table' = [function_table EXCEPT ![name] = "user"]
    /\ answer' = Null
    /\ UNCHANGED <<phase, request, gir, classes, runtime_functions, constants,
                   loading, completed>>

-----------------------------------------------------------------------------
(* load_ns                                                                  *)

\* g_irepository_require loads the dependencies with the namespace.
Require(ns) == gir \cup Requires[ns]

\* Mutant: the test is whether an earlier call went through the namespace.
IsCompleted(ns) == completed[ns] # 0

\* g_irepository_is_registered
IsRegistered(ns) == ns \in gir

\* load_ns(ns) of a namespace the repository knows: TRUE, and nothing is done.
LoadKnown(ns) ==
    /\ Running
    /\ IsRegistered(ns)
    /\ answer' = ns
    /\ UNCHANGED <<phase, request, gir, classes, function_table,
                   runtime_functions, constants, loading, completed>>

\* load_ns(ns) of another namespace; without a typelib it throws, as in the
\* script's not calling it.
LoadStart(ns) ==
    /\ Running
    /\ ~IsRegistered(ns)
    /\ gir' = Require(ns)
    /\ loading' = [ns |-> ns, todo |-> InfosOf(ns)]
    /\ answer' = Null
    /\ UNCHANGED <<phase, request, classes, function_table, runtime_functions,
                   constants, completed>>

\* Mutant: a constant that cannot be converted is tried again.
DoneIfConverted(info) ==
    loading' = IF info \in ConstantInfos \ TextConstants
                 THEN loading ELSE [loading EXCEPT !.todo = @ \ {info}]

\* i++ in the loop over the infos.  The infos come in an order of the typelib's.
Done(info) == loading' = [loading EXCEPT !.todo = @ \ {info}]

\* Mutant: parents are expected to have been loaded before.
ClassAlone(o) == {o}

\* The classes that load_class registers: o and, through the recursion, the
\* ancestors that have none.
ClassesFor(o) == Ancestors[o]

\* gobject_girepository_load_class.  The recursion ends at a class that exists;
\* in an ancestry without one it runs into the parent of a root, a null pointer.
LoadClass(o) ==
    /\ o \in loading.todo \cap ObjectInfos
    /\ IF o \in classes \/ HasBase(o)
         THEN /\ classes' = classes \cup ClassesFor(o)
              /\ Done(o)
              /\ UNCHANGED phase
         ELSE /\ phase' = "crashed"
              /\ loading' = Null
              /\ UNCHANGED classes
    /\ UNCHANGED <<request, gir, function_table, runtime_functions, constants,
                   completed, answer>>

\* Mutants: every entry at the same index; the key of the function, not the info.
RememberLast(f) == {f}
RememberKey(f) == runtime_functions \cup {FunctionName[f]}

\* zend_hash_next_index_insert into runtime_functions, whatever
\* zend_register_functions returned.
Remember(f) == runtime_functions \cup {f}

\* gobject_girepository_load_function.  Registration fails with an E_WARNING
\* when the name is taken, and the script's error handler may exit there.
LoadFunction(f) ==
    LET name == FunctionName[f]
    IN  /\ f \in loading.todo \cap FunctionInfos
        /\ \/ /\ function_table[name] = "none"
              /\ function_table' = [function_table EXCEPT ![name] = "gir"]
              /\ runtime_functions' = Remember(f)
              /\ Done(f)
              /\ UNCHANGED phase
           \/ /\ function_table[name] # "none"
              /\ runtime_functions' = Remember(f)
              /\ Done(f)
              /\ UNCHANGED <<function_table, phase>>
           \/ /\ function_table[name] # "none"
              /\ phase' = "exiting"
              /\ loading' = Null
              /\ UNCHANGED <<function_table, runtime_functions>>
        /\ UNCHANGED <<request, gir, classes, constants, completed, answer>>

\* gobject_girepository_load_constant
LoadConstant(c) ==
    /\ c \in loading.todo \cap ConstantInfos
    /\ constants' = constants \cup ({c} \cap TextConstants)
    /\ Done(c)
    /\ UNCHANGED <<phase, request, gir, classes, function_table,
                   runtime_functions, completed, answer>>

\* Mutant: the loop leaves out what is not a class.
LoadEndOfClasses ==
    /\ loading.todo \cap ObjectInfos = {}
    /\ completed' = [completed EXCEPT ![loading.ns] = request]
    /\ answer' = loading.ns
    /\ loading' = Null
    /\ UNCHANGED <<phase, request, gir, classes, function_table,
                   runtime_functions, constants>>

\* The end of the loop over the infos.
LoadEnd ==
    /\ loading.todo = {}
    /\ completed' = [completed EXCEPT ![loading.ns] = request]
    /\ answer' = loading.ns
    /\ loading' = Null
    /\ UNCHANGED <<phase, request, gir, classes, function_table,
                   runtime_functions, constants>>

LoadStep ==
    /\ loading # Null
    /\ \/ \E o \in ObjectInfos : LoadClass(o)
       \/ \E f \in FunctionInfos : LoadFunction(f)
       \/ \E c \in ConstantInfos : LoadConstant(c)
       \/ LoadEnd

-----------------------------------------------------------------------------
\* Mutant: the name is looked up as it is written, in a table of lower case keys.
DeleteUnfolded == function_table

\* php_gobject_gir_function_dtor of every entry of runtime_functions.
DeleteRuntimeFunctions ==
    [n \in Names |-> IF \E f \in runtime_functions : FunctionName[f] = n
                       THEN "none" ELSE function_table[n]]

\* PHP_RSHUTDOWN_FUNCTION(gobject_girepository)
RShutdown ==
    /\ Running \/ phase = "exiting"
    /\ phase' = "swept"
    /\ function_table' = DeleteRuntimeFunctions
    /\ runtime_functions' = {}
    /\ answer' = Null
    /\ UNCHANGED <<request, gir, classes, constants, loading, completed>>

\* PHP removes what is not persistent: user functions and constants.
ShutdownExecutor ==
    /\ phase = "swept"
    /\ phase' = "idle"
    /\ function_table' = [n \in Names |-> IF function_table[n] = "user"
                                            THEN "none" ELSE function_table[n]]
    /\ constants' = {}
    /\ UNCHANGED <<request, gir, classes, runtime_functions, loading, completed, answer>>

\* The process has served its requests, or died.
Halted ==
    /\ phase = "crashed" \/ (phase = "idle" /\ request = MaxRequests)
    /\ UNCHANGED vars

Next ==
    \/ RInit
    \/ \E n \in UserNames : DeclareFunction(n)
    \/ \E ns \in Namespaces : LoadKnown(ns)
    \/ \E ns \in Namespaces : LoadStart(ns)
    \/ LoadStep
    \/ RShutdown
    \/ ShutdownExecutor
    \/ Halted

Spec == Init /\ [][Next]_vars

\* load_ns() runs through the infos by itself; a request that exits is shut down.
Fairness == WF_vars(LoadStep) /\ WF_vars(phase = "exiting" /\ RShutdown)
                /\ WF_vars(ShutdownExecutor)

FairSpec == Spec /\ Fairness

-----------------------------------------------------------------------------
GirNames == {n \in Names : function_table[n] = "gir"}

\* A class is never in PHP's table without the classes it inherits from, across
\* namespaces and requests, and whatever was interrupted.
AncestorsLoaded == \A o \in classes : Ancestors[o] \subseteq classes

\* A function that calls into the repository is there only while its request
\* runs, under a name that runtime_functions will delete (the name's memory
\* is freed with the entry).
GirFunctionsTracked ==
    \A n \in GirNames :
        /\ phase \in {"active", "exiting", "crashed"}
        /\ \E f \in runtime_functions : FunctionName[f] = n

\* In the request in which load_ns() went through a namespace, all of it is
\* there until the end: its classes, a function under every name (the script's own
\* where the name was taken), the text constants.  Classes are there for good.
CompletedIsPresent ==
    \A ns \in Namespaces :
        /\ completed[ns] # 0 => InfosOf(ns) \cap ObjectInfos \subseteq classes
        /\ completed[ns] = request /\ phase \in {"active", "exiting"} /\ request # 0 =>
              /\ \A f \in InfosOf(ns) \cap FunctionInfos :
                        function_table[FunctionName[f]] # "none"
              /\ InfosOf(ns) \cap TextConstants \subseteq constants

\* What an exit, a crash of the script or a dependency left undone is never made
\* up for: once the repository knows a namespace that is not being loaded, no
\* later load_ns(), of this request or the next, goes through its infos again.
LoadedAtMostOnce ==
    \A ns \in Namespaces, r \in 0 .. MaxRequests :
        [](/\ ns \in gir
           /\ loading # Null => loading.ns # ns
           /\ completed[ns] = r
           => [](completed[ns] = r))

\* A load_ns() that has begun either goes through the whole namespace or ends in
\* the end of the script or of the process.
LoadCompletesOrDies ==
    \A ns \in Namespaces :
        (loading # Null /\ loading.ns = ns) ~>
            (completed[ns] = request \/ phase \in {"exiting", "crashed"})

\* The functions are a resource of the request that loaded them.
FunctionScope == INSTANCE RequestScope WITH
    Resource <- Names,
    open     <- phase \in {"active", "exiting"},
    held     <- IF phase = "crashed" THEN {} ELSE GirNames

ImplementsRequestScope == FunctionScope!Spec
=============================================================================
