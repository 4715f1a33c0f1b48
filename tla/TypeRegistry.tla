---------------------------- MODULE TypeRegistry ----------------------------
(***************************************************************************)
(* GObject\Type and GObject\Signal: the objects with which a PHP script    *)
(* declares a GObject class, the class and the signals Type::generate()    *)
(* registers with GLib, and the two tables, signals_hash and               *)
(* class_closure_hash, that tie the signals to the request that declared   *)
(* them.                                                                   *)
(*                                                                         *)
(* Two lifetimes meet here.  GTypes, GLib signals and PHP classes that are *)
(* registered at run time live as long as the process; Type and Signal     *)
(* objects and the two tables live as long as a request.  One process      *)
(* serves requests 1 .. MaxRequests one after the other, and a request is  *)
(* sequential: between two steps of generate() no other script code runs,  *)
(* but generate() may stop half way at a PHP E_ERROR.                      *)
(***************************************************************************)
EXTENDS Naturals

CONSTANTS
    TypeNames,      \* the GType names that scripts give to new classes
    NativeTypes,    \* the GTypes that GLib's own libraries have registered
    NativeSupers,   \* [NativeTypes -> SUBSET NativeTypes]: a type and its ancestors
    GObjectType,    \* G_TYPE_OBJECT
    Derivable,      \* the native types a PhpGObject instance is large enough for
    Keys,           \* names of signals, the keys of $type->signals
    NativeSignals,  \* the names of signals that G_TYPE_OBJECT itself has
    TypeObjs,       \* identities of GObject\Type objects
    SigObjs,        \* identities of GObject\Signal objects
    SignalArgs,     \* what scripts pass to Signal::__construct
    MaxRequests,    \* bound: requests the process serves
    Null            \* a null pointer, G_TYPE_INVALID, an unset value

Types == NativeTypes \cup TypeNames

\* A GLib signal id.  g_signal_newv gives a type at most one signal of a name,
\* so the pair identifies it.
Ids == TypeNames \X Keys

\* The attributes of a gobject_signal_object that registration depends on.
Attributes ==
    [class_closure : BOOLEAN, accumulator : BOOLEAN,
     param_types : {"null", "known", "unknown"},
     return_type : {"none", "value"},
     flags : {"run_first", "other"}]

ASSUME ConstantsAssumption ==
    /\ TypeNames \cap NativeTypes = {}
    /\ NativeSupers \in [NativeTypes -> SUBSET NativeTypes]
    /\ \A n \in NativeTypes : n \in NativeSupers[n]
    /\ \A n \in NativeTypes : \A p \in NativeSupers[n] :
            NativeSupers[p] \subseteq NativeSupers[n]
    /\ GObjectType \in Derivable
    /\ Derivable \subseteq {n \in NativeTypes : GObjectType \in NativeSupers[n]}
    /\ NativeSignals \subseteq Keys
    /\ SignalArgs \subseteq Attributes
    /\ MaxRequests \in Nat

\* GObject is the root of the classes.
ASSUME RootAssumption == NativeSupers[GObjectType] = {GObjectType}

ASSUME NullAssumption ==
    /\ Null \notin Types \cup TypeObjs \cup SigObjs \cup Keys \cup Ids
    /\ Null \notin [attr : Attributes, signal_id : Ids \cup {Null}]
    /\ Null \notin [name : TypeNames \cup {Null}, parent : Types \cup {Null},
                    signals : [Keys -> SigObjs \cup {Null}]]
    /\ Null \notin [obj : TypeObjs, name : TypeNames, todo : SUBSET Keys]

VARIABLES
    \* the request
    phase,              \* what PHP is doing
    request,            \* number of the request being served, or served last
    \* the process
    supers,             \* [TypeNames -> ancestors], {} while not registered
    classes,            \* the types that have a PHP class
    vfuncs,             \* generated types whose GObjectClass was filled in
    gsignal,            \* [Ids -> the signals GLib knows]
    born,               \* [Ids -> the request that registered the signal]
    closure,            \* [Ids -> the class closure made for the signal]
    \* the request's tables
    class_closure_hash, \* the class closures made in this request
    signals_hash,       \* [Ids -> the Signal object registered under the id]
    \* the script's objects
    type_object,        \* [TypeObjs -> gobject_type_object]
    signal_object,      \* [SigObjs -> gobject_signal_object]
    sigvars,            \* Signal objects that a PHP variable refers to
    generating,         \* the Type::generate() call in progress
    outcome             \* how the last call ended

processVars == <<supers, classes, vfuncs, gsignal, born, closure>>
tableVars   == <<class_closure_hash, signals_hash>>
objectVars  == <<type_object, signal_object, sigvars>>
vars == <<phase, request, processVars, tableVars, objectVars, generating, outcome>>

Signal  == [attr : Attributes, signal_id : Ids \cup {Null}]
TypeObj == [name : TypeNames \cup {Null}, parent : Types \cup {Null},
            signals : [Keys -> SigObjs \cup {Null}]]
Generation == [obj : TypeObjs, name : TypeNames, todo : SUBSET Keys]

Outcomes ==
    {"none", "generated", "already registered", "failed to initialise",
     "parent class missing", "signal reused", "imported", "not imported",
     "accumulated",
     \* why the process died
     "uninitialised name", "clone of null", "no signal for id", "destroyed table"}

-----------------------------------------------------------------------------
(* GLib's type system, as far as the extension uses it.                     *)

SupersOf(type) == IF type \in NativeTypes THEN NativeSupers[type] ELSE supers[type]

\* g_type_from_name: G_TYPE_INVALID for a name nobody registered.
Registered(type) == SupersOf(type) # {}

IsObject(type) == GObjectType \in SupersOf(type)

\* g_type_register_static_simple refuses an invalid or non-object parent, and
\* one whose instances are larger than the instance_size it is given.
RegisterStatic(name, parent) ==
    /\ name # Null
    /\ parent \in Derivable \cup TypeNames

\* Mutant: the lookup stops at the type itself.
SignalExistsHere(type, key) ==
    key \in NativeSignals \/ gsignal[<<type, key>>] # "absent"

\* g_signal_newv looks the name up in the type and its ancestry.
SignalExists(type, key) ==
    \/ key \in NativeSignals
    \/ \E owner \in SupersOf(type) \cap TypeNames : gsignal[<<owner, key>>] # "absent"

\* g_signal_newv: G_TYPE_INVALID among the parameters, an accumulator
\* without a return value, or a return value that nobody would compute after a
\* RUN_FIRST class closure, and it returns 0.
SignalAccepted(type, key, attr) ==
    /\ ~SignalExists(type, key)
    /\ attr.param_types # "unknown"
    /\ attr.accumulator => attr.return_type = "value"
    /\ attr.return_type = "value" => attr.flags # "run_first"

-----------------------------------------------------------------------------
(* The two tables.                                                          *)

\* zend_hash_init
EmptyHash == [id \in Ids |-> Null]

\* Mutant: every closure goes to the same index.
StoreClassClosureAtZero(id) == {id}

\* php_gobject_store_class_closure: zend_hash_next_index_insert.
StoreClassClosure(id) == class_closure_hash \cup {id}

\* Mutant: class_closure_hash without a destructor.
InvalidateNothing == closure

\* php_gobject_invalidate_class_closure, the destructor of class_closure_hash.
InvalidateClassClosures ==
    [id \in Ids |-> IF id \in class_closure_hash THEN "invalid" ELSE closure[id]]

\* Mutants: the association is forgotten; the object is stored in place of the zval.
ForgetSignalAssociation(id, s) == signals_hash
StoreSignalStruct(id, s) == [signals_hash EXCEPT ![id] = signal_object[s]]

\* php_gobject_store_signal_association: zend_hash_index_update.
StoreSignalAssociation(id, s) == [signals_hash EXCEPT ![id] = s]

\* php_gobject_signal_get_by_id
SignalGetById(id) == signals_hash[id]

\* Mutant: Z_ADDREF_P left out, signals_hash does not keep the object.
ReferencedByScript(sv, objs, hash) ==
    sv \cup {s \in SigObjs : \E t \in TypeObjs, k \in Keys :
                    objs[t] # Null /\ objs[t].signals[k] = s}

\* The Signal objects with a reference: from a variable, from the signals array
\* of a Type object, or from signals_hash (Z_ADDREF_P in store_association).
Referenced(sv, objs, hash) ==
    sv \cup {s \in SigObjs :
                \/ \E t \in TypeObjs, k \in Keys :
                        objs[t] # Null /\ objs[t].signals[k] = s
                \/ \E id \in Ids : hash[id] = s}

\* gobject_signal_free_storage of the objects that lose their last reference,
\* which removes their association by id.
Release(sv, objs, hash) ==
    LET freed == {s \in SigObjs : signal_object[s] # Null}
                    \ Referenced(sv, objs, hash)
        gone  == {id \in Ids : \E s \in freed : signal_object[s].signal_id = id}
    IN  /\ sigvars' = sv
        /\ type_object' = objs
        /\ signal_object' =
              [s \in SigObjs |-> IF s \in freed THEN Null ELSE signal_object[s]]
        /\ signals_hash' = [id \in Ids |-> IF id \in gone THEN Null ELSE hash[id]]

\* The process dies, and the memory of its request with it.
Crash(why) ==
    /\ phase' = "crashed"
    /\ outcome' = why
    /\ class_closure_hash' = {}
    /\ signals_hash' = EmptyHash
    /\ type_object' = [t \in TypeObjs |-> Null]
    /\ signal_object' = [s \in SigObjs |-> Null]
    /\ sigvars' = {}
    /\ UNCHANGED <<request, processVars, generating>>

\* The script runs its next statement.
Running == phase = "active" /\ generating = Null

\* Signal objects the script can name: signals_hash is not visible to it.
Reachable == Referenced(sigvars, type_object, EmptyHash)

-----------------------------------------------------------------------------
Init ==
    /\ phase = "idle"
    /\ request = 0
    /\ supers = [n \in TypeNames |-> {}]
    /\ classes = {GObjectType}
    /\ vfuncs = {}
    /\ gsignal = [id \in Ids |-> "absent"]
    /\ born = [id \in Ids |-> 0]
    /\ closure = [id \in Ids |-> "none"]
    /\ class_closure_hash = {}
    /\ signals_hash = EmptyHash
    /\ type_object = [t \in TypeObjs |-> Null]
    /\ signal_object = [s \in SigObjs |-> Null]
    /\ sigvars = {}
    /\ generating = Null
    /\ outcome = "none"

\* PHP_RINIT_FUNCTION of gobject: zend_hash_init of both tables.
RInit ==
    /\ phase = "idle"
    /\ request < MaxRequests
    /\ request' = request + 1
    /\ phase' = "active"
    /\ signals_hash' = EmptyHash
    /\ class_closure_hash' = {}
    /\ outcome' = "none"
    /\ UNCHANGED <<processVars, objectVars, generating>>

-----------------------------------------------------------------------------
(* GObject\Signal                                                           *)

\* new Signal(...): gobject_signal_object_new and __construct.
NewSignal(s, attr) ==
    /\ Running
    /\ signal_object[s] = Null
    /\ signal_object' = [signal_object EXCEPT ![s] = [attr |-> attr, signal_id |-> Null]]
    /\ sigvars' = sigvars \cup {s}
    /\ outcome' = "none"
    /\ UNCHANGED <<phase, request, processVars, tableVars, type_object, generating>>

\* $signal->flags = ...
WriteFlags(s, flags) ==
    /\ Running
    /\ s \in Reachable
    /\ signal_object' = [signal_object EXCEPT ![s] =
            [attr |-> [@.attr EXCEPT !.flags = flags], signal_id |-> @.signal_id]]
    /\ outcome' = "none"
    /\ UNCHANGED <<phase, request, processVars, tableVars, type_object, sigvars, generating>>

\* clone $signal: the copy has the attributes and signal_id 0.  zval_add_ref
\* follows param_types even when no parameters were given.
SignalClone(s, copy) ==
    /\ Running
    /\ s \in Reachable
    /\ signal_object[copy] = Null
    /\ IF signal_object[s].attr.param_types = "null"
         THEN Crash("clone of null")
         ELSE /\ signal_object' = [signal_object EXCEPT
                    ![copy] = [signal_object[s] EXCEPT !.signal_id = Null]]
              /\ sigvars' = sigvars \cup {copy}
              /\ outcome' = "none"
              /\ UNCHANGED <<phase, request, processVars, tableVars, type_object, generating>>

\* A variable that held the object goes away (assignment, unset, end of scope,
\* the destruction of globals at the end of the script).
DropSignal(s) ==
    /\ Running \/ phase = "fatal"
    /\ s \in sigvars
    /\ Release(sigvars \ {s}, type_object, signals_hash)
    /\ outcome' = "none"
    /\ UNCHANGED <<phase, request, processVars, class_closure_hash, generating>>

-----------------------------------------------------------------------------
(* GObject\Type                                                             *)

\* new Type: the name zval is allocated and not initialised.
NewType(t) ==
    /\ Running
    /\ type_object[t] = Null
    /\ type_object' = [type_object EXCEPT
            ![t] = [name |-> Null, parent |-> Null, signals |-> [k \in Keys |-> Null]]]
    /\ outcome' = "none"
    /\ UNCHANGED <<phase, request, processVars, tableVars, signal_object, sigvars, generating>>

\* $type->name = ...: zval_ptr_dtor of the old name, set or not.
WriteName(t, name) ==
    /\ Running
    /\ type_object[t] # Null
    /\ \/ /\ type_object' = [type_object EXCEPT ![t].name = name]
          /\ outcome' = "none"
          /\ UNCHANGED <<phase, request, processVars, tableVars, signal_object, sigvars, generating>>
       \/ /\ type_object[t].name = Null
          /\ Crash("uninitialised name")

\* $type->parent = ...: an unknown name throws and changes nothing.
WriteParent(t, parent) ==
    /\ Running
    /\ type_object[t] # Null
    /\ Registered(parent)
    /\ type_object' = [type_object EXCEPT ![t].parent = parent]
    /\ outcome' = "none"
    /\ UNCHANGED <<phase, request, processVars, tableVars, signal_object, sigvars, generating>>

\* $type->signals[key] = $signal, or unset($type->signals[key]) when s is Null.
WriteSignal(t, key, s) ==
    /\ Running
    /\ type_object[t] # Null
    /\ s \in Reachable \cup {Null}
    /\ Release(sigvars, [type_object EXCEPT ![t].signals[key] = s], signals_hash)
    /\ outcome' = "none"
    /\ UNCHANGED <<phase, request, processVars, class_closure_hash, generating>>

\* The last reference to a Type goes away: gobject_type_free_storage.
DropType(t) ==
    /\ Running \/ phase = "fatal"
    /\ type_object[t] # Null
    /\ \/ /\ Release(sigvars, [type_object EXCEPT ![t] = Null], signals_hash)
          /\ outcome' = "none"
          /\ UNCHANGED <<phase, request, processVars, class_closure_hash, generating>>
       \/ /\ type_object[t].name = Null
          /\ Crash("uninitialised name")

\* Type::import(name): the class and its ancestors, when GLib knows it as one.
Import(type) ==
    /\ Running
    /\ IF Registered(type) /\ IsObject(type)
         THEN /\ classes' = classes \cup SupersOf(type)
              /\ outcome' = "imported"
         ELSE /\ outcome' = "not imported"
              /\ UNCHANGED classes
    /\ UNCHANGED <<phase, request, supers, vfuncs, gsignal, born, closure,
                   tableVars, objectVars, generating>>

-----------------------------------------------------------------------------
(* Type::generate(), up to the registration of the signals.                 *)

\* Mutant: the test looks for the PHP class.
IsTakenByClass(name) == name \in classes

\* The name already belongs to a GType.
IsTaken(name) == name # Null /\ Registered(name)

\* Mutant: the test of parent_ce is left out.
AnyParentClass(parent) == TRUE

\* The PHP class of the parent can be fetched.
HasParentClass(parent) == parent \in classes

GenerateAs(t, name) ==
    LET parent == type_object[t].parent
        keys   == {k \in Keys : type_object[t].signals[k] # Null}
        Throw(why) == outcome' = why /\ UNCHANGED <<classes, generating>>
    IN  \/ /\ IsTaken(name)
           /\ Throw("already registered")
           /\ UNCHANGED supers
        \/ /\ ~IsTaken(name)
           /\ ~RegisterStatic(name, parent)
           /\ Throw("failed to initialise")
           /\ UNCHANGED supers
        \/ /\ ~IsTaken(name)
           /\ RegisterStatic(name, parent)
           /\ supers' = [supers EXCEPT ![name] = SupersOf(parent) \cup {name}]
           /\ IF HasParentClass(parent)
                THEN /\ classes' = classes \cup {name}
                     /\ generating' = [obj |-> t, name |-> name, todo |-> keys]
                     /\ outcome' = "none"
                ELSE Throw("parent class missing")

\* A name nobody wrote is whatever the memory held.
Generate(t) ==
    /\ Running
    /\ type_object[t] # Null
    /\ \/ /\ \E name \in IF type_object[t].name = Null THEN TypeNames \cup {Null}
                         ELSE {type_object[t].name} : GenerateAs(t, name)
          /\ UNCHANGED <<phase, request, vfuncs, gsignal, born, closure,
                         tableVars, objectVars>>
       \/ /\ type_object[t].name = Null
          /\ Crash("uninitialised name")

\* Mutant: a signal that was refused is tried again.
RetryRefused(key) ==
    IF signal_object[type_object[generating.obj].signals[key]].attr.param_types = "unknown"
      THEN generating.todo
      ELSE generating.todo \ {key}

\* ZEND_HASH_APPLY_KEEP: spl_iterator_apply goes on to the next element.
NextElements(key) == generating.todo \ {key}

\* glib_gobject_type_register_signal for one element of the signals array.
RegisterSignal(key) ==
    /\ generating # Null
    /\ key \in generating.todo
    /\ LET name == generating.name
           id   == <<name, key>>
           s    == type_object[generating.obj].signals[key]
           attr == signal_object[s].attr
       IN  IF signal_object[s].signal_id # Null
             THEN \* php_error(E_ERROR) does not return
                  /\ phase' = "fatal"
                  /\ generating' = Null
                  /\ outcome' = "signal reused"
                  /\ UNCHANGED <<gsignal, born, closure, tableVars, signal_object>>
             ELSE /\ IF attr.class_closure
                       THEN /\ closure' = [closure EXCEPT ![id] = "valid"]
                            /\ class_closure_hash' = StoreClassClosure(id)
                       ELSE UNCHANGED <<closure, class_closure_hash>>
                  /\ born' = [born EXCEPT ![id] = request]
                  /\ IF SignalAccepted(name, key, attr)
                       THEN /\ gsignal' = [gsignal EXCEPT
                                  ![id] = IF attr.accumulator THEN "accu" ELSE "plain"]
                            /\ signal_object' = [signal_object EXCEPT ![s].signal_id = id]
                            /\ signals_hash' = StoreSignalAssociation(id, s)
                       ELSE UNCHANGED <<gsignal, signal_object, signals_hash>>
                  /\ generating' = [generating EXCEPT !.todo = NextElements(key)]
                  /\ outcome' = "none"
                  /\ UNCHANGED phase
    /\ UNCHANGED <<request, supers, classes, vfuncs, type_object, sigvars>>

\* The end of generate(): the GObjectClass gets its vfuncs and properties.
InstallProperties ==
    /\ generating # Null
    /\ generating.todo = {}
    /\ vfuncs' = vfuncs \cup {generating.name}
    /\ generating' = Null
    /\ outcome' = "generated"
    /\ UNCHANGED <<phase, request, supers, classes, gsignal, born, closure,
                   tableVars, objectVars>>

-----------------------------------------------------------------------------
\* php_gobject_closure_accumulator, called by GLib when an instance of the type
\* or of a descendant emits the signal and a handler has answered.
Accumulate(id) ==
    /\ Running
    /\ gsignal[id] = "accu"
    /\ \E n \in classes : id[1] \in SupersOf(n)
    /\ IF SignalGetById(id) = Null
         THEN Crash("no signal for id")
         ELSE /\ outcome' = "accumulated"
              /\ UNCHANGED <<phase, request, processVars, tableVars, objectVars, generating>>

\* PHP_RSHUTDOWN_FUNCTION of gobject: signals_hash, then class_closure_hash.
RShutdown ==
    /\ Running \/ phase = "fatal"
    /\ phase' = "swept"
    /\ Release(sigvars, type_object, EmptyHash)
    /\ closure' = InvalidateClassClosures
    /\ class_closure_hash' = {}
    /\ outcome' = "none"
    /\ UNCHANGED <<request, supers, classes, vfuncs, gsignal, born, generating>>

\* PHP frees the objects that are left.  A Signal that was registered removes its
\* association, from a table that RShutdown destroyed.
ShutdownExecutor ==
    /\ phase = "swept"
    /\ \/ /\ phase' = "idle"
          /\ type_object' = [t \in TypeObjs |-> Null]
          /\ signal_object' = [s \in SigObjs |-> Null]
          /\ sigvars' = {}
          /\ outcome' = "none"
          /\ UNCHANGED <<request, processVars, tableVars, generating>>
       \/ /\ \E s \in SigObjs :
                signal_object[s] # Null /\ signal_object[s].signal_id # Null
          /\ Crash("destroyed table")
       \/ /\ \E t \in TypeObjs : type_object[t] # Null /\ type_object[t].name = Null
          /\ Crash("uninitialised name")

\* The process has served its requests, or died.
Halted ==
    /\ phase = "crashed" \/ (phase = "idle" /\ request = MaxRequests)
    /\ UNCHANGED vars

SignalStep ==
    \/ \E s \in SigObjs : \E attr \in SignalArgs : NewSignal(s, attr)
    \/ \E s \in SigObjs : \E f \in {"run_first", "other"} : WriteFlags(s, f)
    \/ \E s, c \in SigObjs : SignalClone(s, c)
    \/ \E s \in SigObjs : DropSignal(s)

TypeStep ==
    \/ \E t \in TypeObjs : NewType(t)
    \/ \E t \in TypeObjs : \E n \in TypeNames : WriteName(t, n)
    \/ \E t \in TypeObjs : \E p \in Types : WriteParent(t, p)
    \/ \E t \in TypeObjs : \E k \in Keys : \E s \in SigObjs \cup {Null} : WriteSignal(t, k, s)
    \/ \E t \in TypeObjs : DropType(t)
    \/ \E p \in Types : Import(p)
    \/ \E t \in TypeObjs : Generate(t)

\* Steps that follow without the script's doing anything.
GenerateStep == (\E k \in Keys : RegisterSignal(k)) \/ InstallProperties

Next ==
    \/ RInit
    \/ SignalStep
    \/ TypeStep
    \/ GenerateStep
    \/ \E id \in Ids : Accumulate(id)
    \/ RShutdown
    \/ ShutdownExecutor
    \/ Halted

Spec == Init /\ [][Next]_vars

\* generate() runs to its end by itself, and so does the shutdown of a request
\* that a fatal error has stopped.  Nothing obliges a script to end.
Fairness ==
    /\ WF_vars(GenerateStep)
    /\ WF_vars(phase = "fatal" /\ RShutdown)
    /\ WF_vars(ShutdownExecutor)

FairSpec == Spec /\ Fairness

-----------------------------------------------------------------------------
(* What makes the registry correct.                                         *)

\* The variables have the values the C declarations allow.
TypeOK ==
    /\ phase \in {"idle", "active", "fatal", "swept", "crashed"}
    /\ request \in 0 .. MaxRequests
    /\ supers \in [TypeNames -> SUBSET Types]
    /\ classes \subseteq Types
    /\ vfuncs \subseteq TypeNames
    /\ gsignal \in [Ids -> {"absent", "plain", "accu"}]
    /\ born \in [Ids -> 0 .. MaxRequests]
    /\ closure \in [Ids -> {"none", "valid", "invalid"}]
    /\ class_closure_hash \subseteq Ids
    /\ signals_hash \in [Ids -> SigObjs \cup {Null}]
    /\ type_object \in [TypeObjs -> TypeObj \cup {Null}]
    /\ signal_object \in [SigObjs -> Signal \cup {Null}]
    /\ sigvars \subseteq SigObjs
    /\ generating \in Generation \cup {Null}
    /\ outcome \in Outcomes

ValidClosures == {id \in Ids : closure[id] = "valid"}

\* A class closure calls into the PHP functions of the request that generated
\* the class.  GLib keeps the closure for ever, so the request must invalidate it
\* before it ends (class_closure_hash): no valid closure is of another request.
NoStaleClassClosure ==
    \A id \in ValidClosures :
        /\ phase \in {"active", "fatal", "crashed"}
        /\ born[id] = request

\* While a script runs, signals_hash leads from an id to the Signal object that
\* was registered under it, for exactly the signals of this request, and a
\* registered Signal object is always found under its own id.
AssociationExact ==
    phase \in {"active", "fatal"} =>
        /\ \A id \in Ids : (signals_hash[id] # Null) <=>
                                (gsignal[id] # "absent" /\ born[id] = request)
        /\ \A id \in Ids : signals_hash[id] # Null =>
                                /\ signal_object[signals_hash[id]] # Null
                                /\ signal_object[signals_hash[id]].signal_id = id
        /\ \A s \in SigObjs :
                signal_object[s] # Null /\ signal_object[s].signal_id # Null =>
                    signals_hash[signal_object[s].signal_id] = s

\* Whatever way a PHP class came to exist (generate, import, or an import after
\* a generate that failed half way), its type is registered and every ancestor
\* has a class too: the lookup of the parent class can be relied upon.
ClassesClosed ==
    \A n \in classes : SupersOf(n) # {} /\ SupersOf(n) \subseteq classes

\* g_signal_newv relies on names being unique along a line of ancestors: a
\* signal of an ancestor cannot be added once a descendant has its own.
SignalNamesUnique ==
    \A a, b \in TypeNames : \A k \in Keys :
        /\ gsignal[<<a, k>>] # "absent"
        /\ gsignal[<<b, k>>] # "absent"
        /\ a \in supers[b]
        => a = b

\* php_gobject_closure_accumulator finds no Signal object only for a signal that
\* an earlier request registered.
AccumulatorMissesOnlyOld ==
    [][\A id \in Ids : Accumulate(id) /\ phase' = "crashed" => born[id] < request]_vars

\* A class never changes after the generate() that registered its type ended,
\* with success or not: no signal, vfunc or valid closure is added, and nothing
\* is taken away, not even by the end of the request.
ClassUntouched(n) ==
    /\ supers'[n] = supers[n]
    /\ n \in vfuncs' => n \in vfuncs
    /\ \A k \in Keys :
          /\ gsignal'[<<n, k>>] = gsignal[<<n, k>>]
          /\ closure[<<n, k>>] = "invalid" => closure'[<<n, k>>] = "invalid"

RegistrationIsFinal ==
    [][\A n \in TypeNames :
            supers[n] # {} /\ (generating # Null => generating.name # n) =>
                ClassUntouched(n)]_vars

\* The id that generate() gives to a Signal object stays with it until the object
\* is freed, and a registered object is not freed while the script runs, whatever
\* the script drops: signals_hash holds a reference.
RegisteredSignalIsKept ==
    [][\A s \in SigObjs :
            /\ signal_object[s] # Null
            /\ signal_object[s].signal_id # Null
            /\ phase' \in {"active", "fatal"}
            => /\ signal_object'[s] # Null
               /\ signal_object'[s].signal_id = signal_object[s].signal_id]_vars

\* A generate() that has begun comes to an end: every signal of the array is
\* registered, or a fatal error stops the script.
GenerateEnds == (generating # Null) ~> (generating = Null)

\* A request that a fatal error stopped half way through a generate() still gets
\* to its shutdown, and no class closure can call into it afterwards (unless the
\* whole process dies on the way).
FatalIsSwept ==
    (phase = "fatal") ~> (phase = "crashed" \/ (phase = "idle" /\ ValidClosures = {}))

\* Class closures are a resource of the request that made them.
ClosureScope == INSTANCE RequestScope WITH
    Resource <- Ids,
    open     <- phase \in {"active", "fatal"},
    held     <- IF phase = "crashed" THEN {} ELSE ValidClosures

ImplementsRequestScope == ClosureScope!Spec
=============================================================================
