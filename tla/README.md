# GObject for PHP: a verification project

The extension binds GLib's object system to PHP 5.3. Nothing in it runs in parallel, and
yet little in it happens one thing at a time: objects are counted by three systems that do
not know of each other, destroying one destroys others in the middle of the code that
destroyed the first, callbacks run in the middle of `emit()`, and a process serves one
request after another while what was registered with GLib stays for good. The modules in
this directory model those parts, TLC checks them on small instances, and TLAPS proves every
safety property and every refinement that TLC checks for all instances.

All paths below are relative to the repository (`src/`).

## 1. The system

| part | file | state it keeps | operations |
|---|---|---|---|
| Extension entry points | `gobject_ext.c` | `gobject_globals`: the repository, `signals_hash`, `class_closure_hash`, `runtime_functions` | MINIT, RINIT, RSHUTDOWN, MSHUTDOWN |
| `GObject\Type` | `gobject_type_class.c` | name, parent, arrays of properties, signals and interfaces, `is_registered`; in GLib: a GType for ever | `new`, property reads and writes, `generate()`, import of a native class |
| `GObject\Signal` | `gobject_signal_class.c` | flags, parameter types, return type, callbacks, `signal_id`; the table `signals_hash` from ids to objects | `new`, flags, `clone`, association, free |
| Closures | `gobject_closure.c` | `php_gobject_closure`: callback, extra parameters, (class closures) signal | new, marshal, accumulate, invalidate |
| `GObject\Object` | `gobject_gobject_class.c` | wrapper: the GObject, the list of closures connected through it | `__construct`, `signal_connect`, `signal_disconnect`, `notify`, `emit`, free_storage |
| GLib properties | `gobject_gobject_class.c:140-253` | `glib_properties`, a table of GValues per instance | read, write (PHP); init, finalize, get, set (GLib) |
| `GObject\ParamSpec` | `gobject_paramspec_class.c` | one GParamSpec | ten static constructors, free |
| Conversion | `gobject_helpers.c:65-539` | none | zval to and from GValue and GIArgument |
| Names | `gobject_helpers.c:541-646` | none | PHP class to and from GType, namespaces |
| GIRepository loading | `gobject_girepository.c:171-401` | the repository (process), PHP's class, function and constant tables, `runtime_functions` (request) | `load_ns()`, RSHUTDOWN |
| GIRepository invocation | `gobject_girepository.c:34-169` | none of its own | `gobject_universal_method` |
| Build, samples | `config.m4`, `config.w32`, `Pakefile.php`, `test.php`, `gobject-for-php.php` | - | - |

### How they interact

- **PHP and the extension.** PHP calls RINIT, runs the script, destroys the script's
  variables, calls RSHUTDOWN, and only then (`shutdown_executor`) frees the objects that are
  left. So there are frees before RSHUTDOWN and frees after it, and the tables of the
  extension exist only in the first. An E_ERROR or `exit` leaves by `longjmp` from wherever
  the script was, a callback in the middle of an emission included. `PHP_MSHUTDOWN_FUNCTION`
  names its components' shutdowns without calling them (`gobject_ext.c:133-135` are
  declarations), so only request boundaries matter.
- **Type and Signal.** `generate()` walks the properties, parent and signals of a Type, has
  GLib register a type, registers each Signal with a class closure, and stores two
  associations for the time of the request: closure, so that it can be invalidated, and
  signal id with Signal object, where the accumulator looks for its callback.
- **Wrapper, GObject, container.** A wrapper owns a reference to its GObject. The GObject
  points back, under `"gobject-for-php"`, to the *container* (zval) that was `$this` in the
  constructor, without a reference. The marshaller passes that container to callbacks;
  without it, and for every value that `emit()` returns, a new wrapper is made.
- **Closure, wrapper, GObject.** `signal_connect` makes a closure that owns references to
  its extra parameters and is listed by the wrapper; GLib invalidates it when the handler is
  disconnected, when the GObject is finalized (`g_closure_new_object` watches) or when the
  wrapper's free_storage says so; its invalidation gives up the parameters, which may free
  the next wrapper.
- **Repository and PHP.** `load_ns` asks the repository whether a namespace is registered,
  and if not requires it and turns its infos into PHP classes (for ever), functions (deleted
  by RSHUTDOWN) and constants (cleaned by PHP).

### What is hard

Request boundaries with state on both sides; an error half way through a registration;
reference counts in three systems, with destructors inside destructors; emissions nested in
callbacks that connect, disconnect and drop; stale raw pointers; a loaded-test that is true
for other reasons than loading. `PROJECT.json` lists each hazard at its line with the
properties that would show it going wrong, or the reason why none does yet.

### What makes each part correct

- *Type and Signal*: nothing a class owns for a request is used after it; the two tables are
  exact; a registered type is never changed; hierarchies of classes and signals stay closed
  and unambiguous; a failed `generate()` ends and is cleaned up.
- *Objects and closures*: every reference count equals the references that exist, in every
  state of every nesting; lists of closures are exact; no handler outlives its object;
  shutdown ends and leaves nothing.
- *Loading*: classes come with their ancestors; functions die with the request; what was
  loaded is there until the request ends; a load that has begun completes or dies.
- *Properties and conversion*: a value that fits is read as it was written; nothing leaves
  the bounds or the type of its property; one table per object; each property is a variable
  of its own.
- *Names*: a class stands for the type it was made for.
- *Invocation*: each argument is converted from the value that was given for it, none is read
  that was not given, and the caller's variables survive.
- *Callbacks of a Signal*: who has one keeps it alive, and nobody else does.

## 2. The modules

| module | models | extends / instantiates |
|---|---|---|
| `RequestScope` | abstract: resources acquired in a request are given up with it | - |
| `TypeRegistry` | `gobject_type_class.c` but for the installation of properties, `gobject_signal_class.c`, class closures and accumulator of `gobject_closure.c` | `RequestScope` |
| `SignalCallbacks` | who holds the callbacks of a Signal: constructor, clone, destructor, class closure, accumulator | - |
| `ObjectLifecycle` | `gobject_gobject_class.c` but for the properties, `gobject_closure.c`, object conversions of `gobject_helpers.c` | `RequestScope` |
| `Conversion` | numbers, texts and booleans between zval and GValue (`gobject_helpers.c`), bounds of a GParamSpec (`gobject_paramspec_class.c`) | - |
| `PropertyMap` | abstract: each property of each object is a variable of its own | - |
| `PropertyStore` | `gobject_paramspec_class.c`, installation of properties, `glib_properties` and its handlers | `Conversion`, `PropertyMap` |
| `Names` | names of classes and types, and the class table that they lead through | - |
| `Invocation` | `gobject_universal_method` and the conversion of its arguments | `Names`, `Conversion` |
| `GIRepository` | loading in `gobject_girepository.c` | `RequestScope` |
| `TypeRegistryProofs`, `TypeRegistryClassesProofs`, `ObjectLifecycleProofs`, `SignalCallbacksProofs`, `ConversionProofs`, `PropertyStoreProofs`, `InvocationProofs`, `GIRepositoryProofs` | proofs | the component of that name |
| `MC...` | instances for TLC: sets, operators for constants, symmetry | the module of that name |

GLib, GObject, libgirepository and the Zend engine are not part of the repository. What the
extension needs of them is modelled from its use and marked `external` in the map:
`g_type_register_static_simple` and `g_signal_newv` with the conditions under which they
refuse, reference counting and finalization of GObjects, invalidation of closures, PHP's
containers, object store and shutdown.

Operators with a name like `ParamNotReferenced`, preceded by a comment "Mutant: ...", are
not used by the specification: each is a way the definition after it could be wrong, and the
property it belongs to (`PROJECT.json`, `mutants`) fails when it takes that definition's
place.

### RequestScope

Two variables: `open` (a request is being served) and `held` (resources). `Begin` opens with
nothing held, `Acquire` and `Release` happen in an open request only, `End` closes with
nothing held. Three components are shown to implement it: class closures (`TypeRegistry`),
wrappers and closures (`ObjectLifecycle`), functions (`GIRepository`). A crash of the process
counts as its end.

### TypeRegistry

State and code: `supers`, `gsignal`, `closure` are GLib's type and signal nodes; `classes` is
PHP's class table; `class_closure_hash` and `signals_hash` are the tables of the globals;
`type_object` and `signal_object` the objects' structs; `sigvars` the Signal objects that
PHP variables refer to; `generating` the `generate()` in progress. `born` is a history
variable: the request that registered a signal. The pair (type name, key) stands for the
signal id that GLib gives out.

Actions: `RInit`; `NewSignal`, `WriteFlags`, `SignalClone`, `DropSignal`; `NewType`,
`WriteName`, `WriteParent`, `WriteSignal`, `DropType`; `Import`; `Generate`, which does what
comes before the signals and either returns, throws or goes on to one `RegisterSignal` per
key in any order, each of which may end the script by E_ERROR, and `InstallProperties`;
`Accumulate`; `RShutdown` and `ShutdownExecutor`, in that order. Reference counts of Signal
objects are modelled by reachability: an object is freed when nothing refers to it
(`Release`). Undefined behaviour is a choice: the name of a Type that was never written
(`gobject_type_class.c:108`) may be anything or crash; deleting from the destroyed
`signals_hash` after RSHUTDOWN (`gobject_signal_class.c:104`) may do nothing or crash.

Properties:

- `NoStaleClassClosure`: a class closure that GLib could invoke is of the running request.
- `AssociationExact`: `signals_hash` holds exactly this request's signals, each under its id.
- `ClassesClosed`, `SignalNamesUnique`: hierarchies of classes and signals are consistent.
- `AccumulatorMissesOnlyOld`: the missing NULL test of the accumulator can be reached by
  signals of earlier requests only.
- `RegistrationIsFinal`, `RegisteredSignalIsKept`: what was registered stays as it is.
- `GenerateEnds`, `FatalIsSwept`: a `generate()` ends, and if by E_ERROR, every class closure
  it had made is invalid afterwards.
- `ImplementsRequestScope`.

### ObjectLifecycle

State and code: `zval` (which wrapper a container holds), `refcount` (`zval.refcount`),
`names` (how many of the references are PHP variables), `wrapper`
(`gobject_gobject_object`: GObject and list of closures), `gobject` (references, the pointer
under `"gobject-for-php"`, whether native code owns one, and how many references were
forgotten), `closure` (GObject, listing wrapper, parameter, connected), and `stack`, the
calls in progress. A frame is a place in the C code: `emit`, `marshal`, `handler` (PHP code
runs), `release` (arguments are given up), `unset` (GValues of an emission), `unref`, `list`
and `loop` (the three places in free_storage from which control leaves it), `finalize`.
When control leaves the code, for a destructor or a callback, the frame of the code stays
and a new one is put on top; so the model has the interleavings of the real nesting, and a
local variable that is saved across a call (`tmp` of `gobject_gobject_class.c:76`) is a field of
its frame.

Actions of the script: `New`, `Construct`, `AddVar`, `Separate`, `DropVar`, `SignalConnect`,
`SignalDisconnect`, `Emit`, and native code called by it: `NativeNew`, `NativeRef`,
`NativeUnref`, `NativeEmit`. They may happen at top level or in any handler. The rest runs
by itself: `Marshal`, `MarshalValue`, `Call`, `HandlerReturn`, `ReleaseArgument`,
`EmitReturn`, `EmitEnd`, `UnsetValue`, `FreeGObject`, `FreeClosure`, `Finalize`; then `Exit`,
`Sweep`, `RequestEnd`. The signals of the model have an object parameter or none, and return
an object or nothing; handlers that GLib blocks, details and `after` are left out, and the
order of handlers is free.

Four kinds of memory error end the process: a method of a wrapper without a GObject, a
container that was freed under `"gobject-for-php"`, a saved list element that was freed, a
closure whose wrapper was freed. The last one is never reached (`ClosureListsExact`).

Properties:

- `ZvalRefcountsExact`: a container's count is its variables, arguments, `$this` and closure
  parameters, in every state of every nesting.
- `GObjectRefsExact`: a GObject's count is its wrappers, GValues and native owner, plus the
  references the code forgets: the returned GValue of `emit` (line 440), the GValues of a
  conversion that fails (line 412), the GObject of a repeated constructor (line 275).
- `ClosureListsExact`: a wrapper lists exactly the closures that will write to its list.
- `ClosuresWatched`: no handler outlives the GObject it was connected to.
- `ShutdownEnds`, `ImplementsRequestScope`.

### SignalCallbacks

`TypeRegistry` follows Signal objects and abstracts from the callbacks in them; this module
follows the callbacks. `refs` is `zval.refcount` of a callback, `held` the variables, `signal`
the `class_closure` and `accumulator` of each Signal, `closures` the `php_gobject_closure`s
that `generate()` made. Actions: `NewCallback`, `DropCallback`, `NewSignal`, `Construct` (a
second time too), `Clone`, `DropSignal`, `Register`, `Accumulate`, `RequestEnd`. Two things
that the code does break the balance, and history variables say to which callbacks:
`cloned`, because `php_gobject_signal_clone` copies pointers without counting
(`gobject_signal_class.c:225`), and `overwritten`, because a second `__construct` forgets what
was there (line 274).

Properties: `HeldIsAlive` (a callback has a reference for each holder, unless it was cloned)
and `NothingIsKept` (and no more, unless it was overwritten).

### Conversion and PropertyStore

A value is a pair of a type and a number, text or truth value. `Conversion` has what happens
to one: `ToGValue` and `ToZval` are the two functions of `gobject_helpers.c`, `Cast` and
`Single` what C does to a number that is given to a narrower type, `Bounded` a constructor of
`GObject\ParamSpec`; `Transformed` and `Validated` are GLib's. `Transformed` is a set: a double
out of the range of an integer may become any.

State and code of `PropertyStore`: `pspec` are GParamSpecs, with the class they were installed
in and their id; `object` the GObjects, each with the request whose memory its
`glib_properties` is in, and that table's places; `tables` counts tables that were allocated
and not destroyed. A place remembers, as history, by which property and from which zval it
was written. Actions: `NewParamSpec`, `FreeParamSpec`, `Generate` (the property part of
`Type::generate`, with any id for a string key), `New` (the instance initialiser runs once per
generated ancestor, and each run replaces the table of the one before), `Write`, `Read`,
`Dump`, `NativeRef`, `NativeUnref`, `Wrap`, `DropWrapper`, `RequestEnd`. Reading changes
nothing unless it ends the process, so the action `Read` is that case, and what is read is
the operator `ReadAs`.

Properties:

- `RoundTrip`: what was written and fits is what is read, while no other property wrote to
  the place.
- `WithinBounds`, `ReadsAreTyped`: what is stored is within the bounds of its writer, and what
  is read is of the type of the property read, even where the two share an id
  (`gobject_gobject_class.c:227`).
- `TablesExact`: one table per object, as long as no class has a generated ancestor; the line
  that replaces a table (`gobject_gobject_class.c:212`) makes the exception necessary.
- `HeldOutlives`: only an object that native code holds comes into a request with a table of
  an earlier one.
- `ImplementsPropertyMap`: a step writes at most one property, among those that have an id to
  themselves.

### Names and Invocation

`Names` translates `namespaced_name`, the scan of `phpname_from_gtype` and the split and join of
`g_type_from_phpname`, as functions on sequences of characters, because the property is about
characters: `ClassMeansType` says that going from a class's type to its name and back
leads to the type again, for names with one to four underscores in a row and in both cases,
with the exception of a type whose class has the name of a class of a typelib.

State and code of `Invocation`: `zval` are PHP's values with their counts, `var` the script's
variables, `call` the call in progress with what was passed, the slots of the array that
libffi reads (`slot`), and the position of the loop (`at`); `converted` (history) the zvals
that a conversion took a reference from. Actions: `Assign`, `Share`, `Drop`, `Begin`, `Convert`
(one parameter each), `ReadBeyond`, `CallNative`, and `Declare` (a step of `Names`), since a
method can be called only while its class is the class of its typelib.

Properties:

- `ArgumentsArrive`: the native function gets each number and text in the slot of the
  parameter it was given for, cut to the width.
- `ReadsWithin`: an argument beyond the given ones is read only when an optional parameter
  comes before a required one.
- `VariablesSurvive`: after any sequence of calls each zval has the references that variables
  and the call have, except those that `convert_to_long_ex` separated
  (`gobject_helpers.c:337`): the copy is lost, and the caller loses a reference.

### Memory errors

In all these modules a step that reads or frees what is not there ends the process (`Die`,
or the outcomes of `Crash` and `fault`). That stands for undefined behaviour: what a process
does after it is not described. Those that the code can reach and no property excludes are
hazards without a property in `PROJECT.json`: they are steps of the model, and TLC takes
them. A clone of a Signal without parameter types follows NULL
(`gobject_signal_class.c:221`), contrary to what the message of `gobject_type_class.c:318`
advises; a property that does not exist is read through NULL (`gobject_gobject_class.c:168`);
`get_properties` initialises a table at NULL (line 149); a text that is not UTF-8 is read
through NULL (`gobject_helpers.c:59`); methods and functions that throw are called with a slot
that was never set (`gobject_girepository.c:106`).

### GIRepository

State and code: `gir` is what `g_irepository_is_registered` answers; `classes`,
`function_table` and `constants` are PHP's tables; `runtime_functions` is the table of the
globals; `loading` is the loop of `load_ns` with what is left of it; `completed` (history)
is the last request whose `load_ns` went through a namespace. `LoadStart` requires a
namespace *and its dependencies*, `LoadClass` registers a class and its missing ancestors,
`LoadFunction` registers a function or fails on a taken name and stores the name either way;
the warning it raises runs the script's error handler, which may exit. A fundamental
type of its own has no parent object, and `load_class` follows a null pointer
(`gobject_girepository.c:215-216`): the process crashes.

Properties: `AncestorsLoaded`, `GirFunctionsTracked`, `CompletedIsPresent`,
`LoadedAtMostOnce`, `LoadCompletesOrDies`, `ImplementsRequestScope`; their comments say
what each means.

## 3. The runs

Bounds are named in the modules (`MaxRequests`, `MaxVars`, `MaxEmissions`, `MaxLost`, `MaxId`,
`MaxTables`, `MaxTypes`, `MaxArgs`, `MaxRefs`) or are the sizes of sets.

| run | instance | distinct states |
|---|---|---|
| `registry` | 2 class names, one may derive from the other; 1 signal key, 1 Type, 1 Signal; 2 requests | 366,000 |
| `registry_signals` | 1 class name, 2 keys of which one is native; 2 Signals to share, clone, drop; 1 request | 104,000 |
| `registry_requests` | 1 class name, 2 keys, Signals with known, unknown and no parameter types; 2 requests; fairness | 183,000 |
| `callbacks` | 2 callbacks, 2 Signals, at most 5 references to a callback | 376,000 |
| `girepository` | Gtk requires Gio requires GObject; classes across them, one fundamental; 2 functions of one folded name; script functions; 2 requests; fairness | 765 |
| `objects` | 2 containers, 2 wrappers, 1 GObject, 2 closures, 1 emission | 286,000 |
| `objects_nested` | 2 containers, 2 wrappers, 2 GObjects, 1 closure, 2 emissions | 371,000 |
| `objects_requests` | 2 containers, 2 wrappers, 1 GObject, 1 closure, 2 requests; fairness | 262,000 |
| `properties` | 2 GParamSpecs of 7 declarations, 2 classes in line, 1 object, 7 values, ids 1 and 2; 2 requests | 126,000 |
| `invocation` | 8 functions of up to 2 parameters, 3 variables, 3 zvals, 4 values; 6 names for types, of which 2 are registered, and a typelib | 312,000 |
| `callback_container`, `saved_element` | 2 containers, 1 or 2 of the others | - |

Why these are enough to be of interest: two requests are what it takes for one to leave
something to the next; two keys for a `generate()` to fail half way, with a closure already
made; two classes for a hierarchy; two Signals for a clone; a class that is inherited across
two namespaces for the recursion. In `ObjectLifecycle` two wrappers of one GObject are the
smallest case in which freeing one may finalize the GObject under another, two closures the
smallest in which a list element is saved while another is invalidated (the run
`saved_element` takes 48 steps with exactly these), two emissions the smallest nesting.
`objects` has one GObject and two closures, `objects_nested` two GObjects, no forgotten
references and one closure: both together at once exceed what a run may cost. In
`PropertyStore` two GParamSpecs and two classes are the smallest case of a shared id, of a
table that is replaced and of a name that hides another; widths are scaled to 4, 8 and 32
numbers and floats are exact up to 4, which leaves values below, within and above every
width and between two floats. In `Invocation` three variables are needed for a zval that two
others still share when one reference was taken by a call; two parameters for an
argument beyond the given ones, or a zval that is given twice. Five references to a callback
are a variable, a Signal that has it twice, a class closure and one that was forgotten.
Symmetry is used for sets that are interchangeable, and never in a run that checks liveness.
In `registry` and `registry_signals` Signals have all attributes, where a class closure and
an accumulator matter most.

### Findings: two runs that show the code doing other than what the repository says of it

- `callback_container`: the container that a callback gets for the emitter may have been
  freed while the object lives; the tests state it is the object.
- `saved_element`: the element that the loop of free_storage saved, so as not to use one
  that was removed, may be removed as well.

The models have other states in which what a script would expect does not hold; they are
outcomes of actions, and the properties are stated with them:

- the accumulator finds no Signal in a request after the one that generated the class
  (`gobject_closure.c:154`); `AccumulatorMissesOnlyOld` says that this is the only case;
- in a second request `load_ns` returns TRUE and the functions and constants are not there,
  and the same happens in one request to a namespace that came in as a dependency
  (`gobject_girepository.c:297`); `LoadedAtMostOnce` and `CompletedIsPresent` are about it;
- a subclass that does not call the parent's constructor (`gobject_gobject_class.c:304`);
- a type stays registered when `generate()` fails for want of the parent's PHP class
  (`gobject_type_class.c:441`);
- `emit()` makes a second wrapper for a GObject that it returns
  (`gobject_gobject_class.c:439`);
- callbacks of cloned Signals are released twice, and a second constructor keeps those of the
  first (`SignalCallbacks`).

### Fairness

Scripts are never obliged to do anything. What is assumed is that C code, once called, goes
on to its end: weak fairness of the steps of a running `generate()` (`GenerateStep`) and
`load_ns()` (`LoadStep`) and of destructions in progress (`Unwind`), and that PHP shuts down a
request whose script ended: weak fairness of `RShutdown` after a fatal error or exit, of
`ShutdownExecutor`, `Sweep` and `RequestEnd`. That callbacks return is *not* assumed; a
script that loops for ever in one is a behaviour of the model. `PropertyStore`,
`SignalCallbacks` and `Invocation` state no fairness: nothing in them waits.

`Halted` is a stuttering step of a process that has served its requests or died, so every
other deadlock would be reported.

## 4. The proofs

No assumption is made but those on the constants, which TLC evaluates in every run:

- `ConstantsAssumption` and `NullAssumption` of `TypeRegistry` and `GIRepository`: ancestries
  are reflexive and transitive, `Null` is none of the values, names are disjoint, the infos of a
  repository have one kind each; `RootAssumption`: GObject has no ancestor but itself;
- `SpanAssumption`, `CodesAssumption`: widths are even and in order, and code points fit an int;
- `StoreAssumption`, `ArgumentsAssumption`: the generated ancestors of a class are finite and in
  line, the constructors of a ParamSpec get numbers where they take numbers, and NULL is no
  GParamSpec;
- `NamesAssumption`: names of types and of typelibs have no separator, and a namespace has one
  class of a name and one of a GType;
- `InvocationAssumption`: parameters are a sequence, variables finite in number, `None` is no
  function;
- `ConstantsAssumption` and `NullAssumption` of `ObjectLifecycle`: `Null` is nothing else, and
  wrappers and closures are finite in number, so that those that refer to a thing can be
  counted;
- `CallbacksAssumption`: callbacks and Signals are finite in number.

**TypeRegistry.** `InvHolds` proves `TypeOK /\ ReferencesLive /\ GenerationLive`. `TypeOK` is not
inductive: `RegisterSignal` writes the fields of an object that might be gone, so
the invariant has to say that references lead to objects that exist and that the Type of a
running `generate()` is there with all keys still to do. On it rest
`ClosuresNeverStale` (by `ClosureInv`: every valid closure is of this request *and is in
`class_closure_hash`*, which is what RSHUTDOWN goes through), `RefinesRequestScope`,
`AssociationsExact` (by `AssociationInv`: in addition nothing of the script is left when a
request begins, and a signal yet to register is absent, so an id is given out once), and
`RegistrationFinal`. `TypeRegistryClassesProofs` adds `LineInv`: GLib's hierarchy is closed
upwards, a class being generated has no descendants yet (so a signal added to it cannot
meet one of the same name below), and signals belong to registered types. From it
`ClassesAreClosed` and `SignalNamesAreUnique` follow. `AccumulatorFindsNew` and
`RegisteredIsKept` are action properties: the first follows from `AssociationInv`, since a
signal of this request that the script can emit is in the table; the second from what
`Release` frees, which is never what `signals_hash` refers to.

**ObjectLifecycle.** The counts are exact in every state of every nesting, for any number of
containers, wrappers, GObjects and closures, of emissions and of requests. `Inv` has eight
parts, and no property is inductive without most of them:

- `Counted` and `Owned` compare each count with what refers to the thing in the heap *and in
  the frames*: arguments of callbacks, `$this` and GValues of emissions. A wrapper whose
  free_storage is past its `g_object_unref` still points to the GObject but owns nothing
  (`GaveUp`), so `Owning` leaves it out. An exit leaves containers with references of calls
  that are gone, so `Counted` is an equation only while the script runs.
- `Listed`: lists and closures agree both ways, without repetition. That is what the loop of
  free_storage needs to find every closure, and each once.
- `ClosuresWatched`: a connected closure has a GObject, so finalizing it is in time.
- `Settled`: a container refers to a wrapper that no frame is freeing. Without it a callback
  could use a wrapper between its `g_object_unref` and the end of its list.
- `Framed` describes the stack. `Stacked`: nothing is destroyed twice at once, and nothing lies
  on a marshaller but destructions. `OnEmit`: a marshaller and a handler lie on
  their emission, and convert its values. `Live`: what a frame works on is still there, and a
  saved element that is still in its list is the first of it. This last fact makes the list
  empty when the saved element is NULL, so that free_storage forgets no closure.
- `Idle`: between requests nothing is left.

The counts over frames are sums over positions of the stack, and most lemmas before the
actions (`HeldPush`, `ValuesPush`, `PairsShift`) say what pushing and popping a frame does to
them. `DtorStep`, `InvalidateStep` and `UnrefStep` are the three recursive calls of the C code
(`zval_ptr_dtor`, `g_closure_invalidate`, `g_object_unref`), proved once for every place that
makes them. `PlainStep` covers the actions of scripts, which neither free nor unwind.
`WrapperOutlivesClosures` says that `fault` is never `"stale_zobject"`: a step that would crash
so would need a closure whose wrapper is gone, contrary to `Listed`. For the refinement of
`RequestScope`, `StepKinds` sorts every step into those that start or end a request, those after
which there is as much or more, and those after which there is as much or less.

**SignalCallbacks.** The three properties together are inductive, and no one of them is by
itself: that a destructor finds the references it gives back is `HeldIsAlive`, and that a
callback is freed when the last holder goes is `NothingIsKept`. The lemmas split the set of
places that hold a callback into those of one Signal and the others (`CallbacksTyped`,
`CallbacksOutliveHolders`, `CallbacksGoWithHolders`).

**Conversion and PropertyStore.** `ConversionProofs` shows for every width that a cast gives a
number of the type and leaves one of the type alone. `Inv` of `PropertyStoreProofs` says of
each GParamSpec that its bounds are of its type and in order, and of each place of each table
that it has what its property accepted: in bounds, of its type, and reading back as what it
was written from if that fits. `WrittenIsRead`, `BoundsAreKept`, `ReadsHaveTheirType` and
`PropertiesTyped` follow without another induction. That the nearest of several properties
of one name exists, for any hierarchy, is `WellFoundedInduction` over a number of ancestors.
`TablesAreExact` needs `Balanced` in addition, where tables are compared with the objects of
the request. `NativeObjectsOutlive` is about the one step that ends a request.
`PropertiesAreVariables` maps a state to `PropertyMap`: the value of a property of an object is
what its place in the table reads as, if the place is its own. A `Write` through one name is
then a write of one variable or of none (`WriteMap`), creation and destruction set and unset
all of them, and registering a class changes none, because objects are of classes whose
ancestors were registered before (`Closed`).

**Invocation.** `Inv` is `TypeOK` with records and sequences spelled out, and that the arguments of
a call are at least as many as its function requires. `NoReadBeyond` counts: if all parameters
up to a position were required, the function would require more than it was given.
`CallsLeaveVariables` counts who has a zval: variables, and positions of the arguments, since
one may be given twice. Each action moves both sides by the same amount, except where
`convert_to_long_ex` separates a zval, which `converted` remembers. `ArgumentsReachFunctions`
rests on `Arriving`: a zval counts at least the positions that are still to be converted, so
one that is given twice is separated before it changes, and the second position still has
what the script gave.

**Names.** `ClassesMeanTypes` is about what two loops compute for every name. Induction over
sequences is done with sets: `Backwards` takes a set of positions that has the last one and,
with all later ones, each earlier one, and gets all of them from `WellFoundedInduction`. It
proves that functions defined by such loops exist (`LoopEnds`), that `Joined` of one more
character is its piece in front (`JoinedPush`), and from the end to the start of a name that
`Joined(Scanned(s)) = s` (`RoundTripOfNames`). With `NamesTypeOK`, and names of typelibs that
tell which class they are of (`NamespacedTells`), the property follows in every state.

**GIRepository.** `InvHolds` proves the conjunction of the four safety properties with three
facts: only a running script is inside `load_ns` (`LoadingIsActive`), what the loop has gone
through is there (`LoadedSoFar`), and no namespace was completed by a request that is yet to
come (`CompletedBefore`). `AncestorsLoaded` and `TypeOK` are inductive by themselves;
`CompletedIsPresent` needs `LoadedSoFar` at the end of the loop and `CompletedBefore` when a
request begins; `GirFunctionsTracked` gives the refinement of `RequestScope`, because it
empties the set of functions with the phase. `NeverLoadedAgain` proves the nested temporal
property `LoadedAtMostOnce` from an invariant of its own: the state "known, not being
loaded, completed by r" is left by no step.

**Only model-checked.** Liveness: `GenerateEnds`, `FatalIsSwept`, `LoadCompletesOrDies` and
`ShutdownEnds`, which would take ENABLED and fairness. Every other property of a passing run
is stated by a theorem. The two findings are runs and not theorems: one state is enough.

## 5. What is not modelled

- `notify()`: an emission without object parameters, covered by `Emit` in what it can do to
  ownership.
- `Type::from` (`gobject_type_class.c:245-280`) after its magic value: no path leads there.
- The elements of an array that becomes a GValue or comes from one
  (`zhashtable_to_gvalue`): an array arrives at a property and is refused by GLib.
- `parse_namespaced_name`: a function is found by its namespace and name, as `GIRepository` has
  them.
- The infos and arrays that early returns of `gobject_universal_method` leave behind
  (`gobject_girepository.c:142`): they are neither read nor written again.
- What `g_signal_emitv` reads behind its array when `emit` gets too few parameters
  (`gobject_gobject_class.c:417`): the model's emissions have as many as the signal takes.
- The element without a closure that a wrapper's list begins with
  (`gobject_gobject_class.c:121`): free_storage steps over it.
- Nicknames and descriptions of a ParamSpec, values that pass through an accumulator,
  details and blocking of handlers.
- MSHUTDOWN, ini entries, `my_gobject_test`, phpinfo, build files and samples.
- Threads: the extension has no state that two threads share under ZTS but GLib's own, and
  the model is of one process with one thread.

## 6. Plan

Done: every part of section 1 that keeps state has a module, and its safety properties have
proofs. What is left, in this order:

1. `TypeRegistry` and `ObjectLifecycle` composed: emissions that run class closures and
   accumulators, across requests.
2. Infos: references to what the repository gives out, on each early return of
   `gobject_universal_method` and `load_ns`.
3. Proofs of the safe part of liveness: measures that each step of a `generate()`, a `load_ns()`
   and a destruction makes smaller, which is what TLC's liveness runs rest on.
4. The memory errors of section 2 as theorems in the manner of `WrapperOutlivesClosures`: from
   which states each can be reached, and that no other can be.
