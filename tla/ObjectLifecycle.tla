-------------------------- MODULE ObjectLifecycle --------------------------
(***************************************************************************)
(* GObject\Object: three systems that each count references for themselves. *)
(*                                                                         *)
(*   zval       a container that PHP variables, arguments and callbacks    *)
(*              share; PHP frees it with its last reference;               *)
(*   wrapper    a gobject_gobject_object in PHP's object store, freed by    *)
(*              gobject_gobject_free_storage with its last container;      *)
(*   GObject    counted by GLib; owned by its wrappers and by native code; *)
(*   GClosure   the callback of signal_connect(): owned by the handler,     *)
(*              listed in the wrapper it was connected through.            *)
(*                                                                         *)
(* A GObject finds the container that stands for it through the raw pointer *)
(* under "gobject-for-php", which counts for nothing.                      *)
(*                                                                         *)
(* Freeing one thing frees the next in the middle of the code that freed   *)
(* the first, and handlers run in the middle of emit(): `stack` holds the  *)
(* calls in progress, the innermost one first.  What a GValue or a frame of *)
(* PHP refers to is kept by its frame.                                     *)
(***************************************************************************)
EXTENDS Naturals, Sequences, FiniteSets

CONSTANTS
    Zvals,          \* containers
    Wrappers,       \* handles of PHP's object store
    GObjs,          \* GObjects
    Closures,       \* GClosures
    MaxVars,        \* bound: variables that share one container
    MaxEmissions,   \* bound: emit() calls in progress at once
    MaxLost,        \* bound: references to one GObject that emit() and __construct forget
    MaxRequests,    \* bound: requests that the process serves
    Null

ASSUME ConstantsAssumption ==
    /\ MaxVars \in Nat \ {0}
    /\ MaxEmissions \in Nat
    /\ MaxLost \in Nat
    /\ MaxRequests \in Nat
    /\ Null \notin Zvals \cup Wrappers \cup GObjs \cup Closures
    /\ IsFiniteSet(Wrappers) /\ IsFiniteSet(Closures)

VARIABLES
    phase,      \* "idle", "active", "shutdown", "crashed"
    fault,      \* the memory error that crashed the process
    request,    \* the number of the request
    zval,       \* [Zvals -> the wrapper the container refers to, Null if free]
    refcount,   \* [Zvals -> zval.refcount]
    names,       \* [Zvals -> the references that are PHP variables]
    wrapper,    \* [Wrappers -> gobject_gobject_object, Null if free]
    gobject,    \* [GObjs -> GObject, Null if there is none]
    closure,    \* [Closures -> GClosure, Null if none or invalid]
    stack       \* calls in progress, the innermost first

vars == <<phase, fault, request, zval, refcount, names, wrapper, gobject, closure, stack>>

\* gobject: the GObject or Null; closures: the list, newest first.
Wrapper == [gobject : GObjs \cup {Null}, closures : Seq(Closures)]

\* refs: the count; data: "gobject-for-php"; native: whether C code has a reference;
\* lost: references whose owner is gone.
GObject == [refs : Nat, data : Zvals \cup {Null}, native : BOOLEAN, lost : Nat]

\* zobject: the wrapper that lists it; param: the container that the callback or
\* an extra parameter refers to; connected: its handler is.
Closure == [gobject : GObjs, zobject : Wrappers, param : Zvals \cup {Null},
            connected : BOOLEAN]

ASSUME NullAssumption == Null \notin Wrapper \cup GObject \cup Closure

(* The frames.                                                              *)
EmitFrame(z, gs, cs) ==     \* a signal of gs[1] with the parameters gs, by emit() of
                            \* $this = z or by C code, with the handlers cs to call
    [at |-> "emit", this |-> z, values |-> gs, todo |-> cs, ret |-> FALSE]
MarshalFrame(c, gs, args) == \* gs are to be converted, args are
    [at |-> "marshal", closure |-> c, values |-> gs, args |-> args]
HandlerFrame(c, args) ==    \* the callback of c runs
    [at |-> "handler", closure |-> c, args |-> args]
ReleaseFrame(c, args) ==    \* its arguments, or $this, are given up one by one
    [at |-> "release", closure |-> c, args |-> args]
UnsetFrame(z, gs) ==        \* a signal is over, its GValues gs are unset
    [at |-> "unset", this |-> z, values |-> gs]
UnrefFrame(w) ==            \* free_storage(w) is about to give up the GObject
    [at |-> "unref", zobject |-> w]
ListFrame(w) ==             \* ... is about to read intern->closures
    [at |-> "list", zobject |-> w]
LoopFrame(w, tmp) ==        \* ... is about to look at the list element tmp
    [at |-> "loop", zobject |-> w, tmp |-> tmp]
FinalizeFrame(g) ==         \* g_object_unref(g) of the last reference
    [at |-> "finalize", gobject |-> g]

Frames ==
    [at : {"emit"}, this : Zvals \cup {Null}, values : Seq(GObjs),
     todo : SUBSET Closures, ret : BOOLEAN]
    \cup [at : {"marshal"}, closure : Closures, values : Seq(GObjs), args : Seq(Zvals)]
    \cup [at : {"handler", "release"}, closure : Closures \cup {Null}, args : Seq(Zvals)]
    \cup [at : {"unset"}, this : Zvals \cup {Null}, values : Seq(GObjs)]
    \cup [at : {"unref", "list"}, zobject : Wrappers]
    \cup [at : {"loop"}, zobject : Wrappers, tmp : Closures \cup {Null}]
    \cup [at : {"finalize"}, gobject : GObjs]

Faults == {"none", "no_gobject", "stale_zval", "stale_element", "stale_zobject"}

TypeOK ==
    /\ phase \in {"idle", "active", "shutdown", "crashed"}
    /\ fault \in Faults
    /\ request \in 0 .. MaxRequests
    /\ zval \in [Zvals -> Wrappers \cup {Null}]
    /\ refcount \in [Zvals -> Nat]
    /\ names \in [Zvals -> 0 .. MaxVars]
    /\ wrapper \in [Wrappers -> Wrapper \cup {Null}]
    /\ gobject \in [GObjs -> GObject \cup {Null}]
    /\ closure \in [Closures -> Closure \cup {Null}]
    /\ stack \in Seq(Frames)

Init ==
    /\ phase = "idle" /\ fault = "none" /\ request = 0
    /\ zval = [z \in Zvals |-> Null]
    /\ refcount = [z \in Zvals |-> 0]
    /\ names = [z \in Zvals |-> 0]
    /\ wrapper = [w \in Wrappers |-> Null]
    /\ gobject = [g \in GObjs |-> Null]
    /\ closure = [c \in Closures |-> Null]
    /\ stack = <<>>

-----------------------------------------------------------------------------
(* State formulae                                                           *)

Elements(s) == {s[i] : i \in DOMAIN s}
Count(x, s) == Cardinality({i \in DOMAIN s : s[i] = x})

Is(frame, places) == frame.at \in places
FrameAt(places) == {i \in DOMAIN stack : Is(stack[i], places)}

Top == Head(stack)
Below == Tail(stack)
TopIs(places) == stack # <<>> /\ Is(Top, places)

\* The script executes: nothing is in progress, or a callback.
ScriptRuns == phase = "active" /\ (stack = <<>> \/ TopIs({"handler"}))

\* A container that the script can name.
Usable(z) ==
    \/ names[z] > 0
    \/ TopIs({"handler"}) /\ z \in Elements(Top.args)

\* Closures whose handler GLib is calling.
RunningIn(frames) ==
    {frames[i].closure : i \in {j \in DOMAIN frames :
                                    Is(frames[j], {"marshal", "handler", "release"})}}

FreshZval(z) == refcount[z] = 0
FreshWrapper(w) == wrapper[w] = Null /\ \A z \in Zvals : zval[z] # w
FreshClosure(c) ==
    /\ closure[c] = Null
    /\ c \notin RunningIn(stack)
    /\ \A i \in FrameAt({"emit"}) : c \notin stack[i].todo

\* free_storage of w has begun: the bucket is not valid any more.
Freeing(w) == \E i \in FrameAt({"unref", "list", "loop"}) : stack[i].zobject = w

-----------------------------------------------------------------------------
(* What the calls are made of                                               *)

Crash(kind) ==
    /\ phase' = "crashed"
    /\ fault' = kind
    /\ UNCHANGED <<request, zval, refcount, names, wrapper, gobject, closure, stack>>

\* zval_ptr_dtor of z in the middle of `frames`.  PHP frees the wrapper with its
\* last container; a wrapper that is being freed, or was swept, is not its any more.
ZvalPtrDtor(z, frames) ==
    LET w == zval[z]
        last == /\ w # Null
                /\ wrapper[w] # Null /\ ~Freeing(w)
                /\ \A z2 \in Zvals \ {z} : zval[z2] # w
    IN  /\ refcount' = [refcount EXCEPT ![z] = @ - 1]
        /\ IF refcount[z] > 1
             THEN zval' = zval /\ stack' = frames
             ELSE /\ zval' = [zval EXCEPT ![z] = Null]
                  /\ stack' = IF last THEN <<UnrefFrame(w)>> \o frames ELSE frames

\* php_gobject_closure_invalidate: the callback and the extra parameters.
ClosureInvalidate(c, frames) ==
    IF closure[c].param = Null
      THEN stack' = frames /\ UNCHANGED <<zval, refcount>>
      ELSE ZvalPtrDtor(closure[c].param, frames)

\* Where c is in a list first.
Position(list, c) ==
    CHOOSE i \in DOMAIN list : list[i] = c /\ \A j \in 1 .. i - 1 : list[j] # c

\* g_slist_remove
Without(list, c) ==
    LET i == Position(list, c)
    IN  IF c \in Elements(list)
          THEN SubSeq(list, 1, i - 1) \o SubSeq(list, i + 1, Len(list))
          ELSE list

\* unregister_gobject_closure
UnregisterGobjectClosure(w, c) ==
    wrapper' = [wrapper EXCEPT ![w].closures = Without(@, c)]

\* g_closure_invalidate: the notifiers, the newest first.
Invalidate(c, frames) ==
    LET w == closure[c].zobject
    IN  IF wrapper[w] = Null
          THEN Crash("stale_zobject")
          ELSE /\ UnregisterGobjectClosure(w, c)
               /\ closure' = [closure EXCEPT ![c] = Null]
               /\ ClosureInvalidate(c, frames)
               /\ UNCHANGED <<phase, fault, request, names, gobject>>

\* g_object_unref of g in the middle of `frames`.
AfterUnref(g, frames) ==
    IF gobject[g].refs = 1 THEN <<FinalizeFrame(g)>> \o frames ELSE frames

\* The list of a new wrapper has one element without a closure, which
\* free_storage steps over; it is left out.
NewWrapper(g) == [gobject |-> g, closures |-> <<>>]

-----------------------------------------------------------------------------
(* The script                                                               *)

Begin ==
    /\ phase = "idle"
    /\ request < MaxRequests
    /\ phase' = "active"
    /\ request' = request + 1
    /\ UNCHANGED <<fault, zval, refcount, names, wrapper, gobject, closure, stack>>

\* gobject_gobject_object_new, for `$v = new C': the constructor is a call of
\* its own, and one that a class of the script may not make.
New(w, z) ==
    /\ ScriptRuns
    /\ FreshWrapper(w) /\ FreshZval(z)
    /\ wrapper' = [wrapper EXCEPT ![w] = NewWrapper(Null)]
    /\ zval' = [zval EXCEPT ![z] = w]
    /\ refcount' = [refcount EXCEPT ![z] = 1]
    /\ names' = [names EXCEPT ![z] = 1]
    /\ UNCHANGED <<phase, fault, request, gobject, closure, stack>>

\* GObject\Object::__construct with $this in z.  Called again, it forgets the
\* GObject it had.
Construct(z, g) ==
    LET w == zval[z]
        old == wrapper[w].gobject
        made == [refs |-> 1, data |-> z, native |-> FALSE, lost |-> 0]
    IN  /\ ScriptRuns /\ Usable(z)
        /\ gobject[g] = Null
        /\ old # Null => gobject[old].lost < MaxLost
        /\ wrapper' = [wrapper EXCEPT ![w].gobject = g]
        /\ gobject' = [x \in GObjs |->
                        CASE x = g -> made
                          [] x = old -> [gobject[x] EXCEPT !.lost = @ + 1]
                          [] OTHER -> gobject[x]]
        /\ UNCHANGED <<phase, fault, request, zval, refcount, names, closure, stack>>

\* A variable more shares the container: `$b = $a', or an argument that is kept.
AddVar(z) ==
    /\ ScriptRuns /\ Usable(z)
    /\ names[z] < MaxVars
    /\ refcount' = [refcount EXCEPT ![z] = @ + 1]
    /\ names' = [names EXCEPT ![z] = @ + 1]
    /\ UNCHANGED <<phase, fault, request, zval, wrapper, gobject, closure, stack>>

\* The object gets another container: an assignment to, or the making of, a
\* PHP reference separates.
Separate(z, z2) ==
    /\ ScriptRuns /\ Usable(z)
    /\ FreshZval(z2)
    /\ zval' = [zval EXCEPT ![z2] = zval[z]]
    /\ refcount' = [refcount EXCEPT ![z2] = 1]
    /\ names' = [names EXCEPT ![z2] = 1]
    /\ UNCHANGED <<phase, fault, request, wrapper, gobject, closure, stack>>

\* A variable goes: unset, end of its scope, or the end of the request.
DropVar(z) ==
    /\ ScriptRuns \/ (phase = "shutdown" /\ stack = <<>>)
    /\ names[z] > 0
    /\ names' = [names EXCEPT ![z] = @ - 1]
    /\ ZvalPtrDtor(z, stack)
    /\ UNCHANGED <<phase, fault, request, wrapper, gobject, closure>>

\* Mutant: php_gobject_closure_new keeps the parameter without a reference to it.
ParamNotReferenced(p) == refcount

\* zval_add_ref in php_gobject_closure_new.
ParamReferenced(p) == IF p = Null THEN refcount ELSE [refcount EXCEPT ![p] = @ + 1]

\* register_gobject_closure: g_slist_prepend.
RegisterGobjectClosure(w, c) ==
    wrapper' = [wrapper EXCEPT ![w].closures = <<c>> \o @]

\* signal_connect of a signal that exists, with a callback or an extra parameter
\* that refers to p; of another signal it changes nothing.
SignalConnect(z, c, p) ==
    LET w == zval[z]
        g == wrapper[w].gobject
    IN  /\ ScriptRuns /\ Usable(z)
        /\ FreshClosure(c)
        /\ p # Null => Usable(p)
        /\ IF g = Null
             THEN Crash("no_gobject")
             ELSE /\ closure' = [closure EXCEPT ![c] =
                        [gobject |-> g, zobject |-> w, param |-> p, connected |-> TRUE]]
                  /\ refcount' = ParamReferenced(p)
                  /\ RegisterGobjectClosure(w, c)
                  /\ UNCHANGED <<phase, fault, request, zval, names, gobject, stack>>

\* signal_disconnect.  The handler that GLib is calling keeps its closure until
\* the call returns.
SignalDisconnect(z, c) ==
    /\ ScriptRuns /\ Usable(z)
    /\ closure[c] # Null
    /\ closure[c].connected
    /\ closure[c].gobject = wrapper[zval[z]].gobject
    /\ IF c \in RunningIn(stack)
         THEN /\ closure' = [closure EXCEPT ![c].connected = FALSE]
              /\ UNCHANGED <<phase, fault, request, zval, refcount, names, wrapper,
                             gobject, stack>>
         ELSE Invalidate(c, stack)

\* C code that the script calls makes an object of its own,
NativeNew(g) ==
    /\ ScriptRuns
    /\ gobject[g] = Null
    /\ gobject' = [gobject EXCEPT ![g] =
                      [refs |-> 1, data |-> Null, native |-> TRUE, lost |-> 0]]
    /\ UNCHANGED <<phase, fault, request, zval, refcount, names, wrapper, closure, stack>>

\* keeps a reference to an object, as the value of a property,
NativeRef(z) ==
    LET g == wrapper[zval[z]].gobject
    IN  /\ ScriptRuns /\ Usable(z)
        /\ g # Null
        /\ ~gobject[g].native
        /\ gobject' = [gobject EXCEPT ![g].refs = @ + 1, ![g].native = TRUE]
        /\ UNCHANGED <<phase, fault, request, zval, refcount, names, wrapper, closure, stack>>

\* and gives it up.
NativeUnref(g) ==
    /\ ScriptRuns
    /\ gobject[g] # Null
    /\ gobject[g].native
    /\ gobject' = [gobject EXCEPT ![g].refs = @ - 1, ![g].native = FALSE]
    /\ stack' = AfterUnref(g, stack)
    /\ UNCHANGED <<phase, fault, request, zval, refcount, names, wrapper, closure>>

-----------------------------------------------------------------------------
(* Signals                                                                  *)

ConnectedTo(g) ==
    {c \in Closures : closure[c] # Null /\ closure[c].gobject = g /\ closure[c].connected}

\* The GValues of the parameters take their references.
ValuesReferenced(gs) ==
    [g \in GObjs |-> IF g \in Elements(gs)
                       THEN [gobject[g] EXCEPT !.refs = @ + Count(g, gs)]
                       ELSE gobject[g]]

\* References to g of the GValues that exist.
ValuesOf(g) ==
    Cardinality(UNION {{<<i, j>> : j \in {k \in DOMAIN stack[i].values : stack[i].values[k] = g}} :
                        i \in FrameAt({"emit", "unset"})})
      + Cardinality({i \in FrameAt({"emit"}) : stack[i].ret /\ Head(stack[i].values) = g})

Emissions == Cardinality(FrameAt({"emit"}))

\* emit with an object as its parameter, or none.  The parameters after one that
\* cannot be converted are not; the GValues before it are freed without being unset.
Emit(z, p) ==
    LET g == wrapper[zval[z]].gobject
        g2 == IF p = Null THEN Null ELSE wrapper[zval[p]].gobject
        values == IF p = Null THEN <<g>> ELSE <<g, g2>>
    IN  /\ ScriptRuns /\ Usable(z)
        /\ p # Null => Usable(p)
        /\ Emissions < MaxEmissions
        /\ \/ /\ g = Null
              /\ Crash("no_gobject")
           \/ /\ g # Null /\ p # Null /\ g2 = Null
              /\ gobject[g].lost < MaxLost
              /\ gobject' = [gobject EXCEPT ![g].refs = @ + 1, ![g].lost = @ + 1]
              /\ UNCHANGED <<phase, fault, request, zval, refcount, names, wrapper,
                             closure, stack>>
           \/ /\ g # Null /\ (p # Null => g2 # Null)
              /\ gobject' = ValuesReferenced(values)
              /\ refcount' = [refcount EXCEPT ![z] = @ + 1]
              /\ stack' = <<EmitFrame(z, values, ConnectedTo(g))>> \o stack
              /\ UNCHANGED <<phase, fault, request, zval, names, wrapper, closure>>

\* C code that the script calls emits a signal of g with an object of its own.
NativeEmit(g, g2) ==
    /\ ScriptRuns
    /\ gobject[g] # Null /\ gobject[g2] # Null
    /\ gobject[g2].native
    /\ ConnectedTo(g) # {}
    /\ Emissions < MaxEmissions
    /\ gobject' = ValuesReferenced(<<g, g2>>)
    /\ stack' = <<EmitFrame(Null, <<g, g2>>, ConnectedTo(g))>> \o stack
    /\ UNCHANGED <<phase, fault, request, zval, refcount, names, wrapper, closure>>

\* php_gobject_closure_marshal of the next handler.
Marshal(c) ==
    /\ TopIs({"emit"})
    /\ c \in Top.todo \cap ConnectedTo(Head(Top.values))
    /\ stack' = <<MarshalFrame(c, Top.values, <<>>), [Top EXCEPT !.todo = @ \ {c}]>> \o Below
    /\ UNCHANGED <<phase, fault, request, zval, refcount, names, wrapper, gobject, closure>>

\* Mutant: the new wrapper borrows the reference of the GValue.
WrapBorrowed(g) == gobject

\* g_object_ref for a new wrapper of g; "gobject-for-php" stays as it is.
WrapReferenced(g) == [gobject EXCEPT ![g].refs = @ + 1]

\* Mutant: the container under "gobject-for-php" is passed without a reference.
SelfBorrowed(z) == refcount

\* zval_add_ref(&param_zvalue)
SelfReferenced(z) == [refcount EXCEPT ![z] = @ + 1]

\* The next parameter: the container under "gobject-for-php", or a new one of a
\* new wrapper.
MarshalValue ==
    LET g == Head(Top.values)
        self == gobject[g].data
        Pass(z) ==
            stack' = <<[Top EXCEPT !.values = Tail(@), !.args = Append(@, z)]>> \o Below
    IN  /\ TopIs({"marshal"})
        /\ Top.values # <<>>
        /\ \/ /\ self # Null /\ zval[self] = Null
              /\ Crash("stale_zval")
           \/ /\ self # Null /\ zval[self] # Null
              /\ refcount' = SelfReferenced(self)
              /\ Pass(self)
              /\ UNCHANGED <<phase, fault, request, zval, names, wrapper, gobject, closure>>
           \/ /\ self = Null
              /\ \E w \in Wrappers, z \in Zvals :
                    /\ FreshWrapper(w) /\ FreshZval(z)
                    /\ wrapper' = [wrapper EXCEPT ![w] = NewWrapper(g)]
                    /\ zval' = [zval EXCEPT ![z] = w]
                    /\ refcount' = [refcount EXCEPT ![z] = 1]
                    /\ Pass(z)
              /\ gobject' = WrapReferenced(g)
              /\ UNCHANGED <<phase, fault, request, names, closure>>

\* zend_call_function_with_additional_params: PHP holds the arguments of the call.
Call ==
    LET p == closure[Top.closure].param
        args == IF p = Null THEN Top.args ELSE Append(Top.args, p)
    IN  /\ TopIs({"marshal"})
        /\ Top.values = <<>>
        /\ refcount' = IF p = Null THEN refcount ELSE [refcount EXCEPT ![p] = @ + 1]
        /\ stack' = <<HandlerFrame(Top.closure, args)>> \o Below
        /\ UNCHANGED <<phase, fault, request, zval, names, wrapper, gobject, closure>>

\* The callback returns: the emitter, in the GValue of an object, or something else.
HandlerReturn(ret) ==
    LET emit == stack[2]
        g == Head(emit.values)
    IN  /\ phase = "active" /\ TopIs({"handler"})
        /\ ret => ~emit.ret /\ gobject[g].lost < MaxLost
        /\ stack' = <<ReleaseFrame(Top.closure, Top.args), [emit EXCEPT !.ret = @ \/ ret]>>
                      \o Tail(Below)
        /\ gobject' = IF ret THEN [gobject EXCEPT ![g].refs = @ + 1] ELSE gobject
        /\ UNCHANGED <<phase, fault, request, zval, refcount, names, wrapper, closure>>

\* The end of the marshaller, or of emit(): the next argument, and then the
\* handler if it was disconnected meanwhile.
ReleaseArgument ==
    /\ TopIs({"release"})
    /\ IF Top.args # <<>>
         THEN /\ ZvalPtrDtor(Head(Top.args),
                             <<[Top EXCEPT !.args = Tail(@)]>> \o Below)
              /\ UNCHANGED <<phase, fault, request, names, wrapper, gobject, closure>>
         ELSE LET c == Top.closure
              IN  IF /\ c # Null /\ c \notin RunningIn(Below)
                     /\ closure[c] # Null /\ ~closure[c].connected
                    THEN Invalidate(c, Below)
                    ELSE /\ stack' = Below
                         /\ UNCHANGED <<phase, fault, request, zval, refcount, names,
                                        wrapper, gobject, closure>>

\* After the last handler emit() gives the returned object a wrapper of its own,
\* whether it has one or not, and frees the GValue without unsetting it.
EmitReturn ==
    LET g == Head(Top.values)
    IN  /\ TopIs({"emit"}) /\ Top.ret /\ Top.this # Null
        /\ Top.todo \cap ConnectedTo(g) = {}
        /\ \E w \in Wrappers, z \in Zvals :
                /\ FreshWrapper(w) /\ FreshZval(z)
                /\ wrapper' = [wrapper EXCEPT ![w] = NewWrapper(g)]
                /\ zval' = [zval EXCEPT ![z] = w]
                /\ refcount' = [refcount EXCEPT ![z] = 1]
                /\ names' = [names EXCEPT ![z] = 1]
        /\ gobject' = [WrapReferenced(g) EXCEPT ![g].lost = @ + 1]
        /\ stack' = <<[Top EXCEPT !.ret = FALSE]>> \o Below
        /\ UNCHANGED <<phase, fault, request, closure>>

\* No handler is left: the GValues are unset.
EmitEnd ==
    LET g == Head(Top.values)
        gs == IF Top.ret THEN Append(Top.values, g) ELSE Top.values
    IN  /\ TopIs({"emit"})
        /\ Top.ret => Top.this = Null
        /\ Top.todo \cap ConnectedTo(g) = {}
        /\ stack' = <<UnsetFrame(Top.this, gs)>> \o Below
        /\ UNCHANGED <<phase, fault, request, zval, refcount, names, wrapper, gobject, closure>>

\* g_value_unset of the next one; emit() returns after the last.
UnsetValue ==
    LET g == Head(Top.values)
        this == IF Top.this = Null THEN <<>> ELSE <<Top.this>>
    IN  /\ TopIs({"unset"})
        /\ IF Top.values # <<>>
             THEN /\ gobject' = [gobject EXCEPT ![g].refs = @ - 1]
                  /\ stack' = AfterUnref(g, <<[Top EXCEPT !.values = Tail(@)]>> \o Below)
             ELSE /\ stack' = <<ReleaseFrame(Null, this)>> \o Below
                  /\ UNCHANGED gobject
        /\ UNCHANGED <<phase, fault, request, zval, refcount, names, wrapper, closure>>

Emission ==
    /\ phase = "active"
    /\ \/ \E c \in Closures : Marshal(c)
       \/ MarshalValue
       \/ Call
       \/ EmitReturn
       \/ EmitEnd

-----------------------------------------------------------------------------
(* gobject_gobject_free_storage                                             *)

\* g_object_set_data(intern->gobject, "gobject-for-php", NULL), whoever set it.
DataCleared(g) == [gobject EXCEPT ![g].data = Null]

\* Mutant: an object that was not constructed is left alone.
ClosuresOfConstructed(w) == IF wrapper[w].gobject = Null THEN <<>> ELSE <<ListFrame(w)>>

\* The loop over the closures comes next, with a GObject or without.
ClosuresNext(w) == <<ListFrame(w)>>

FreeGObject ==
    LET w == Top.zobject
        g == wrapper[w].gobject
        frames == ClosuresNext(w) \o Below
    IN  /\ TopIs({"unref"})
        /\ IF g = Null
             THEN stack' = frames /\ UNCHANGED gobject
             ELSE /\ gobject' = [DataCleared(g) EXCEPT ![g].refs = @ - 1]
                  /\ stack' = AfterUnref(g, frames)
        /\ UNCHANGED <<phase, fault, request, zval, refcount, names, wrapper, closure>>

\* The element after c in the list of w.
NextElement(w, c) ==
    LET list == wrapper[w].closures
        i == Position(list, c)
    IN  IF i < Len(list) THEN list[i + 1] ELSE Null

\* Mutant: the closures are left to whoever drops the GObject.
FreeAtOnce(list) == Null

\* tmp = intern->closures
FirstElement(list) == IF list = <<>> THEN Null ELSE Head(list)

\* One turn of the loop over intern->closures.  tmp = tmp->next is read before
\* the closure is invalidated, which runs whatever its parameters bring about.
FreeClosure ==
    LET w == Top.zobject
        list == wrapper[w].closures
        tmp == IF Is(Top, {"list"}) THEN FirstElement(list) ELSE Top.tmp
    IN  /\ TopIs({"list", "loop"})
        /\ \/ /\ tmp = Null
              /\ wrapper' = [wrapper EXCEPT ![w] = Null]
              /\ stack' = Below
              /\ UNCHANGED <<phase, fault, request, zval, refcount, names, gobject, closure>>
           \/ /\ tmp # Null /\ tmp \notin Elements(list)
              /\ Crash("stale_element")
           \/ /\ tmp # Null /\ tmp \in Elements(list)
              /\ Invalidate(tmp, <<LoopFrame(w, NextElement(w, tmp))>> \o Below)

\* Mutant: the disposal of a GObject leaves its handlers.
ClosuresNotWatched(g) == {}

\* The closures that g_closure_new_object had g watch.
WatchedBy(g) == {c \in Closures : closure[c] # Null /\ closure[c].gobject = g}

\* The last g_object_unref: handlers and watched closures go first.
Finalize ==
    LET g == Top.gobject
    IN  /\ TopIs({"finalize"})
        /\ \/ \E c \in WatchedBy(g) : Invalidate(c, stack)
           \/ /\ WatchedBy(g) = {}
              /\ gobject' = [gobject EXCEPT ![g] = Null]
              /\ stack' = Below
              /\ UNCHANGED <<phase, fault, request, zval, refcount, names, wrapper, closure>>

\* The code that runs by itself, once it was called.
Unwind ==
    /\ phase \in {"active", "shutdown"}
    /\ \/ ReleaseArgument \/ UnsetValue
       \/ FreeGObject \/ FreeClosure \/ Finalize

-----------------------------------------------------------------------------
(* The end of the request                                                   *)

\* The script ends, or exits in a callback: PHP leaves the calls in progress by
\* longjmp, and GLib's GValues are not unset.
Exit ==
    /\ ScriptRuns \/ (phase = "active" /\ TopIs({"emit", "marshal"}))
    /\ phase' = "shutdown"
    /\ stack' = <<>>
    /\ gobject' = [g \in GObjs |-> IF gobject[g] = Null THEN Null
                                     ELSE [gobject[g] EXCEPT !.lost = @ + ValuesOf(g)]]
    /\ UNCHANGED <<fault, request, zval, refcount, names, wrapper, closure>>

\* zend_objects_store_free_object_storage: whatever still refers to the wrapper.
Sweep(w) ==
    /\ phase = "shutdown" /\ stack = <<>>
    /\ wrapper[w] # Null
    /\ stack' = <<UnrefFrame(w)>>
    /\ UNCHANGED <<phase, fault, request, zval, refcount, names, wrapper, gobject, closure>>

\* The memory of the request is given back.
RequestEnd ==
    /\ phase = "shutdown" /\ stack = <<>>
    /\ \A w \in Wrappers : wrapper[w] = Null
    /\ phase' = "idle"
    /\ zval' = [z \in Zvals |-> Null]
    /\ refcount' = [z \in Zvals |-> 0]
    /\ names' = [z \in Zvals |-> 0]
    /\ UNCHANGED <<fault, request, wrapper, gobject, closure, stack>>

\* The process has served its requests, or died.
Halted ==
    /\ phase = "crashed" \/ (phase = "idle" /\ request = MaxRequests)
    /\ UNCHANGED vars

Next ==
    \/ Begin
    \/ \E w \in Wrappers, z \in Zvals : New(w, z)
    \/ \E z \in Zvals, g \in GObjs : Construct(z, g)
    \/ \E z \in Zvals : AddVar(z) \/ DropVar(z)
    \/ \E z, z2 \in Zvals : Separate(z, z2)
    \/ \E z \in Zvals, c \in Closures, p \in Zvals \cup {Null} : SignalConnect(z, c, p)
    \/ \E z \in Zvals, c \in Closures : SignalDisconnect(z, c)
    \/ \E z \in Zvals, p \in Zvals \cup {Null} : Emit(z, p)
    \/ \E g \in GObjs : NativeNew(g) \/ NativeUnref(g)
    \/ \E z \in Zvals : NativeRef(z)
    \/ \E g, g2 \in GObjs : NativeEmit(g, g2)
    \/ \E ret \in BOOLEAN : HandlerReturn(ret)
    \/ Emission
    \/ Unwind
    \/ Exit
    \/ \E w \in Wrappers : Sweep(w)
    \/ RequestEnd
    \/ Halted

Spec == Init /\ [][Next]_vars

\* What was called goes on; a request that ends is shut down.
Fairness == WF_vars(Unwind) /\ WF_vars(\E w \in Wrappers : Sweep(w)) /\ WF_vars(RequestEnd)

FairSpec == Spec /\ Fairness

-----------------------------------------------------------------------------
(* Properties                                                               *)

\* Arguments and $this among the frames.
HeldByFrames(z) ==
    Cardinality({i \in FrameAt({"emit", "unset"}) : stack[i].this = z})
      + Cardinality(UNION {{<<i, j>> : j \in {k \in DOMAIN stack[i].args : stack[i].args[k] = z}} :
                            i \in FrameAt({"marshal", "handler", "release"})})

\* Wrappers that own a reference to g: free_storage has not come to it.
Owners(g) ==
    {w \in Wrappers : /\ wrapper[w] # Null /\ wrapper[w].gobject = g
                      /\ \A i \in FrameAt({"list", "loop"}) : stack[i].zobject # w}

\* A container has one reference for every variable, argument and closure that uses it,
\* in every state of nested emissions and destructions, and is free without one.
ZvalRefcountsExact ==
    phase = "active" => \A z \in Zvals :
        /\ refcount[z] = names[z] + HeldByFrames(z)
                           + Cardinality({c \in Closures : closure[c] # Null
                                                        /\ closure[c].param = z})
        /\ zval[z] = Null <=> refcount[z] = 0

\* A GObject has one reference for every wrapper, GValue and native owner; what
\* counts besides were references that emit() or a second constructor forgot.
\* It is not finalized under one of its owners.
GObjectRefsExact ==
    \A g \in GObjs :
        IF gobject[g] = Null
          THEN Owners(g) = {}
          ELSE gobject[g].refs = Cardinality(Owners(g)) + gobject[g].lost
                                   + (IF gobject[g].native THEN 1 ELSE 0) + ValuesOf(g)

\* The list of a wrapper is exactly the closures whose invalidation will write to
\* it: a wrapper never dies before a closure that refers to it, a closure is
\* never listed after it died.
ClosureListsExact ==
    /\ \A c \in Closures : closure[c] # Null => wrapper[closure[c].zobject] # Null
    /\ \A w \in Wrappers : wrapper[w] # Null =>
        LET list == wrapper[w].closures
        IN  /\ Elements(list) = {c \in Closures : closure[c] # Null /\ closure[c].zobject = w}
            /\ Cardinality(Elements(list)) = Len(list)

\* A handler never outlives the GObject it was connected to.
ClosuresWatched ==
    \A c \in Closures : closure[c] # Null => gobject[closure[c].gobject] # Null

\* However they are nested, the destructions of the end of a request come to an end.
ShutdownEnds == phase = "shutdown" ~> phase \in {"idle", "crashed"}

\* Wrappers and closures are resources of the request, whatever native code keeps.
ObjectScope == INSTANCE RequestScope WITH
    Resource <- Wrappers \cup Closures,
    open     <- phase \in {"active", "shutdown"},
    held     <- IF phase = "crashed" THEN {}
                  ELSE {w \in Wrappers : wrapper[w] # Null}
                         \cup {c \in Closures : closure[c] # Null}

ImplementsRequestScope == ObjectScope!Spec

\* spl_object_hash($self) === spl_object_hash($obj2): what a callback gets for the
\* emitter is a container, and not memory that PHP has freed.
CallbackGetsContainer == fault # "stale_zval"

\* The comment in free_storage: the saved pointer makes up for the removal of the
\* closure from the list.
SavedElementIsListed == fault # "stale_element"
=============================================================================
