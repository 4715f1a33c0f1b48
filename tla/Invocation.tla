----------------------------- MODULE Invocation -----------------------------
(* gobject_universal_method (gobject_girepository.c:34-169): a call of a C     *)
(* function that a typelib describes, with the conversion of its arguments    *)
(* (gobject_helpers.c:305-517).  PHP variables hold zvals by reference count; *)
(* a call has a reference of its own to each argument until it returns.       *)
EXTENDS Names, Conversion, FiniteSets

CONSTANTS
    Functions,  \* callables: owner, method, throws, params, text
    Vars,       \* variables of the script
    Cells,      \* zvals
    Values,     \* values a script may assign: type and value
    Number(_),  \* the number PHP reads at the start of a text
    None,       \* no zval, no function, and NULL
    Unset,      \* memory that nobody wrote
    Failed,     \* a conversion that fails
    MaxArgs     \* bound of the arguments of a call

VARIABLES
    phase,      \* "running", or "dead" of a memory error
    zval,       \* zvals: None, or a value and a count
    var,        \* the zval of each variable, or None
    converted,  \* zvals that lost a reference to a conversion
    call        \* the call that is in progress, or NoCall

invocationVars == <<phase, zval, var, converted, call>>
vars == <<types, namespaces, class, phase, zval, var, converted, call>>

NoCall == [f |-> None]

Integers == {"char", "uchar", "long"}
Tags == Integers \cup {"boolean", "utf8", "enum", "object", "other"}
Params(f) == DOMAIN f.params

\* zvals that exist: what they hold, and how many hold them
Zval == [value : Values \cup ({"long"} \X Int), refs : Nat \ {0}]

ASSUME InvocationAssumption ==
    /\ \A f \in Functions :
          /\ f.owner \in Infos /\ {f.method, f.throws, f.text} \subseteq BOOLEAN
          /\ f.params \in Seq([out : BOOLEAN, optional : BOOLEAN, tag : Tags])
    /\ \A z \in Values :
          /\ z[1] = "long" => z[2] \in Int
          /\ z[1] = "string" => Number(z[2]) \in Int
    /\ None \notin Cells \cup Zval \cup Functions /\ MaxArgs \in Nat /\ IsFiniteSet(Vars)

-----------------------------------------------------------------------------
(* Functions *)

\* Mutant: what goes out need not be given.
RequiredIn(f) == Cardinality({i \in Params(f) : ~f.params[i].optional /\ ~f.params[i].out})

\* Every parameter that is not optional counts, an OUT parameter too.
Required(f) == Cardinality({i \in Params(f) : ~f.params[i].optional})

\* libffi reads this many pointers; the loop sets one for each parameter.
NativeArguments(f) ==
    Len(f.params) + (IF f.method THEN 1 ELSE 0) + (IF f.throws THEN 1 ELSE 0)

\* A class has its methods while it is the class of its typelib.
Callable(f) ==
    IF f.method THEN class[Fold(Namespaced(f.owner))] = f.owner.gtype
    ELSE f.owner \in Loaded

-----------------------------------------------------------------------------
(* Zvals *)

Alive(c) == zval[c] # None
Unused(c) == ~Alive(c) /\ \A v \in Vars : var[v] # c
Idle == phase = "running" /\ call = NoCall

\* How often s has c.
Times(c, s) == Cardinality({i \in DOMAIN s : s[i] = c})

\* n(c) references to each zval c are given back; the last one frees it, and
\* to give back more of them than there are is a memory error.
Refs(c) == IF Alive(c) THEN zval[c].refs ELSE 0
TooMany(n) == \E c \in Cells : n[c] > Refs(c)
Released(n) ==
    [c \in Cells |-> IF n[c] = 0 THEN zval[c]
                     ELSE IF n[c] = zval[c].refs THEN None
                     ELSE [zval[c] EXCEPT !.refs = @ - n[c]]]

\* convert_to_long
AsLong(z) == CASE z[1] = "long" -> z[2] [] z[1] = "string" -> Number(z[2])
               [] z[1] = "bool" -> IF z[2] THEN 1 ELSE 0
               [] z[1] = "null" -> 0 [] OTHER -> 1

\* Mutant: the zval is separated whatever its type.
SeparatesAlways(c) == zval[c].refs > 1

\* Mutant: the references are not counted.
SeparatesAlone(c) == zval[c].value[1] # "long"

\* convert_to_long_ex on a pointer of the callee's: a zval that others hold is
\* copied for the callee, and the reference that it loses was the caller's.
Separates(c) == zval[c].value[1] # "long" /\ zval[c].refs > 1

-----------------------------------------------------------------------------
(* Conversion of one argument *)

\* Mutant: only parameters that go in take a slot.
SlotPacked(f, i) == Cardinality({j \in 1 .. i : ~f.params[j].out})
Slot(f, i) == i

\* What may become of the slot of a parameter, and Failed.  A long for an
\* enum, an object for an object and a text that is none leave it unset.
Converted(tag, z) ==
    CASE tag \in Integers -> {Cast(tag, AsLong(z))}
      [] tag = "boolean" -> {IF z[1] \in {"bool", "long"} THEN AsLong(z) ELSE Unset}
      [] tag = "utf8" -> {IF z[1] = "null" THEN None
                          ELSE IF z[1] = "string" THEN z[2] ELSE Unset}
      [] tag = "object" -> IF z[1] = "null" THEN {None}
                           ELSE IF z[1] = "object" THEN {Unset, Failed} ELSE {Failed}
      [] tag = "enum" -> {IF z[1] = "long" THEN Unset ELSE Failed}
      [] OTHER -> {Failed}

-----------------------------------------------------------------------------
(* The script *)

Init ==
    /\ NamesInit
    /\ phase = "running"
    /\ zval = [c \in Cells |-> None]
    /\ var = [v \in Vars |-> None]
    /\ converted = {} /\ call = NoCall

\* Classes come while no call is in progress.
Declare == Idle /\ NamesNext /\ UNCHANGED invocationVars

Die ==
    /\ phase' = "dead" /\ call' = NoCall /\ converted' = {}
    /\ zval' = [c \in Cells |-> None] /\ var' = [v \in Vars |-> None]

Assign(v, z) ==
    /\ Idle /\ var[v] = None
    /\ \E c \in Cells :
          /\ Unused(c)
          /\ zval' = [zval EXCEPT ![c] = [value |-> z, refs |-> 1]]
          /\ var' = [var EXCEPT ![v] = c]
          /\ converted' = converted \ {c}
    /\ UNCHANGED <<phase, call, namesVars>>

\* $v = $w
Share(v, w) ==
    /\ Idle /\ var[v] = None /\ var[w] # None
    /\ \/ /\ Alive(var[w])
          /\ zval' = [zval EXCEPT ![var[w]].refs = @ + 1]
          /\ var' = [var EXCEPT ![v] = var[w]]
          /\ UNCHANGED <<phase, converted, call>>
       \/ ~Alive(var[w]) /\ Die
    /\ UNCHANGED namesVars

\* unset($v)
Drop(v) ==
    /\ Idle /\ var[v] # None
    /\ LET n == [c \in Cells |-> IF c = var[v] THEN 1 ELSE 0]
       IN \/ /\ ~TooMany(n)
             /\ zval' = Released(n) /\ var' = [var EXCEPT ![v] = None]
             /\ UNCHANGED <<phase, converted, call>>
          \/ TooMany(n) /\ Die
    /\ UNCHANGED namesVars

-----------------------------------------------------------------------------
(* A call *)

\* The script calls f with the variables a; those of T are temporaries, which
\* the call is the only one to hold.  Too few arguments, and a typelib whose
\* library has no such function, are warnings: nothing has been converted.
Begin(f, a, T) ==
    /\ Idle /\ Callable(f)
    /\ \A i \in DOMAIN a : var[a[i]] # None
    /\ \A v \in T : /\ Times(v, a) = 1 /\ Refs(var[v]) = 1
                    /\ \A w \in Vars \ {v} : var[w] # var[v]
    /\ Len(a) >= Required(f)
    /\ \/ /\ \A i \in DOMAIN a : Alive(var[a[i]])
          /\ LET args == [i \in DOMAIN a |-> var[a[i]]]
                 own  == {var[v] : v \in T}
             IN /\ zval' = [c \in Cells |->
                      IF Times(c, args) = 0 \/ c \in own THEN zval[c]
                      ELSE [zval[c] EXCEPT !.refs = @ + Times(c, args)]]
                /\ call' = [f |-> f, args |-> args, at |-> 1,
                            given |-> [i \in DOMAIN a |-> zval[args[i]].value],
                            slot |-> [i \in Params(f) |-> Unset]]
          /\ var' = [v \in Vars |-> IF v \in T THEN None ELSE var[v]]
          /\ UNCHANGED <<phase, converted>>
       \/ (\E i \in DOMAIN a : ~Alive(var[a[i]])) /\ Die
    /\ UNCHANGED namesVars

\* PHP takes the arguments off its stack.
End ==
    LET n == [c \in Cells |-> Times(c, call.args)]
    IN \/ /\ ~TooMany(n)
          /\ zval' = Released(n) /\ call' = NoCall
          /\ UNCHANGED <<phase, var, converted>>
       \/ TooMany(n) /\ Die

Converting == phase = "running" /\ call # NoCall /\ call.at \in Params(call.f)
Param == call.f.params[call.at]

\* The copy that a conversion makes is not held by anyone.
ConvertedZval(c) ==
    IF Separates(c) THEN [zval EXCEPT ![c].refs = @ - 1]
    ELSE [zval EXCEPT ![c].value = <<"long", AsLong(@)>>]

Convert ==
    /\ Converting /\ (Param.out \/ call.at <= Len(call.args))
    /\ \/ /\ Param.out
          /\ call' = [call EXCEPT !.at = @ + 1]
          /\ UNCHANGED <<phase, zval, var, converted>>
       \/ /\ ~Param.out
          /\ LET c == call.args[call.at] IN
             \E r \in Converted(Param.tag, zval[c].value) :
             \/ /\ r # Failed
                /\ call' = [call EXCEPT !.at = @ + 1, !.slot[Slot(call.f, call.at)] = r]
                /\ zval' = IF Param.tag \in Integers THEN ConvertedZval(c) ELSE zval
                /\ converted' =
                      IF Param.tag \in Integers /\ zval[c].value[1] # "long" /\ zval[c].refs > 1
                      THEN converted \cup {c} ELSE converted
                /\ UNCHANGED <<phase, var>>
             \/ r = Failed /\ End
    /\ UNCHANGED namesVars

\* An argument is read behind the ones that were given.
ReadBeyond ==
    /\ Converting /\ ~Param.out /\ call.at > Len(call.args)
    /\ Die
    /\ UNCHANGED namesVars

\* The native function gets what it can use.
Sound ==
    /\ NativeArguments(call.f) = Len(call.f.params)
    /\ \A i \in Params(call.f) : ~call.f.params[i].out /\ call.slot[i] # Unset

\* ffi_call, the result, and the return to the script: a text may be NULL and
\* is copied all the same, nothing else is converted.
CallNative ==
    /\ phase = "running" /\ call # NoCall /\ call.at > Len(call.f.params)
    /\ \/ End
       \/ (~Sound \/ call.f.text) /\ Die
    /\ UNCHANGED namesVars

Halted == phase = "dead" /\ UNCHANGED vars

Next ==
    \/ Declare
    \/ \E v \in Vars : Drop(v) \/ (\E z \in Values : Assign(v, z)) \/ \E w \in Vars : Share(v, w)
    \/ \E f \in Functions : \E n \in 0 .. MaxArgs : \E a \in [1 .. n -> Vars] :
          \E T \in SUBSET {a[i] : i \in 1 .. n} : Begin(f, a, T)
    \/ Convert \/ ReadBeyond \/ CallNative
    \/ Halted

Spec == Init /\ [][Next]_vars

-----------------------------------------------------------------------------
(* Properties *)

\* Every variable has its type; a call converts parameters that it has with
\* zvals that are alive.
TypeOK ==
    /\ NamesTypeOK
    /\ phase \in {"running", "dead"}
    /\ var \in [Vars -> Cells \cup {None}]
    /\ converted \subseteq Cells
    /\ zval \in [Cells -> Zval \cup {None}]
    /\ call # NoCall =>
          /\ call.f \in Functions
          /\ call.at \in 1 .. Len(call.f.params) + 1
          /\ DOMAIN call.slot = Params(call.f)
          /\ \A i \in DOMAIN call.args : Alive(call.args[i])

\* The native function gets each number and text in the parameter it was given
\* for, unless a number does not fit into the width.
ArgumentsArrive ==
    call # NoCall /\ call.at > Len(call.f.params) =>
        \A i \in Params(call.f) :
            LET p == call.f.params[i]
                z == call.given[i]
            IN ~p.out =>
                /\ p.tag \in Integers /\ z[1] = "long" =>
                      call.slot[i] = Cast(p.tag, z[2]) /\ (z[2] \in Numbers(p.tag) => call.slot[i] = z[2])
                /\ p.tag = "utf8" /\ z[1] = "string" => call.slot[i] = z[2]

\* No argument is read that was not given, unless a parameter up to it is
\* optional: the count of the ones that are not does not say where they are.
ReadsWithin ==
    Converting /\ ~Param.out /\ call.at > Len(call.args)
        => \E j \in 1 .. call.at : call.f.params[j].optional

\* A call leaves the caller's variables as they are, except for those that it
\* took for a number and that were none: every zval has the references that
\* variables and the call have.
VariablesSurvive ==
    \A c \in Cells \ converted :
        LET holders == Cardinality({v \in Vars : var[v] = c})
                       + (IF call = NoCall THEN 0 ELSE Times(c, call.args))
        IN IF Alive(c) THEN zval[c].refs = holders ELSE holders = 0
=============================================================================
