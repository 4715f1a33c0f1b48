-------------------------- MODULE SignalCallbacks --------------------------
(* Who holds the callbacks of a GObject\Signal: the variables of the script,  *)
(* the Signal with its class closure and its accumulator, copies of it, and   *)
(* the GLib closures that Type::generate makes (gobject_signal_class.c:80-109, *)
(* 192-305; gobject_closure.c:58-78, 224-251).  A callback is a zval that      *)
(* counts references.  TypeRegistry has the tables that keep Signals.          *)
EXTENDS Integers, FiniteSets

CONSTANTS
    Callbacks,  \* closures of the script
    Signals,    \* Signal objects
    None,       \* no callback, no Signal
    MaxRefs     \* bound of the references to one callback

VARIABLES
    phase,       \* "running", or "dead" of a memory error
    refs,        \* references each callback counts; 0 when it is freed
    held,        \* callbacks that a variable has
    signal,      \* Signals: None, or the callbacks and whether it is registered
    closures,    \* how many class closures of GLib have each callback
    cloned,      \* callbacks of Signals that were cloned
    overwritten  \* callbacks of Signals that were constructed once more

vars == <<phase, refs, held, signal, closures, cloned, overwritten>>

SignalObject ==
    [class_closure : Callbacks \cup {None}, accumulator : Callbacks \cup {None},
     param_types : BOOLEAN, registered : BOOLEAN]

ASSUME CallbacksAssumption ==
    /\ IsFiniteSet(Callbacks) /\ IsFiniteSet(Signals)
    /\ None \notin Callbacks /\ None \notin SignalObject /\ MaxRefs \in Nat

Exists(s) == signal[s] # None
Of(s) == {signal[s].class_closure, signal[s].accumulator} \ {None}

\* How often a Signal with class closure c and accumulator a has callback b.
Count(b, c, a) == (IF b = c THEN 1 ELSE 0) + (IF b = a THEN 1 ELSE 0)
Has(b, s) == Count(b, signal[s].class_closure, signal[s].accumulator)

\* Mutant: the destructor forgets the accumulator.
FreedClosure(b, s) == IF b = signal[s].class_closure THEN 1 ELSE 0

\* References that gobject_signal_free_storage gives back.
Freed(b, s) == Has(b, s)

\* Mutant: the constructor takes one reference for both.
TakenOnce(b, c, a) == IF b \in {c, a} THEN 1 ELSE 0

\* References that __construct takes.
Taken(b, c, a) == Count(b, c, a)

\* Pairs of a Signal and a place in it that has b.
Places(b) ==
    {p \in Signals \X {"class_closure", "accumulator"} :
        Exists(p[1]) /\ signal[p[1]][p[2]] = b}

Holders(b) == (IF b \in held THEN 1 ELSE 0) + Cardinality(Places(b)) + closures[b]

-----------------------------------------------------------------------------

Init ==
    /\ phase = "running"
    /\ refs = [b \in Callbacks |-> 0] /\ held = {}
    /\ signal = [s \in Signals |-> None]
    /\ closures = [b \in Callbacks |-> 0]
    /\ cloned = {} /\ overwritten = {}

\* The end of the request, or of the process: nothing is left of either.
Cleared ==
    /\ refs' = [b \in Callbacks |-> 0] /\ held' = {}
    /\ signal' = [s \in Signals |-> None]
    /\ closures' = [b \in Callbacks |-> 0]
    /\ cloned' = {} /\ overwritten' = {}

Die == phase' = "dead" /\ Cleared

\* zval_ptr_dtor n[b] times; a callback that is freed is not there to be freed.
TooMany(n) == \E b \in Callbacks : n[b] > refs[b]
Released(n) == [b \in Callbacks |-> refs[b] - n[b]]

NewCallback(b) ==
    /\ phase = "running" /\ refs[b] = 0 /\ Holders(b) = 0
    /\ refs' = [refs EXCEPT ![b] = 1] /\ held' = held \cup {b}
    /\ cloned' = cloned \ {b} /\ overwritten' = overwritten \ {b}
    /\ UNCHANGED <<phase, signal, closures>>

\* unset() of the variable
DropCallback(b) ==
    /\ phase = "running" /\ b \in held
    /\ \/ /\ refs[b] > 0
          /\ refs' = [refs EXCEPT ![b] = @ - 1] /\ held' = held \ {b}
          /\ UNCHANGED <<phase, signal, closures, cloned, overwritten>>
       \/ refs[b] = 0 /\ Die

\* gobject_signal_object_new
NewSignal(s) ==
    /\ phase = "running" /\ ~Exists(s)
    /\ signal' = [signal EXCEPT ![s] =
          [class_closure |-> None, accumulator |-> None,
           param_types |-> FALSE, registered |-> FALSE]]
    /\ UNCHANGED <<phase, refs, held, closures, cloned, overwritten>>

\* Signal::__construct, which a script may call more than once: what was there
\* is overwritten and not given back.
Construct(s, c, a, types) ==
    /\ phase = "running" /\ Exists(s)
    /\ \A b \in {c, a} \ {None} : refs[b] > 0 /\ refs[b] + 2 <= MaxRefs
    /\ refs' = [b \in Callbacks |-> refs[b] + Taken(b, c, a)]
    /\ signal' = [signal EXCEPT ![s] =
          [signal[s] EXCEPT !.class_closure = c, !.accumulator = a,
                            !.param_types = @ \/ types]]
    /\ overwritten' = overwritten \cup Of(s)
    /\ UNCHANGED <<phase, held, closures, cloned>>

\* php_gobject_signal_clone copies the callbacks as they are, and counts a
\* reference to parameters that may not be there.
Clone(s, copy) ==
    /\ phase = "running" /\ Exists(s) /\ ~Exists(copy)
    /\ \/ /\ signal[s].param_types
          /\ signal' = [signal EXCEPT ![copy] = [signal[s] EXCEPT !.registered = FALSE]]
          /\ cloned' = cloned \cup Of(s)
          /\ UNCHANGED <<phase, refs, held, closures, overwritten>>
       \/ ~signal[s].param_types /\ Die

\* The script drops a Signal; one that is registered is in signals_hash.
DropSignal(s) ==
    /\ phase = "running" /\ Exists(s) /\ ~signal[s].registered
    /\ LET n == [b \in Callbacks |-> Freed(b, s)]
       IN \/ /\ ~TooMany(n)
             /\ refs' = Released(n) /\ signal' = [signal EXCEPT ![s] = None]
             /\ UNCHANGED <<phase, held, closures, cloned, overwritten>>
          \/ TooMany(n) /\ Die

\* Type::generate makes a closure of GLib of the class closure.
Register(s) ==
    /\ phase = "running" /\ Exists(s) /\ ~signal[s].registered
    /\ LET c == signal[s].class_closure
       IN \/ /\ c # None => refs[c] > 0 /\ refs[c] < MaxRefs
             /\ refs' = [b \in Callbacks |-> refs[b] + (IF b = c THEN 1 ELSE 0)]
             /\ closures' = [b \in Callbacks |-> closures[b] + (IF b = c THEN 1 ELSE 0)]
             /\ signal' = [signal EXCEPT ![s].registered = TRUE]
             /\ UNCHANGED <<phase, held, cloned, overwritten>>
          \/ (c # None /\ refs[c] = 0) /\ Die

\* An emission calls the accumulator of the Signal that signals_hash has.
Accumulate(s) ==
    /\ phase = "running" /\ Exists(s) /\ signal[s].registered
    /\ signal[s].accumulator # None /\ refs[signal[s].accumulator] = 0
    /\ Die

\* Class closures are invalidated, signals_hash is emptied, and what the script
\* still has is freed.
RequestEnd ==
    /\ phase = "running"
    /\ \/ (\A b \in Callbacks : Holders(b) <= refs[b]) /\ Cleared /\ UNCHANGED phase
       \/ (\E b \in Callbacks : Holders(b) > refs[b]) /\ Die

Halted == phase = "dead" /\ UNCHANGED vars

Next ==
    \/ \E b \in Callbacks : NewCallback(b) \/ DropCallback(b)
    \/ \E s \in Signals : NewSignal(s) \/ DropSignal(s) \/ Register(s) \/ Accumulate(s)
    \/ \E s \in Signals, c, a \in Callbacks \cup {None}, types \in BOOLEAN :
          Construct(s, c, a, types)
    \/ \E s, copy \in Signals : Clone(s, copy)
    \/ RequestEnd
    \/ Halted

Spec == Init /\ [][Next]_vars

-----------------------------------------------------------------------------
(* Properties *)

TypeOK ==
    /\ phase \in {"running", "dead"}
    /\ refs \in [Callbacks -> Nat] /\ held \subseteq Callbacks
    /\ signal \in [Signals -> SignalObject \cup {None}]
    /\ closures \in [Callbacks -> Nat]
    /\ cloned \subseteq Callbacks /\ overwritten \subseteq Callbacks

\* A callback lives for as long as a variable, a Signal or a class closure has
\* it, whatever the order they go in, as long as its Signals were not cloned.
HeldIsAlive ==
    \A b \in Callbacks \ cloned : Holders(b) <= refs[b]

\* And no longer, unless one of its Signals was constructed once more.
NothingIsKept ==
    \A b \in Callbacks \ overwritten : refs[b] <= Holders(b)
=============================================================================
