--------------------------- MODULE MCTypeRegistry ---------------------------
(* Small instances of TypeRegistry for TLC. *)
EXTENDS TypeRegistry, TLC

CONSTANTS GObject, GInitiallyUnowned, GEnum, notify

Natives == {GObject, GInitiallyUnowned, GEnum}

\* GInitiallyUnowned derives from GObject and is no larger; GEnum is no object.
MCNativeSupers ==
    [n \in Natives |-> IF n = GInitiallyUnowned THEN {n, GObject} ELSE {n}]

MCDerivable == {GObject, GInitiallyUnowned}

\* new Signal(0, array(), 'glong', $closure, $accu)
Full == [class_closure |-> TRUE, accumulator |-> TRUE, param_types |-> "known",
         return_type |-> "value", flags |-> "other"]
\* new Signal()
Bare == [class_closure |-> FALSE, accumulator |-> FALSE, param_types |-> "null",
         return_type |-> "none", flags |-> "other"]
\* new Signal(0, array('no such type'), null, $closure)
Refused == [class_closure |-> TRUE, accumulator |-> FALSE, param_types |-> "unknown",
            return_type |-> "none", flags |-> "other"]

AllArgs  == {Full, Bare, Refused}
FullOnly == {Full}
BareOnly == {Bare}
Returning == {Full, Bare}

Symmetry == Permutations(SigObjs) \cup Permutations(TypeObjs)
=============================================================================
