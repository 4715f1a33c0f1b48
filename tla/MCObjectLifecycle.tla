------------------------- MODULE MCObjectLifecycle -------------------------
(* ObjectLifecycle on a few containers, wrappers, GObjects and closures, which *)
(* are interchangeable.                                                     *)
EXTENDS ObjectLifecycle, TLC

Symmetry == Permutations(Zvals) \cup Permutations(Wrappers)
              \cup Permutations(GObjs) \cup Permutations(Closures)
=============================================================================
