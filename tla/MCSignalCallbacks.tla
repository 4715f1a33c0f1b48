------------------------- MODULE MCSignalCallbacks -------------------------
(* Small instances of SignalCallbacks for TLC: an accumulator and a class     *)
(* closure, or one function for both, in two Signals or one and its clone.    *)
EXTENDS SignalCallbacks, TLC

Symmetry == Permutations(Callbacks) \cup Permutations(Signals)
=============================================================================
