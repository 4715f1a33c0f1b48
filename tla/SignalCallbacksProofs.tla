----------------------- MODULE SignalCallbacksProofs -----------------------
(***************************************************************************)
(* Proofs about SignalCallbacks: the references that a callback counts are *)
(* those of its holders, for any number of callbacks, of Signals and of    *)
(* class closures, and for every bound.                                    *)
(***************************************************************************)
EXTENDS SignalCallbacks, FiniteSetTheorems, TLAPS

Inv == TypeOK /\ HeldIsAlive /\ NothingIsKept

-----------------------------------------------------------------------------
(* Counting *)

Slots == {"class_closure", "accumulator"}

\* The places of b in the Signals that f describes, those of them in Signals
\* other than s, and how many there are in s.
PlacesOf(f, b) == {p \in Signals \X Slots : f[p[1]] # None /\ f[p[1]][p[2]] = b}
Elsewhere(f, b, s) == {p \in PlacesOf(f, b) : p[1] # s}
Within(f, b, s) ==
    IF f[s] = None THEN 0 ELSE Count(b, f[s].class_closure, f[s].accumulator)

\* The places of a callback are few.
LEMMA PlacesFinite ==
    ASSUME NEW f, NEW b
    PROVE  IsFiniteSet(PlacesOf(f, b)) /\ Cardinality(PlacesOf(f, b)) \in Nat
<1>1. IsFiniteSet(Slots)
  <2>1. IsFiniteSet({} \cup {"class_closure"})
    BY FS_EmptySet, FS_AddElement
  <2>2. IsFiniteSet(({} \cup {"class_closure"}) \cup {"accumulator"})
    BY <2>1, FS_AddElement
  <2>3. Slots = ({} \cup {"class_closure"}) \cup {"accumulator"}
    BY DEF Slots
  <2> QED BY <2>2, <2>3
<1>2. IsFiniteSet(Signals \X Slots)
  BY <1>1, CallbacksAssumption, FS_Product
<1>3. PlacesOf(f, b) \subseteq Signals \X Slots
  BY DEF PlacesOf
<1> QED BY <1>2, <1>3, FS_Subset, FS_CardinalityType

\* A callback has the places of one Signal and those of the others.
LEMMA PlacesSplit ==
    ASSUME NEW f, NEW b, NEW s \in Signals
    PROVE  /\ Cardinality(Elsewhere(f, b, s)) \in Nat
           /\ Cardinality(PlacesOf(f, b)) = Cardinality(Elsewhere(f, b, s)) + Within(f, b, s)
<1> DEFINE P == PlacesOf(f, b)
           E == Elsewhere(f, b, s)
           x == <<s, "class_closure">>
           y == <<s, "accumulator">>
<1>1. IsFiniteSet(E) /\ Cardinality(E) \in Nat
  <2>1. E \subseteq P
    BY DEF Elsewhere
  <2> QED BY <2>1, PlacesFinite, FS_Subset, FS_CardinalityType
<1>2. x \notin E /\ y \notin E /\ x # y
  BY DEF Elsewhere
<1>3. /\ x \in P <=> f[s] # None /\ f[s].class_closure = b
      /\ y \in P <=> f[s] # None /\ f[s].accumulator = b
  BY DEF PlacesOf, Slots
<1>4. P = E \cup (P \cap {x, y})
  BY DEF PlacesOf, Elsewhere, Slots
<1>5. /\ Cardinality(E \cup {x}) = Cardinality(E) + 1
      /\ Cardinality(E \cup {y}) = Cardinality(E) + 1
      /\ Cardinality((E \cup {x}) \cup {y}) = Cardinality(E) + 2
  <2>1. /\ IsFiniteSet(E \cup {x}) /\ Cardinality(E \cup {x}) = Cardinality(E) + 1
        /\ Cardinality(E \cup {y}) = Cardinality(E) + 1
    BY <1>1, <1>2, FS_AddElement
  <2>2. y \notin E \cup {x}
    BY <1>2
  <2>3. Cardinality((E \cup {x}) \cup {y}) = Cardinality(E \cup {x}) + 1
    BY <2>1, <2>2, FS_AddElement
  <2> QED BY <1>1, <2>1, <2>3
<1> HIDE DEF P, E, x, y
<1>6. CASE x \in P /\ y \in P
  <2>1. P = (E \cup {x}) \cup {y}
    BY <1>4, <1>6
  <2>2. Within(f, b, s) = 2
    BY <1>3, <1>6 DEF Within, Count
  <2> QED BY <1>1, <1>5, <2>1, <2>2 DEF P, E
<1>7. CASE x \in P /\ y \notin P
  <2>1. P = E \cup {x}
    BY <1>4, <1>7
  <2>2. Within(f, b, s) = 1
    BY <1>3, <1>7 DEF Within, Count
  <2> QED BY <1>1, <1>5, <2>1, <2>2 DEF P, E
<1>8. CASE x \notin P /\ y \in P
  <2>1. P = E \cup {y}
    BY <1>4, <1>8
  <2>2. Within(f, b, s) = 1
    BY <1>3, <1>8 DEF Within, Count
  <2> QED BY <1>1, <1>5, <2>1, <2>2 DEF P, E
<1>9. CASE x \notin P /\ y \notin P
  <2>1. P = E
    BY <1>4, <1>9
  <2>2. Within(f, b, s) = 0
    BY <1>3, <1>9 DEF Within, Count
  <2> QED BY <1>1, <1>5, <2>1, <2>2 DEF P, E
<1> QED BY <1>6, <1>7, <1>8, <1>9

\* A change of one Signal changes the number of places by what it has.
LEMMA PlacesChange ==
    ASSUME NEW f, NEW g, NEW b, NEW s \in Signals,
           \A t \in Signals \ {s} : g[t] = f[t]
    PROVE  /\ Cardinality(PlacesOf(f, b)) \in Nat /\ Cardinality(PlacesOf(g, b)) \in Nat
           /\ Within(f, b, s) \in Nat /\ Within(g, b, s) \in Nat
           /\ Cardinality(PlacesOf(g, b)) + Within(f, b, s)
                 = Cardinality(PlacesOf(f, b)) + Within(g, b, s)
<1>1. Elsewhere(g, b, s) = Elsewhere(f, b, s)
  BY DEF Elsewhere, PlacesOf
<1>2. Within(f, b, s) \in Nat /\ Within(g, b, s) \in Nat
  BY DEF Within, Count
<1> QED BY <1>1, <1>2, PlacesFinite, PlacesSplit

\* What the holders of a callback come to.
LEMMA HoldersOf ==
    ASSUME NEW b
    PROVE  /\ Holders(b) = (IF b \in held THEN 1 ELSE 0)
                            + Cardinality(PlacesOf(signal, b)) + closures[b]
           /\ Holders(b)' = (IF b \in held' THEN 1 ELSE 0)
                             + Cardinality(PlacesOf(signal', b)) + closures'[b]
           /\ Cardinality(PlacesOf(signal, b)) \in Nat
           /\ Cardinality(PlacesOf(signal', b)) \in Nat
<1>1. Places(b) = PlacesOf(signal, b) /\ Places(b)' = PlacesOf(signal', b)
  BY DEF Places, PlacesOf, Exists, Slots
<1> QED BY <1>1, PlacesFinite DEF Holders

-----------------------------------------------------------------------------
(* The invariant *)

\* Nobody has anything when there is nothing.
LEMMA ClearedInv ==
    ASSUME Cleared, phase' \in {"running", "dead"} PROVE Inv'
<1>1. ASSUME NEW b \in Callbacks PROVE Holders(b)' = 0 /\ refs'[b] = 0
  <2>1. PlacesOf(signal', b) = {}
    BY DEF PlacesOf, Cleared
  <2>2. held' = {} /\ closures'[b] = 0 /\ refs'[b] = 0
    BY DEF Cleared
  <2>3. Cardinality(PlacesOf(signal', b)) = 0
    BY <2>1, FS_EmptySet
  <2>4. Holders(b)' = 0
    BY <2>2, <2>3, HoldersOf
  <2> QED BY <2>2, <2>4
<1>2. TypeOK'
  BY DEF Cleared, TypeOK
<1> QED BY <1>1, <1>2 DEF Inv, HeldIsAlive, NothingIsKept

\* At first nobody has anything.
LEMMA InitInv == Init => Inv
<1> SUFFICES ASSUME Init PROVE Inv
  OBVIOUS
<1>1. ASSUME NEW b \in Callbacks PROVE Holders(b) = 0 /\ refs[b] = 0
  <2>1. PlacesOf(signal, b) = {}
    BY DEF PlacesOf, Init
  <2>2. held = {} /\ closures[b] = 0 /\ refs[b] = 0
    BY DEF Init
  <2>3. Cardinality(PlacesOf(signal, b)) = 0
    BY <2>1, FS_EmptySet
  <2>4. Holders(b) = 0
    BY <2>2, <2>3, HoldersOf
  <2> QED BY <2>2, <2>4
<1>2. TypeOK
  BY DEF Init, TypeOK
<1> QED BY <1>1, <1>2 DEF Inv, HeldIsAlive, NothingIsKept

\* A Signal may have each callback once or twice, and a step gives back or
\* takes as many references.
LEMMA InvStep == Inv /\ [Next]_vars => Inv'
<1> SUFFICES ASSUME Inv, [Next]_vars PROVE Inv'
  OBVIOUS
<1> USE DEF Inv, HeldIsAlive, NothingIsKept
<1>1. ASSUME NEW b \in Callbacks, NewCallback(b) PROVE Inv'
  <2>1. TypeOK'
    BY <1>1 DEF NewCallback, TypeOK
  <2>2. ASSUME NEW d \in Callbacks \ {b} PROVE Holders(d)' = Holders(d) /\ refs'[d] = refs[d]
    BY <1>1, <2>2, HoldersOf DEF NewCallback, TypeOK
  <2>3. refs'[b] = 1 /\ Holders(b)' = 1
    BY <1>1, HoldersOf DEF NewCallback, TypeOK
  <2> QED BY <1>1, <2>1, <2>2, <2>3 DEF NewCallback
<1>2. ASSUME NEW b \in Callbacks, DropCallback(b) PROVE Inv'
  <2>1. CASE Die
    BY <2>1, ClearedInv DEF Die
  <2>2. CASE ~Die
    <3>1. TypeOK'
      BY <1>2, <2>2 DEF DropCallback, TypeOK
    <3>2. ASSUME NEW d \in Callbacks \ {b} PROVE Holders(d)' = Holders(d) /\ refs'[d] = refs[d]
      BY <1>2, <2>2, <3>2, HoldersOf DEF DropCallback, TypeOK
    <3>3. /\ refs[b] \in Nat /\ refs'[b] = refs[b] - 1
          /\ Holders(b) \in Nat /\ Holders(b)' = Holders(b) - 1
      BY <1>2, <2>2, HoldersOf DEF DropCallback, TypeOK
    <3>4. UNCHANGED <<cloned, overwritten>>
      BY <1>2, <2>2 DEF DropCallback
    <3> QED BY <3>1, <3>2, <3>3, <3>4
  <2> QED BY <2>1, <2>2
<1>3. ASSUME NEW s \in Signals, NewSignal(s) PROVE Inv'
  <2>1. TypeOK'
    BY <1>3 DEF NewSignal, TypeOK, SignalObject
  <2>2. ASSUME NEW d \in Callbacks PROVE Holders(d)' = Holders(d)
    <3>1. Within(signal, d, s) = 0 /\ Within(signal', d, s) = 0
      BY <1>3, CallbacksAssumption DEF Within, Count, NewSignal, Exists, TypeOK
    <3>2. \A t \in Signals \ {s} : signal'[t] = signal[t]
      BY <1>3 DEF NewSignal, TypeOK
    <3>3. Cardinality(PlacesOf(signal', d)) = Cardinality(PlacesOf(signal, d))
      BY <3>1, <3>2, PlacesChange
    <3> QED BY <1>3, <3>3, HoldersOf DEF NewSignal
  <2> QED BY <1>3, <2>1, <2>2 DEF NewSignal
<1>4. ASSUME NEW s \in Signals, NEW c \in Callbacks \cup {None}, NEW a \in Callbacks \cup {None},
             NEW types \in BOOLEAN, Construct(s, c, a, types)
      PROVE  Inv'
  <2> DEFINE r == [signal[s] EXCEPT !.class_closure = c, !.accumulator = a,
                                    !.param_types = @ \/ types]
  <2>a. signal' = [signal EXCEPT ![s] = r]
    BY <1>4, Zenon DEF Construct
  <2>b. /\ signal[s] # None
        /\ refs' = [b \in Callbacks |-> refs[b] + Count(b, c, a)]
        /\ overwritten' = overwritten \cup Of(s)
        /\ UNCHANGED <<phase, held, closures, cloned>>
    BY <1>4 DEF Construct, Exists, Taken
  <2> HIDE DEF r
  <2>1. /\ signal[s] # None
        /\ signal' = [signal EXCEPT ![s] = r]
        /\ refs' = [b \in Callbacks |-> refs[b] + Count(b, c, a)]
        /\ overwritten' = overwritten \cup Of(s)
        /\ UNCHANGED <<phase, held, closures, cloned>>
    BY <2>a, <2>b
  <2>0. r \in SignalObject /\ r.class_closure = c /\ r.accumulator = a
    <3>1. signal[s] \in SignalObject
      BY <2>1 DEF TypeOK
    <3>2. \A q \in BOOLEAN : (q \/ types) \in BOOLEAN
      OBVIOUS
    <3> QED BY <3>1, <3>2 DEF r, SignalObject
  <2>2. Of(s) \subseteq Callbacks
    BY <2>1 DEF Of, TypeOK, SignalObject
  <2>3. TypeOK'
    <3>1. signal' \in [Signals -> SignalObject \cup {None}]
      BY <2>0, <2>1 DEF TypeOK
    <3>2. \A b \in Callbacks : Count(b, c, a) \in Nat
      BY DEF Count
    <3> QED BY <2>1, <2>2, <3>1, <3>2 DEF TypeOK
  <2>4. ASSUME NEW b \in Callbacks
        PROVE  /\ Count(b, c, a) \in Nat /\ Within(signal, b, s) \in Nat
               /\ Holders(b)' + Within(signal, b, s) = Holders(b) + Count(b, c, a)
    <3>1. signal'[s].class_closure = c /\ signal'[s].accumulator = a /\ signal'[s] # None
      BY <2>0, <2>1, CallbacksAssumption DEF TypeOK, SignalObject
    <3>2. Within(signal', b, s) = Count(b, c, a)
      BY <3>1 DEF Within
    <3>3. \A t \in Signals \ {s} : signal'[t] = signal[t]
      BY <2>1 DEF TypeOK
    <3>4. /\ Count(b, c, a) \in Nat /\ Within(signal, b, s) \in Nat
          /\ Cardinality(PlacesOf(signal', b)) + Within(signal, b, s)
                = Cardinality(PlacesOf(signal, b)) + Count(b, c, a)
      BY <3>2, <3>3, PlacesChange
    <3>5. held' = held /\ closures'[b] = closures[b] /\ closures[b] \in Nat
      BY <2>1 DEF TypeOK
    <3> QED BY <3>4, <3>5, HoldersOf
  <2>5. ASSUME NEW b \in Callbacks, b \notin Of(s) PROVE Within(signal, b, s) = 0
    BY <2>1, <2>5, CallbacksAssumption DEF Within, Count, Of
  <2>6. ASSUME NEW b \in Callbacks
        PROVE  refs'[b] = refs[b] + Count(b, c, a) /\ refs[b] \in Nat /\ Holders(b) \in Nat
               /\ Holders(b)' \in Nat
    BY <2>1, <2>3, HoldersOf DEF TypeOK
  <2>7. HeldIsAlive'
    BY <2>1, <2>4, <2>6
  <2>8. NothingIsKept'
    BY <2>1, <2>4, <2>5, <2>6
  <2> QED BY <2>3, <2>7, <2>8
<1>5. ASSUME NEW s \in Signals, NEW copy \in Signals, Clone(s, copy) PROVE Inv'
  <2>1. CASE Die
    BY <2>1, ClearedInv DEF Die
  <2>2. CASE ~Die
    <3>1. /\ signal[s] # None /\ signal[copy] = None
          /\ signal' = [signal EXCEPT ![copy] = [signal[s] EXCEPT !.registered = FALSE]]
          /\ cloned' = cloned \cup Of(s)
          /\ UNCHANGED <<phase, refs, held, closures, overwritten>>
      BY <1>5, <2>2 DEF Clone, Exists
    <3>0. signal[s] \in SignalObject /\ [signal[s] EXCEPT !.registered = FALSE] \in SignalObject
      <4>1. signal[s] \in SignalObject
        BY <3>1 DEF TypeOK
      <4> QED BY <4>1 DEF SignalObject
    <3>2. TypeOK'
      BY <3>0, <3>1 DEF TypeOK, Of, SignalObject
    <3>3. ASSUME NEW b \in Callbacks
          PROVE  /\ Within(signal', b, copy) \in Nat
                 /\ Holders(b)' = Holders(b) + Within(signal', b, copy)
      <4>1. Within(signal, b, copy) = 0 /\ \A t \in Signals \ {copy} : signal'[t] = signal[t]
        BY <3>1 DEF Within, TypeOK
      <4>2. closures[b] \in Nat /\ closures'[b] = closures[b] /\ held' = held
        BY <3>1 DEF TypeOK
      <4>3. /\ Within(signal', b, copy) \in Nat
            /\ Cardinality(PlacesOf(signal', b))
                  = Cardinality(PlacesOf(signal, b)) + Within(signal', b, copy)
        BY <4>1, PlacesChange
      <4> QED BY <4>2, <4>3, HoldersOf
    <3>4. ASSUME NEW b \in Callbacks, b \notin Of(s) PROVE Within(signal', b, copy) = 0
      <4>1. /\ signal'[copy].class_closure = signal[s].class_closure
            /\ signal'[copy].accumulator = signal[s].accumulator
        BY <3>0, <3>1 DEF TypeOK, SignalObject
      <4> QED BY <3>4, <4>1, CallbacksAssumption DEF Within, Count, Of
    <3>5. \A b \in Callbacks : refs[b] \in Nat /\ Holders(b) \in Nat
      BY HoldersOf DEF TypeOK
    <3>6. HeldIsAlive'
      <4> SUFFICES ASSUME NEW b \in Callbacks \ cloned' PROVE Holders(b)' <= refs'[b]
        OBVIOUS
      <4>1. b \notin Of(s) /\ b \notin cloned
        BY <3>1
      <4>2. Holders(b)' = Holders(b)
        BY <3>3, <3>4, <3>5, <4>1
      <4>3. Holders(b) <= refs[b]
        BY <4>1
      <4> QED BY <3>1, <4>2, <4>3
    <3>7. NothingIsKept'
      BY <3>1, <3>3, <3>5
    <3> QED BY <3>2, <3>6, <3>7
  <2> QED BY <2>1, <2>2
<1>6. ASSUME NEW s \in Signals, DropSignal(s) PROVE Inv'
  <2>1. CASE Die
    BY <2>1, ClearedInv DEF Die
  <2>2. CASE ~Die
    <3>1. /\ signal[s] # None
          /\ \A b \in Callbacks : Has(b, s) <= refs[b]
          /\ refs' = [b \in Callbacks |-> refs[b] - Has(b, s)]
          /\ signal' = [signal EXCEPT ![s] = None]
          /\ UNCHANGED <<phase, held, closures, cloned, overwritten>>
      <4>1. \A b \in Callbacks : Has(b, s) \in Nat /\ refs[b] \in Nat
        BY DEF Has, Count, TypeOK
      <4> QED BY <1>6, <2>2, <4>1 DEF DropSignal, Exists, TooMany, Released, Freed
    <3>2. \A b \in Callbacks : /\ Has(b, s) \in Nat /\ refs[b] \in Nat
                               /\ refs'[b] = refs[b] - Has(b, s)
      BY <3>1 DEF Has, Count, TypeOK
    <3>3. TypeOK'
      BY <3>1, <3>2 DEF TypeOK
    <3>4. ASSUME NEW b \in Callbacks
          PROVE  Holders(b) \in Nat /\ Holders(b)' = Holders(b) - Has(b, s)
      <4>1. /\ Within(signal, b, s) = Has(b, s) /\ Within(signal', b, s) = 0
            /\ \A t \in Signals \ {s} : signal'[t] = signal[t]
        BY <3>1 DEF Within, Has, TypeOK
      <4>2. closures[b] \in Nat /\ closures'[b] = closures[b] /\ held' = held
        BY <3>1 DEF TypeOK
      <4>3. Cardinality(PlacesOf(signal', b)) = Cardinality(PlacesOf(signal, b)) - Has(b, s)
        BY <3>2, <4>1, PlacesChange
      <4> QED BY <3>2, <4>2, <4>3, HoldersOf
    <3> QED BY <3>1, <3>2, <3>3, <3>4
  <2> QED BY <2>1, <2>2
<1>7. ASSUME NEW s \in Signals, Register(s) PROVE Inv'
  <2>1. CASE Die
    BY <2>1, ClearedInv DEF Die
  <2>2. CASE ~Die
    <3> DEFINE c == signal[s].class_closure
               one(b) == IF b = c THEN 1 ELSE 0
    <3>1. /\ signal[s] # None
          /\ refs' = [b \in Callbacks |-> refs[b] + one(b)]
          /\ closures' = [b \in Callbacks |-> closures[b] + one(b)]
          /\ signal' = [signal EXCEPT ![s].registered = TRUE]
          /\ UNCHANGED <<phase, held, cloned, overwritten>>
      BY <1>7, <2>2 DEF Register, Exists
    <3>0. signal[s] \in SignalObject /\ [signal[s] EXCEPT !.registered = TRUE] \in SignalObject
      BY <3>1 DEF TypeOK, SignalObject
    <3>2. TypeOK'
      BY <3>0, <3>1 DEF TypeOK
    <3>3. ASSUME NEW b \in Callbacks
          PROVE  /\ Holders(b) \in Nat /\ Holders(b)' = Holders(b) + one(b)
                 /\ refs[b] \in Nat /\ refs'[b] = refs[b] + one(b)
      <4>1. /\ signal'[s] # None
            /\ signal'[s].class_closure = signal[s].class_closure
            /\ signal'[s].accumulator = signal[s].accumulator
        BY <3>0, <3>1, CallbacksAssumption DEF TypeOK, SignalObject
      <4>2. /\ Within(signal', b, s) = Within(signal, b, s)
            /\ \A t \in Signals \ {s} : signal'[t] = signal[t]
        BY <3>1, <4>1 DEF Within, TypeOK
      <4>3. Cardinality(PlacesOf(signal', b)) = Cardinality(PlacesOf(signal, b))
        BY <4>2, PlacesChange
      <4>4. /\ closures[b] \in Nat /\ closures'[b] = closures[b] + one(b) /\ held' = held
            /\ refs[b] \in Nat /\ refs'[b] = refs[b] + one(b)
        BY <3>1 DEF TypeOK
      <4> QED BY <4>3, <4>4, HoldersOf
    <3> QED BY <3>1, <3>2, <3>3
  <2> QED BY <2>1, <2>2
<1>8. ASSUME NEW s \in Signals, Accumulate(s) PROVE Inv'
  BY <1>8, ClearedInv DEF Accumulate, Die
<1>9. CASE RequestEnd
  BY <1>9, ClearedInv DEF RequestEnd, Die, TypeOK
<1>10. CASE UNCHANGED vars
  <2>1. \A b \in Callbacks : Holders(b)' = Holders(b)
    BY <1>10, HoldersOf DEF vars
  <2> QED BY <1>10, <2>1 DEF vars, TypeOK
<1> QED
  BY <1>1, <1>2, <1>3, <1>4, <1>5, <1>6, <1>7, <1>8, <1>9, <1>10 DEF Next, Halted

\* In every state the references and their holders are counted alike.
LEMMA InvHolds == Spec => []Inv
BY InitInv, InvStep, PTL DEF Spec

\* Every variable of SignalCallbacks has its type, whatever a script does with
\* its Signals.
THEOREM CallbacksTyped == Spec => []TypeOK
<1>1. Inv => TypeOK
  BY DEF Inv
<1> QED BY <1>1, InvHolds, PTL

\* No order in which variables, Signals and class closures let go of a callback
\* frees it under one of the others, unless a Signal of it was cloned.
THEOREM CallbacksOutliveHolders == Spec => []HeldIsAlive
<1>1. Inv => HeldIsAlive
  BY DEF Inv
<1> QED BY <1>1, InvHolds, PTL

\* The destructor gives back all that the constructor took: a callback whose
\* Signals were constructed once goes with the last of its holders.
THEOREM CallbacksGoWithHolders == Spec => []NothingIsKept
<1>1. Inv => NothingIsKept
  BY DEF Inv
<1> QED BY <1>1, InvHolds, PTL
=============================================================================
