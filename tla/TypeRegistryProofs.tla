-------------------------- MODULE TypeRegistryProofs --------------------------
(***************************************************************************)
(* Proofs about TypeRegistry, for every value of its constants.            *)
(***************************************************************************)
EXTENDS TypeRegistry, TLAPS

-----------------------------------------------------------------------------
(* The typing invariant is not inductive by itself: RegisterSignal writes   *)
(* the fields of an object that could be a null pointer.  It takes the      *)
(* facts that references lead to objects, and that the object a generate()  *)
(* works on is still there.                                                 *)

ReferencesLive ==
    /\ \A s \in sigvars : signal_object[s] # Null
    /\ \A t \in TypeObjs : \A k \in Keys :
            type_object[t] # Null /\ type_object[t].signals[k] # Null =>
                signal_object[type_object[t].signals[k]] # Null

GenerationLive ==
    generating # Null =>
        /\ phase = "active"
        /\ generating.name \in supers[generating.name]
        /\ type_object[generating.obj] # Null
        /\ \A k \in generating.todo : type_object[generating.obj].signals[k] # Null

Inv == TypeOK /\ ReferencesLive /\ GenerationLive

\* Dropping references leaves a well formed heap.
LEMMA ReleaseKeepsHeap ==
    ASSUME TypeOK,
           NEW sv \in SUBSET SigObjs,
           NEW objs \in [TypeObjs -> TypeObj \cup {Null}],
           NEW hash \in [Ids -> SigObjs \cup {Null}],
           \A s \in sv : signal_object[s] # Null,
           \A t \in TypeObjs : \A k \in Keys :
                objs[t] # Null /\ objs[t].signals[k] # Null =>
                    signal_object[objs[t].signals[k]] # Null,
           Release(sv, objs, hash)
    PROVE  /\ signals_hash' \in [Ids -> SigObjs \cup {Null}]
           /\ type_object' = objs
           /\ signal_object' \in [SigObjs -> Signal \cup {Null}]
           /\ sigvars' = sv
           /\ ReferencesLive'
<1> DEFINE freed == {s \in SigObjs : signal_object[s] # Null} \ Referenced(sv, objs, hash)
           gone  == {id \in Ids : \E s \in freed : signal_object[s].signal_id = id}
<1>1. /\ sigvars' = sv
      /\ type_object' = objs
      /\ signal_object' = [s \in SigObjs |-> IF s \in freed THEN Null ELSE signal_object[s]]
      /\ signals_hash' = [id \in Ids |-> IF id \in gone THEN Null ELSE hash[id]]
  BY DEF Release
<1>2. signals_hash' \in [Ids -> SigObjs \cup {Null}]
  <2> HIDE DEF gone
  <2> QED BY <1>1
<1>3. signal_object' \in [SigObjs -> Signal \cup {Null}]
  <2> HIDE DEF freed
  <2> QED BY <1>1 DEF TypeOK
<1>4. \A s \in sv : s \notin freed
  BY DEF Referenced
<1>5. ASSUME NEW t \in TypeObjs, NEW k \in Keys, objs[t] # Null,
             objs[t].signals[k] # Null
      PROVE  objs[t].signals[k] \in SigObjs \ freed
  <2>1. objs[t] \in TypeObj
    BY <1>5
  <2>2. objs[t].signals[k] \in SigObjs
    BY <1>5, <2>1 DEF TypeObj
  <2>3. objs[t].signals[k] \in Referenced(sv, objs, hash)
    BY <1>5, <2>2 DEF Referenced
  <2> QED BY <2>2, <2>3
<1>6. ReferencesLive'
  <2> HIDE DEF freed
  <2>1. \A s \in sigvars' : signal_object'[s] # Null
    BY <1>1, <1>4
  <2>2. ASSUME NEW t \in TypeObjs, NEW k \in Keys, type_object'[t] # Null,
               type_object'[t].signals[k] # Null
        PROVE  signal_object'[type_object'[t].signals[k]] # Null
    BY <1>1, <1>5, <2>2
  <2> QED BY <2>1, <2>2 DEF ReferencesLive
<1> QED BY <1>1, <1>2, <1>3, <1>6

-----------------------------------------------------------------------------
\* The tuples that UNCHANGED speaks of.
USE DEF processVars, tableVars, objectVars

\* PHP_MINIT_FUNCTION leaves a well formed registry.
LEMMA InvInit == Init => Inv
BY ConstantsAssumption
DEF Init, Inv, TypeOK, ReferencesLive, GenerationLive, EmptyHash, Outcomes, Types

\* What a crash, the end of a request and its start leave behind.
LEMMA InvBoundary ==
    ASSUME Inv,
           \/ RInit \/ RShutdown \/ ShutdownExecutor
           \/ \E id \in Ids : Accumulate(id)
    PROVE  Inv'
<1> USE DEF Inv
<1>1. CASE RInit
  <2>0. request' \in 0 .. MaxRequests
    BY <1>1, ConstantsAssumption DEF RInit, TypeOK
  <2>1. TypeOK'
    BY <1>1, <2>0 DEF RInit, TypeOK, EmptyHash, Outcomes
  <2> QED BY <1>1, <2>1 DEF RInit, ReferencesLive, GenerationLive
<1>2. CASE RShutdown
  <2>1. EmptyHash \in [Ids -> SigObjs \cup {Null}]
    BY DEF EmptyHash
  <2>2. /\ signals_hash' \in [Ids -> SigObjs \cup {Null}]
        /\ type_object' = type_object
        /\ signal_object' \in [SigObjs -> Signal \cup {Null}]
        /\ sigvars' = sigvars
        /\ ReferencesLive'
    BY <1>2, <2>1, ReleaseKeepsHeap DEF RShutdown, TypeOK, ReferencesLive
  <2>3. closure' \in [Ids -> {"none", "valid", "invalid"}]
    BY <1>2 DEF RShutdown, TypeOK, InvalidateClassClosures
  <2>4. TypeOK'
    BY <1>2, <2>2, <2>3 DEF RShutdown, TypeOK, Outcomes
  <2>5. generating' = Null
    BY <1>2 DEF RShutdown, Running, GenerationLive
  <2> QED BY <2>2, <2>4, <2>5 DEF GenerationLive
<1>3. CASE ShutdownExecutor
  <2>1. TypeOK'
    BY <1>3 DEF ShutdownExecutor, Crash, TypeOK, EmptyHash, Outcomes
  <2>2. generating' = Null
    BY <1>3 DEF ShutdownExecutor, Crash, GenerationLive
  <2> QED BY <1>3, <2>1, <2>2
          DEF ShutdownExecutor, Crash, ReferencesLive, GenerationLive
<1>4. CASE \E id \in Ids : Accumulate(id)
  <2>1. TypeOK'
    BY <1>4 DEF Accumulate, Crash, TypeOK, EmptyHash, Outcomes
  <2> QED BY <1>4, <2>1
          DEF Accumulate, Running, Crash, ReferencesLive, GenerationLive
<1> QED BY <1>1, <1>2, <1>3, <1>4

\* A Signal object that the script can name exists.
LEMMA ReachableLive ==
    ASSUME Inv, NEW s \in Reachable
    PROVE  s \in SigObjs /\ signal_object[s] \in Signal
<1>1. s \in SigObjs /\ signal_object[s] # Null
  BY NullAssumption DEF Reachable, Referenced, EmptyHash, Inv, TypeOK, ReferencesLive
<1> QED BY <1>1 DEF Inv, TypeOK

\* new Signal, a write to its flags, clone and unset keep the registry well formed.
LEMMA InvSignal ==
    ASSUME Inv, SignalStep
    PROVE  Inv'
<1> USE DEF Inv
<1>1. ASSUME NEW s \in SigObjs, NEW attr \in SignalArgs, NewSignal(s, attr)
      PROVE  Inv'
  <2>1. [attr |-> attr, signal_id |-> Null] \in Signal
    BY ConstantsAssumption DEF Signal
  <2>2. TypeOK'
    BY <1>1, <2>1 DEF NewSignal, TypeOK, Outcomes
  <2>3. [attr |-> attr, signal_id |-> Null] # Null
    BY <2>1, NullAssumption DEF Signal
  <2>4. ReferencesLive'
    BY <1>1, <2>3 DEF NewSignal, TypeOK, ReferencesLive
  <2> QED BY <1>1, <2>2, <2>4 DEF NewSignal, Running, GenerationLive
<1>2. ASSUME NEW s \in SigObjs, NEW f \in {"run_first", "other"}, WriteFlags(s, f)
      PROVE  Inv'
  <2>1. signal_object[s] \in Signal
    BY <1>2, ReachableLive DEF WriteFlags
  <2> DEFINE new == [attr |-> [signal_object[s].attr EXCEPT !.flags = f],
                     signal_id |-> signal_object[s].signal_id]
  <2>2. new \in Signal /\ new # Null
    BY <2>1, NullAssumption DEF Signal, Attributes
  <2>3. signal_object' = [signal_object EXCEPT ![s] = new]
    BY <1>2 DEF WriteFlags, TypeOK
  <2> HIDE DEF new
  <2>4. TypeOK'
    BY <1>2, <2>2, <2>3 DEF WriteFlags, TypeOK, Outcomes
  <2>5. ReferencesLive'
    BY <1>2, <2>2, <2>3 DEF WriteFlags, TypeOK, ReferencesLive
  <2> QED BY <1>2, <2>4, <2>5 DEF WriteFlags, Running, GenerationLive
<1>3. ASSUME NEW s \in SigObjs, NEW c \in SigObjs, SignalClone(s, c)
      PROVE  Inv'
  <2>1. signal_object[s] \in Signal
    BY <1>3, ReachableLive DEF SignalClone
  <2>2. CASE Crash("clone of null")
    <3>1. TypeOK'
      BY <2>2 DEF Crash, TypeOK, EmptyHash, Outcomes
    <3> QED BY <1>3, <2>2, <3>1
            DEF SignalClone, Running, Crash, ReferencesLive, GenerationLive
  <2>3. CASE ~Crash("clone of null")
    <3> DEFINE new == [signal_object[s] EXCEPT !.signal_id = Null]
    <3>1. new \in Signal /\ new # Null
      BY <2>1, NullAssumption DEF Signal
    <3>2. /\ signal_object' = [signal_object EXCEPT ![c] = new]
          /\ sigvars' = sigvars \cup {c}
          /\ outcome' = "none"
          /\ UNCHANGED <<phase, request, processVars, tableVars, type_object, generating>>
      BY <1>3, <2>3 DEF SignalClone
    <3> HIDE DEF new
    <3>3. TypeOK'
      BY <3>1, <3>2 DEF TypeOK, Outcomes
    <3>4. ReferencesLive'
      BY <3>1, <3>2 DEF TypeOK, ReferencesLive
    <3> QED BY <1>3, <3>2, <3>3, <3>4 DEF SignalClone, Running, GenerationLive
  <2> QED BY <2>2, <2>3
<1>4. ASSUME NEW s \in SigObjs, DropSignal(s)
      PROVE  Inv'
  <2>1. /\ signals_hash' \in [Ids -> SigObjs \cup {Null}]
        /\ type_object' = type_object
        /\ signal_object' \in [SigObjs -> Signal \cup {Null}]
        /\ sigvars' \in SUBSET SigObjs
        /\ ReferencesLive'
    <3>1. sigvars \ {s} \in SUBSET SigObjs
      BY DEF TypeOK
    <3>2. Release(sigvars \ {s}, type_object, signals_hash)
      BY <1>4 DEF DropSignal
    <3>3. /\ type_object \in [TypeObjs -> TypeObj \cup {Null}]
          /\ signals_hash \in [Ids -> SigObjs \cup {Null}]
      BY DEF TypeOK
    <3>4. \A x \in sigvars \ {s} : signal_object[x] # Null
      BY DEF ReferencesLive
    <3>5. \A t \in TypeObjs : \A k \in Keys :
              type_object[t] # Null /\ type_object[t].signals[k] # Null =>
                  signal_object[type_object[t].signals[k]] # Null
      BY DEF ReferencesLive
    <3> HIDE DEF Inv
    <3>6. TypeOK
      BY DEF Inv
    <3> QED BY <3>1, <3>2, <3>3, <3>4, <3>5, <3>6, ReleaseKeepsHeap
  <2>2. TypeOK'
    BY <1>4, <2>1 DEF DropSignal, TypeOK, Outcomes
  <2>3. generating' = Null
    BY <1>4 DEF DropSignal, Running, GenerationLive
  <2> QED BY <2>1, <2>2, <2>3 DEF GenerationLive
<1> QED BY <1>1, <1>2, <1>3, <1>4 DEF SignalStep

\* So do the calls and properties of Type, up to the start of a generate().
LEMMA InvType ==
    ASSUME Inv, TypeStep
    PROVE  Inv'
<1> USE DEF Inv
<1>1. ASSUME NEW t \in TypeObjs, NewType(t)
      PROVE  Inv'
  <2> DEFINE new == [name |-> Null, parent |-> Null, signals |-> [k \in Keys |-> Null]]
  <2>1. new \in TypeObj /\ new # Null /\ \A k \in Keys : new.signals[k] = Null
    BY NullAssumption DEF TypeObj
  <2>2. type_object' = [type_object EXCEPT ![t] = new]
    BY <1>1 DEF NewType
  <2> HIDE DEF new
  <2>3. TypeOK'
    BY <1>1, <2>1, <2>2 DEF NewType, TypeOK, Outcomes
  <2>4. ReferencesLive'
    BY <1>1, <2>1, <2>2 DEF NewType, TypeOK, ReferencesLive
  <2> QED BY <1>1, <2>3, <2>4 DEF NewType, Running, GenerationLive
<1>2. ASSUME Crash("uninitialised name"), Running \/ phase = "fatal"
      PROVE  Inv'
  <2>1. TypeOK'
    BY <1>2 DEF Crash, TypeOK, EmptyHash, Outcomes
  <2> QED BY <1>2, <2>1
          DEF Running, Crash, ReferencesLive, GenerationLive
<1>3. ASSUME NEW t \in TypeObjs, NEW n \in TypeNames, WriteName(t, n)
      PROVE  Inv'
  <2>1. CASE Crash("uninitialised name")
    BY <1>2, <1>3, <2>1 DEF WriteName
  <2>2. CASE ~Crash("uninitialised name")
    <3>1. /\ type_object' = [type_object EXCEPT ![t].name = n]
          /\ type_object[t] \in TypeObj
          /\ outcome' = "none"
          /\ UNCHANGED <<phase, request, processVars, tableVars, signal_object, sigvars, generating>>
      BY <1>3, <2>2 DEF WriteName, TypeOK
    <3> DEFINE new == [type_object[t] EXCEPT !.name = n]
    <3>2. new \in TypeObj /\ new # Null /\ new.signals = type_object[t].signals
      BY <3>1, NullAssumption DEF TypeObj
    <3>3. type_object' = [type_object EXCEPT ![t] = new]
      BY <3>1
    <3> HIDE DEF new
    <3>4. TypeOK'
      BY <3>1, <3>2, <3>3 DEF TypeOK, Outcomes
    <3>5. ReferencesLive'
      BY <1>3, <3>1, <3>2, <3>3 DEF WriteName, TypeOK, ReferencesLive
    <3> QED BY <1>3, <3>1, <3>4, <3>5 DEF WriteName, Running, GenerationLive
  <2> QED BY <2>1, <2>2
<1>4. ASSUME NEW t \in TypeObjs, NEW p \in Types, WriteParent(t, p)
      PROVE  Inv'
  <2> DEFINE new == [type_object[t] EXCEPT !.parent = p]
  <2>1. type_object[t] \in TypeObj
    BY <1>4 DEF WriteParent, TypeOK
  <2>2. new \in TypeObj /\ new # Null /\ new.signals = type_object[t].signals
    BY <2>1, NullAssumption DEF TypeObj
  <2>3. type_object' = [type_object EXCEPT ![t] = new]
    BY <1>4 DEF WriteParent
  <2> HIDE DEF new
  <2>4. TypeOK'
    BY <1>4, <2>2, <2>3 DEF WriteParent, TypeOK, Outcomes
  <2>5. ReferencesLive'
    BY <1>4, <2>2, <2>3 DEF WriteParent, TypeOK, ReferencesLive
  <2> QED BY <1>4, <2>4, <2>5 DEF WriteParent, Running, GenerationLive
<1>5. ASSUME NEW t \in TypeObjs, NEW k \in Keys, NEW s \in SigObjs \cup {Null},
             WriteSignal(t, k, s)
      PROVE  Inv'
  <2> DEFINE new  == [type_object[t] EXCEPT !.signals = [@ EXCEPT ![k] = s]]
             objs == [type_object EXCEPT ![t] = new]
  <2>1. type_object[t] \in TypeObj
    BY <1>5 DEF WriteSignal, TypeOK
  <2>2. /\ new \in TypeObj
        /\ \A j \in Keys : new.signals[j] = IF j = k THEN s ELSE type_object[t].signals[j]
    BY <2>1 DEF TypeObj
  <2>3. Release(sigvars, objs, signals_hash)
    BY <1>5 DEF WriteSignal
  <2>4. s # Null => signal_object[s] # Null
    <3>1. s # Null => signal_object[s] \in Signal
      BY <1>5, ReachableLive DEF WriteSignal
    <3> QED BY <3>1, NullAssumption DEF Signal
  <2> HIDE DEF new
  <2>5. objs \in [TypeObjs -> TypeObj \cup {Null}]
    BY <2>2 DEF TypeOK
  <2>6. \A u \in TypeObjs : \A j \in Keys :
            objs[u] # Null /\ objs[u].signals[j] # Null =>
                signal_object[objs[u].signals[j]] # Null
    BY <1>5, <2>2, <2>4 DEF WriteSignal, TypeOK, ReferencesLive
  <2> HIDE DEF objs
  <2>7. /\ signals_hash' \in [Ids -> SigObjs \cup {Null}]
        /\ type_object' = objs
        /\ signal_object' \in [SigObjs -> Signal \cup {Null}]
        /\ sigvars' = sigvars
        /\ ReferencesLive'
    BY <2>3, <2>5, <2>6, ReleaseKeepsHeap DEF TypeOK, ReferencesLive
  <2>8. TypeOK'
    BY <1>5, <2>5, <2>7 DEF WriteSignal, TypeOK, Outcomes
  <2> QED BY <1>5, <2>7, <2>8 DEF WriteSignal, Running, GenerationLive
<1>6. ASSUME NEW t \in TypeObjs, DropType(t)
      PROVE  Inv'
  <2>1. CASE Crash("uninitialised name")
    BY <1>2, <1>6, <2>1 DEF DropType
  <2>2. CASE ~Crash("uninitialised name")
    <3> DEFINE objs == [type_object EXCEPT ![t] = Null]
    <3>1. /\ Release(sigvars, objs, signals_hash)
          /\ outcome' = "none"
          /\ UNCHANGED <<phase, request, processVars, class_closure_hash, generating>>
      BY <1>6, <2>2 DEF DropType
    <3>2. objs \in [TypeObjs -> TypeObj \cup {Null}]
      BY DEF TypeOK
    <3>3. \A u \in TypeObjs : \A j \in Keys :
              objs[u] # Null /\ objs[u].signals[j] # Null =>
                  signal_object[objs[u].signals[j]] # Null
      BY DEF TypeOK, ReferencesLive
    <3> HIDE DEF objs
    <3>4. /\ signals_hash' \in [Ids -> SigObjs \cup {Null}]
          /\ type_object' = objs
          /\ signal_object' \in [SigObjs -> Signal \cup {Null}]
          /\ sigvars' = sigvars
          /\ ReferencesLive'
      BY <3>1, <3>2, <3>3, ReleaseKeepsHeap DEF TypeOK, ReferencesLive
    <3>5. TypeOK'
      BY <3>1, <3>2, <3>4 DEF TypeOK, Outcomes
    <3> QED BY <1>6, <3>1, <3>4, <3>5 DEF DropType, Running, GenerationLive
  <2> QED BY <2>1, <2>2
<1>7. ASSUME NEW p \in Types, Import(p)
      PROVE  Inv'
  <2>1. SupersOf(p) \subseteq Types
    BY ConstantsAssumption DEF SupersOf, Types, TypeOK
  <2>2. TypeOK'
    BY <1>7, <2>1 DEF Import, TypeOK, Outcomes
  <2> QED BY <1>7, <2>2 DEF Import, Running, ReferencesLive, GenerationLive
<1>8. ASSUME NEW t \in TypeObjs, Generate(t)
      PROVE  Inv'
  <2>1. CASE Crash("uninitialised name")
    BY <1>2, <1>8, <2>1 DEF Generate
  <2>2. CASE ~Crash("uninitialised name")
    <3>1. PICK n \in TypeNames \cup {Null} : GenerateAs(t, n)
      BY <1>8, <2>2 DEF Generate, TypeOK, TypeObj
    <3>2. /\ UNCHANGED <<phase, request, vfuncs, gsignal, born, closure, tableVars, objectVars>>
          /\ phase = "active" /\ generating = Null /\ type_object[t] \in TypeObj
      BY <1>8, <2>2 DEF Generate, Running, TypeOK
    <3>3. CASE UNCHANGED <<supers, classes, generating>> /\ outcome' \in Outcomes
      BY <3>2, <3>3 DEF TypeOK, ReferencesLive, GenerationLive
    <3> DEFINE parent == type_object[t].parent
               keys   == {k \in Keys : type_object[t].signals[k] # Null}
    <3>4. CASE /\ n # Null
               /\ RegisterStatic(n, parent)
               /\ supers' = [supers EXCEPT ![n] = SupersOf(parent) \cup {n}]
      <4>1. parent \in Types
        BY <3>4, ConstantsAssumption DEF RegisterStatic, Types
      <4>2. SupersOf(parent) \cup {n} \subseteq Types
        BY <3>4, <4>1, ConstantsAssumption DEF SupersOf, Types, TypeOK
      <4>3. supers' \in [TypeNames -> SUBSET Types] /\ n \in supers'[n]
        BY <3>4, <4>2 DEF TypeOK
      <4>4. CASE UNCHANGED <<classes, generating>> /\ outcome' \in Outcomes
        BY <3>2, <4>3, <4>4 DEF TypeOK, ReferencesLive, GenerationLive
      <4>5. CASE /\ classes' = classes \cup {n}
                 /\ generating' = [obj |-> t, name |-> n, todo |-> keys]
                 /\ outcome' = "none"
        <5>1. generating' \in Generation
          BY <3>4, <4>5 DEF Generation
        <5>2. TypeOK'
          BY <3>2, <3>4, <4>3, <4>5, <5>1 DEF TypeOK, Outcomes, Types
        <5>3. GenerationLive'
          BY <1>8, <3>2, <3>4, <4>3, <4>5 DEF Generate, GenerationLive, TypeOK
        <5> QED BY <3>2, <5>2, <5>3 DEF ReferencesLive
      <4> QED BY <3>1, <3>4, <4>4, <4>5 DEF GenerateAs, IsTaken, Outcomes
    <3> QED BY <3>1, <3>3, <3>4 DEF GenerateAs, RegisterStatic, Outcomes
  <2> QED BY <2>1, <2>2
<1> QED BY <1>1, <1>3, <1>4, <1>5, <1>6, <1>7, <1>8 DEF TypeStep

\* So does generate(), signal by signal, its E_ERROR included.
LEMMA InvGenerate ==
    ASSUME Inv, GenerateStep
    PROVE  Inv'
<1> USE DEF Inv
<1>1. ASSUME NEW key \in Keys, RegisterSignal(key)
      PROVE  Inv'
  <2> DEFINE name == generating.name
             id   == <<name, key>>
             s    == type_object[generating.obj].signals[key]
             attr == signal_object[s].attr
  <2>1. /\ generating \in Generation
        /\ key \in generating.todo
        /\ type_object[generating.obj] \in TypeObj
        /\ phase = "active"
    BY <1>1 DEF RegisterSignal, TypeOK, GenerationLive, Generation
  <2>2. name \in TypeNames /\ id \in Ids
    BY <2>1 DEF Generation, Ids
  <2>3. s \in SigObjs /\ signal_object[s] \in Signal
    <3>0. generating # Null
      BY <2>1, NullAssumption DEF Generation
    <3>1. s # Null /\ generating.obj \in TypeObjs /\ type_object[generating.obj] # Null
      BY <2>1, <3>0 DEF GenerationLive, Generation
    <3>2. s \in SigObjs
      BY <2>1, <3>1 DEF TypeObj
    <3> QED BY <2>1, <3>1, <3>2 DEF ReferencesLive, TypeOK, TypeObj
  <2>4. CASE signal_object[s].signal_id # Null
    <3>1. /\ phase' = "fatal" /\ generating' = Null /\ outcome' = "signal reused"
          /\ UNCHANGED <<gsignal, born, closure, tableVars, signal_object>>
          /\ UNCHANGED <<request, supers, classes, vfuncs, type_object, sigvars>>
      BY <1>1, <2>4 DEF RegisterSignal
    <3> QED BY <3>1 DEF TypeOK, Outcomes, ReferencesLive, GenerationLive
  <2>5. CASE signal_object[s].signal_id = Null
    <3>1. /\ closure' \in {closure, [closure EXCEPT ![id] = "valid"]}
          /\ class_closure_hash' \in {class_closure_hash, class_closure_hash \cup {id}}
          /\ born' = [born EXCEPT ![id] = request]
          /\ generating' = [generating EXCEPT !.todo = generating.todo \ {key}]
          /\ outcome' = "none"
          /\ UNCHANGED <<phase, request, supers, classes, vfuncs, type_object, sigvars>>
      BY <1>1, <2>5 DEF RegisterSignal, StoreClassClosure, NextElements
    <3>2. \/ UNCHANGED <<gsignal, signal_object, signals_hash>>
          \/ /\ gsignal' = [gsignal EXCEPT
                    ![id] = IF attr.accumulator THEN "accu" ELSE "plain"]
             /\ signal_object' = [signal_object EXCEPT ![s].signal_id = id]
             /\ signals_hash' = [signals_hash EXCEPT ![id] = s]
      BY <1>1, <2>5 DEF RegisterSignal, StoreSignalAssociation
    <3> DEFINE new == [signal_object[s] EXCEPT !.signal_id = id]
    <3>3. new \in Signal /\ new # Null
      BY <2>2, <2>3, NullAssumption DEF Signal
    <3>4. \/ signal_object' = signal_object
          \/ signal_object' = [signal_object EXCEPT ![s] = new]
      BY <3>2
    <3>5. gsignal' \in [Ids -> {"absent", "plain", "accu"}]
      BY <2>2, <3>2 DEF TypeOK
    <3>6. signals_hash' \in [Ids -> SigObjs \cup {Null}]
      BY <2>2, <2>3, <3>2 DEF TypeOK
    <3>7. generating' \in Generation /\ generating'.todo \subseteq generating.todo
          /\ generating'.name = generating.name /\ generating'.obj = generating.obj
      BY <2>1, <3>1 DEF Generation
    <3> HIDE DEF new, id, s, name, attr
    <3>8. signal_object' \in [SigObjs -> Signal \cup {Null}]
      BY <2>3, <3>3, <3>4 DEF TypeOK
    <3>9. /\ closure' \in [Ids -> {"none", "valid", "invalid"}]
          /\ class_closure_hash' \subseteq Ids
          /\ born' \in [Ids -> 0 .. MaxRequests]
      BY <2>2, <3>1 DEF TypeOK
    <3>10. TypeOK'
      BY <3>1, <3>5, <3>6, <3>7, <3>8, <3>9 DEF TypeOK, Outcomes
    <3>11. \A x \in SigObjs : signal_object[x] # Null => signal_object'[x] # Null
      BY <2>3, <3>3, <3>4 DEF TypeOK
    <3>12. ReferencesLive'
      BY <3>1, <3>11 DEF ReferencesLive, TypeOK, TypeObj
    <3>13. GenerationLive'
      BY <2>1, <3>1, <3>7, NullAssumption DEF GenerationLive, Generation
    <3> QED BY <3>10, <3>12, <3>13
  <2> QED BY <2>4, <2>5
<1>2. CASE InstallProperties
  <2>1. TypeOK'
    BY <1>2 DEF InstallProperties, TypeOK, Generation, Outcomes
  <2> QED BY <1>2, <2>1 DEF InstallProperties, ReferencesLive, GenerationLive
<1> QED BY <1>1, <1>2 DEF GenerateStep

\* The invariant is inductive.
LEMMA InvStep == Inv /\ [Next]_vars => Inv'
<1> SUFFICES ASSUME Inv, [Next]_vars PROVE Inv'
  OBVIOUS
<1>1. CASE SignalStep
  BY <1>1, InvSignal
<1>2. CASE TypeStep
  BY <1>2, InvType
<1>3. CASE GenerateStep
  BY <1>3, InvGenerate
<1>4. CASE RInit \/ RShutdown \/ ShutdownExecutor \/ \E id \in Ids : Accumulate(id)
  BY <1>4, InvBoundary
<1>5. CASE UNCHANGED vars
  BY <1>5 DEF vars, Inv, TypeOK, ReferencesLive, GenerationLive
<1> QED BY <1>1, <1>2, <1>3, <1>4, <1>5 DEF Next, Halted

\* Every reachable state is well formed: each variable has its type, and no
\* variable, signals array or running generate() refers to a freed object.
THEOREM InvHolds == Spec => []Inv
BY InvInit, InvStep, PTL DEF Spec

\* Every variable keeps its type: no Type, Signal, closure or table entry ever has a
\* value that the C declarations do not allow.
THEOREM Typing == Spec => []TypeOK
<1>1. Inv => TypeOK
  BY DEF Inv
<1> QED BY <1>1, InvHolds, PTL

-----------------------------------------------------------------------------
(* Class closures.                                                          *)

\* A valid closure is in the table of the running request.  That is what makes
\* NoStaleClassClosure inductive: the table is destroyed before the request ends.
ClosureInv ==
    /\ \A id \in ValidClosures :
            /\ id \in class_closure_hash \/ phase = "crashed"
            /\ phase \in {"active", "fatal", "crashed"}
            /\ born[id] = request

\* There are no class closures at first.
LEMMA ClosureInit == Init => ClosureInv
BY DEF Init, ClosureInv, ValidClosures

\* Class closures are made by generate() in a request and invalidated by its RSHUTDOWN.
LEMMA ClosureStep == Inv /\ ClosureInv /\ [Next]_vars => ClosureInv'
<1> SUFFICES ASSUME Inv, ClosureInv, [Next]_vars PROVE ClosureInv'
  OBVIOUS
<1> USE DEF ClosureInv, ValidClosures
<1>1. ASSUME UNCHANGED <<phase, request, born, closure, class_closure_hash>>
      PROVE  ClosureInv'
  BY <1>1
<1>2. ASSUME NEW why, Crash(why)
      PROVE  ClosureInv'
  BY <1>2 DEF Crash
<1>3. CASE RInit
  BY <1>3 DEF RInit
<1>4. CASE SignalStep
  BY <1>1, <1>2, <1>4
  DEF SignalStep, NewSignal, WriteFlags, SignalClone, DropSignal
<1>5. CASE TypeStep
  BY <1>1, <1>2, <1>5
  DEF TypeStep, NewType, WriteName, WriteParent, WriteSignal, DropType, Import, Generate
<1>6. CASE \E k \in Keys : RegisterSignal(k)
  <2>1. PICK key \in Keys : RegisterSignal(key)
    BY <1>6
  <2> DEFINE id == <<generating.name, key>>
             s  == type_object[generating.obj].signals[key]
  <2>2. phase = "active" /\ generating \in Generation
    BY <2>1 DEF RegisterSignal, Inv, TypeOK, GenerationLive
  <2>3. id \in Ids
    BY <2>2 DEF Generation, Ids
  <2>4. CASE signal_object[s].signal_id # Null
    <3>1. phase' = "fatal" /\ UNCHANGED <<request, born, closure, class_closure_hash>>
      BY <2>1, <2>4 DEF RegisterSignal
    <3> QED BY <3>1, <2>2
  <2>5. CASE signal_object[s].signal_id = Null
    <3>1. /\ \/ UNCHANGED <<closure, class_closure_hash>>
             \/ /\ closure' = [closure EXCEPT ![id] = "valid"]
                /\ class_closure_hash' = class_closure_hash \cup {id}
          /\ born' = [born EXCEPT ![id] = request]
          /\ UNCHANGED <<phase, request>>
      BY <2>1, <2>5 DEF RegisterSignal, StoreClassClosure
    <3> HIDE DEF id
    <3> QED BY <2>2, <2>3, <3>1 DEF Inv, TypeOK
  <2> QED BY <2>4, <2>5
<1>7. CASE InstallProperties
  BY <1>1, <1>7 DEF InstallProperties
<1>8. CASE \E id \in Ids : Accumulate(id)
  BY <1>1, <1>2, <1>8 DEF Accumulate
<1>9. CASE RShutdown
  <2>1. closure' = [id \in Ids |-> IF id \in class_closure_hash THEN "invalid" ELSE closure[id]]
    BY <1>9 DEF RShutdown, InvalidateClassClosures
  <2>2. phase # "crashed"
    BY <1>9 DEF RShutdown, Running
  <2> QED BY <2>1, <2>2
<1>10. CASE ShutdownExecutor
  BY <1>2, <1>10 DEF ShutdownExecutor
<1>11. CASE UNCHANGED vars
  BY <1>1, <1>11 DEF vars
<1> QED BY <1>3, <1>4, <1>5, <1>6, <1>7, <1>8, <1>9, <1>10, <1>11
        DEF Next, GenerateStep, Halted

\* A class closure that is valid is of the running request and in class_closure_hash,
\* which php_gobject_invalidate_class_closure goes through when the request ends.
THEOREM ClosureInvHolds == Spec => []ClosureInv
BY ClosureInit, ClosureStep, InvHolds, PTL DEF Spec

\* No class closure that GLib could still invoke belongs to an earlier request,
\* and none is valid between two requests.
THEOREM ClosuresNeverStale == Spec => []NoStaleClassClosure
<1>1. ClosureInv => NoStaleClassClosure
  BY DEF ClosureInv, NoStaleClassClosure
<1> QED BY <1>1, ClosureInvHolds, PTL

\* The registry keeps the promise of RequestScope for its class closures: they
\* are made inside a request and given up with it.
THEOREM RefinesRequestScope == Spec => ImplementsRequestScope
<1> DEFINE open == phase \in {"active", "fatal"}
           held == IF phase = "crashed" THEN {} ELSE ValidClosures
<1>1. Init => ClosureScope!Init
  BY DEF Init, ClosureScope!Init, ValidClosures
<1>2. Inv /\ ClosureInv /\ ClosureInv' /\ [Next]_vars => [ClosureScope!Next]_(ClosureScope!vars)
  <2> SUFFICES ASSUME Inv, ClosureInv, ClosureInv', [Next]_vars
               PROVE  [ClosureScope!Next]_(ClosureScope!vars)
    OBVIOUS
  <2> USE DEF ClosureScope!Next, ClosureScope!vars
  <2>0. ValidClosures \subseteq Ids /\ ValidClosures' \subseteq Ids
    BY DEF ValidClosures
  <2>1. ASSUME UNCHANGED <<phase, closure>>
        PROVE  [ClosureScope!Next]_(ClosureScope!vars)
    BY <2>1 DEF ValidClosures
  <2>2. ASSUME NEW why, Crash(why), phase # "crashed"
        PROVE  [ClosureScope!Next]_(ClosureScope!vars)
    BY <2>2 DEF Crash, ValidClosures, ClosureInv, ClosureScope!End
  <2>3. CASE RInit
    BY <2>3 DEF RInit, ClosureInv, ClosureScope!Begin, ValidClosures
  <2>4. CASE SignalStep
    BY <2>1, <2>2, <2>4
    DEF SignalStep, NewSignal, WriteFlags, SignalClone, DropSignal, Running
  <2>5. CASE TypeStep
    BY <2>1, <2>2, <2>5
    DEF TypeStep, NewType, WriteName, WriteParent, WriteSignal, DropType, Import,
        Generate, Running
  <2>6. CASE \E k \in Keys : RegisterSignal(k)
    <3>1. PICK key \in Keys : RegisterSignal(key)
      BY <2>6
    <3>2. phase = "active" /\ phase' \in {"active", "fatal"}
      BY <3>1 DEF RegisterSignal, Inv, GenerationLive
    <3>3. \/ closure' = closure
          \/ closure' = [closure EXCEPT ![<<generating.name, key>>] = "valid"]
      BY <3>1 DEF RegisterSignal
    <3>4. ValidClosures \subseteq ValidClosures'
      BY <3>3 DEF ValidClosures, Inv, TypeOK
    <3>5. ValidClosures' = ValidClosures \cup ValidClosures'
      BY <3>4
    <3> QED BY <2>0, <3>2, <3>5 DEF ClosureScope!Acquire
  <2>7. CASE InstallProperties
    BY <2>1, <2>7 DEF InstallProperties
  <2>8. CASE \E id \in Ids : Accumulate(id)
    BY <2>1, <2>2, <2>8 DEF Accumulate, Running
  <2>9. CASE RShutdown
    BY <2>9 DEF RShutdown, Running, ClosureInv, ClosureScope!End
  <2>10. CASE ShutdownExecutor
    <3>1. phase = "swept" /\ phase' \in {"idle", "crashed"} /\ UNCHANGED closure
      BY <2>10 DEF ShutdownExecutor, Crash
    <3>2. ValidClosures = {} /\ ValidClosures' = {}
      BY <3>1 DEF ClosureInv, ValidClosures
    <3> QED BY <3>1, <3>2
  <2>11. CASE UNCHANGED vars
    BY <2>1, <2>11 DEF vars
  <2> QED BY <2>3, <2>4, <2>5, <2>6, <2>7, <2>8, <2>9, <2>10, <2>11
          DEF Next, GenerateStep, Halted
<1> QED BY <1>1, <1>2, InvHolds, ClosureInvHolds, PTL
        DEF Spec, ImplementsRequestScope, ClosureScope!Spec

-----------------------------------------------------------------------------
(* The association of signal ids with Signal objects.                       *)

\* Beside AssociationExact itself: a name generates once, so an id is given out
\* once; and a request starts without objects and with a number that no signal
\* has yet.
AssociationInv ==
    /\ AssociationExact
    /\ phase = "idle" => \A s \in SigObjs : signal_object[s] = Null
    /\ \A id \in Ids : gsignal[id] # "absent" => born[id] <= request
    /\ \A n \in TypeNames : supers[n] = {} => \A k \in Keys : gsignal[<<n, k>>] = "absent"
    /\ generating # Null =>
            \A k \in generating.todo : gsignal[<<generating.name, k>>] = "absent"

\* While the script runs, an object that loses its last reference was never
\* registered: gobject_signal_free_storage has no association to remove.
LEMMA ReleaseKeepsAssociations ==
    ASSUME Inv, AssociationExact, phase \in {"active", "fatal"},
           NEW sv, NEW objs, Release(sv, objs, signals_hash)
    PROVE  /\ signals_hash' = signals_hash
           /\ \A s \in SigObjs : signal_object'[s] \in {signal_object[s], Null}
           /\ \A id \in Ids : signals_hash[id] # Null =>
                    signal_object'[signals_hash[id]] = signal_object[signals_hash[id]]
<1> DEFINE freed == {s \in SigObjs : signal_object[s] # Null}
                        \ Referenced(sv, objs, signals_hash)
           gone  == {id \in Ids : \E s \in freed : signal_object[s].signal_id = id}
<1>1. /\ signal_object' = [s \in SigObjs |-> IF s \in freed THEN Null ELSE signal_object[s]]
      /\ signals_hash' = [id \in Ids |-> IF id \in gone THEN Null ELSE signals_hash[id]]
  BY DEF Release
<1>2. \A id \in Ids : signals_hash[id] \notin freed
  BY DEF Referenced
<1>3. gone = {}
  <2> SUFFICES ASSUME NEW id \in Ids, NEW s \in freed, signal_object[s].signal_id = id
               PROVE  FALSE
    OBVIOUS
  <2>1. signals_hash[id] = s
    BY NullAssumption DEF AssociationExact
  <2> QED BY <1>2, <2>1
<1> HIDE DEF freed, gone
<1> QED BY <1>1, <1>2, <1>3 DEF Inv, TypeOK

\* signals_hash is empty at first.
LEMMA AssociationInit == Init => AssociationInv
<1> SUFFICES ASSUME Init PROVE AssociationInv
  OBVIOUS
<1>1. /\ \A id \in Ids : signals_hash[id] = Null /\ gsignal[id] = "absent"
      /\ \A s \in SigObjs : signal_object[s] = Null
      /\ phase = "idle" /\ generating = Null
  BY DEF Init, EmptyHash
<1>2. \A n \in TypeNames : \A k \in Keys : <<n, k>> \in Ids
  BY DEF Ids
<1> QED BY <1>1, <1>2 DEF AssociationInv, AssociationExact

\* Registration, the freeing of Signal objects and the end of the request keep
\* signals_hash exact.
LEMMA AssociationStep == Inv /\ AssociationInv /\ [Next]_vars => AssociationInv'
<1> SUFFICES ASSUME Inv, AssociationInv, [Next]_vars PROVE AssociationInv'
  OBVIOUS
<1>1. ASSUME NEW why, Crash(why), UNCHANGED generating
      PROVE  AssociationInv'
  BY <1>1 DEF Crash, AssociationInv, AssociationExact
\* Steps that touch neither the ids nor the objects that have one.
<1>2. ASSUME phase \in {"active", "fatal"},
             UNCHANGED <<phase, request, supers, gsignal, born, signals_hash, generating>>,
             \A s \in SigObjs : \/ signal_object'[s] \in {signal_object[s], Null}
                                \/ signal_object'[s].signal_id = Null,
             \A id \in Ids : signals_hash[id] # Null =>
                    /\ signal_object'[signals_hash[id]] # Null
                    /\ signal_object'[signals_hash[id]].signal_id
                            = signal_object[signals_hash[id]].signal_id
      PROVE  AssociationInv'
  <2>1. AssociationExact'
    BY <1>2 DEF AssociationInv, AssociationExact
  <2> QED BY <1>2, <2>1 DEF AssociationInv
<1>3. CASE RInit
  <2>1. phase' = "active" /\ request' = request + 1 /\ phase = "idle"
        /\ signals_hash' = EmptyHash
        /\ UNCHANGED <<supers, gsignal, born, signal_object, generating>>
    BY <1>3 DEF RInit
  <2>2. \A id \in Ids : gsignal[id] # "absent" => born[id] # request' /\ born[id] <= request'
    <3>1. request \in Nat /\ \A id \in Ids : born[id] \in Nat
      BY ConstantsAssumption DEF Inv, TypeOK
    <3> QED BY <2>1, <3>1 DEF AssociationInv
  <2>3. \A s \in SigObjs : signal_object'[s] = Null
    BY <2>1 DEF AssociationInv
  <2>4. AssociationExact'
    BY <2>1, <2>2, <2>3 DEF AssociationExact, EmptyHash
  <2> QED BY <2>1, <2>2, <2>4 DEF AssociationInv
<1>4. CASE SignalStep
  <2>1. ASSUME NEW s \in SigObjs, NEW attr \in SignalArgs, NewSignal(s, attr)
        PROVE  AssociationInv'
    <3> DEFINE new == [attr |-> attr, signal_id |-> Null]
    <3>1. /\ signal_object[s] = Null
          /\ signal_object' = [signal_object EXCEPT ![s] = new]
          /\ phase = "active"
          /\ UNCHANGED <<phase, request, supers, gsignal, born, signals_hash, generating>>
      BY <2>1 DEF NewSignal, Running
    <3>2. new.signal_id = Null
      OBVIOUS
    <3> HIDE DEF new
    <3>3. \A x \in SigObjs : x # s => signal_object'[x] = signal_object[x]
      BY <3>1
    <3>4. \A id \in Ids : signals_hash[id] # Null =>
              signals_hash[id] # s /\ signals_hash[id] \in SigObjs
      BY <3>1 DEF AssociationInv, AssociationExact, Inv, TypeOK
    <3>5. signal_object'[s].signal_id = Null
      BY <3>1, <3>2 DEF Inv, TypeOK
    <3>6. \A id \in Ids : signals_hash[id] # Null =>
              signal_object[signals_hash[id]] # Null
      BY <3>1 DEF AssociationInv, AssociationExact
    <3> QED BY <1>2, <3>1, <3>3, <3>4, <3>5, <3>6
  <2>2. ASSUME NEW s \in SigObjs, NEW f \in {"run_first", "other"}, WriteFlags(s, f)
        PROVE  AssociationInv'
    <3> DEFINE new == [attr |-> [signal_object[s].attr EXCEPT !.flags = f],
                       signal_id |-> signal_object[s].signal_id]
    <3>1. /\ signal_object' = [signal_object EXCEPT ![s] = new]
          /\ phase = "active"
          /\ UNCHANGED <<phase, request, supers, gsignal, born, signals_hash, generating>>
      BY <2>2 DEF WriteFlags, Running
    <3>2. signal_object[s] \in Signal
      BY <2>2, ReachableLive DEF WriteFlags
    <3>3. new # Null /\ new.signal_id = signal_object[s].signal_id /\ signal_object[s] # Null
      <4>1. new \in Signal
        BY <3>2 DEF Signal, Attributes
      <4> QED BY <3>2, <4>1, NullAssumption DEF Signal
    <3> HIDE DEF new
    <3>4. \A x \in SigObjs :
              /\ signal_object[x] # Null <=> signal_object'[x] # Null
              /\ signal_object'[x].signal_id = signal_object[x].signal_id
      BY <3>1, <3>3 DEF Inv, TypeOK
    <3>5. AssociationExact'
      BY <3>1, <3>4 DEF AssociationInv, AssociationExact, Inv, TypeOK
    <3> QED BY <3>1, <3>5 DEF AssociationInv
  <2>3. ASSUME NEW s \in SigObjs, NEW c \in SigObjs, SignalClone(s, c)
        PROVE  AssociationInv'
    <3>1. CASE Crash("clone of null")
      BY <1>1, <3>1 DEF Crash
    <3>2. CASE ~Crash("clone of null")
      <4> DEFINE new == [signal_object[s] EXCEPT !.signal_id = Null]
      <4>1. /\ signal_object[c] = Null
            /\ signal_object' = [signal_object EXCEPT ![c] = new]
            /\ phase = "active"
            /\ UNCHANGED <<phase, request, supers, gsignal, born, signals_hash, generating>>
        BY <2>3, <3>2 DEF SignalClone, Running
      <4>2. signal_object[s] \in Signal
        BY <2>3, ReachableLive DEF SignalClone
      <4>3. new.signal_id = Null
        BY <4>2 DEF Signal
      <4> HIDE DEF new
      <4>4. \A x \in SigObjs : x # c => signal_object'[x] = signal_object[x]
        BY <4>1
      <4>5. \A id \in Ids : signals_hash[id] # Null =>
                /\ signals_hash[id] # c /\ signals_hash[id] \in SigObjs
                /\ signal_object[signals_hash[id]] # Null
        BY <4>1 DEF AssociationInv, AssociationExact, Inv, TypeOK
      <4>6. signal_object'[c].signal_id = Null
        BY <4>1, <4>3 DEF Inv, TypeOK
      <4> QED BY <1>2, <4>1, <4>4, <4>5, <4>6
    <3> QED BY <3>1, <3>2
  <2>4. ASSUME NEW s \in SigObjs, DropSignal(s)
        PROVE  AssociationInv'
    <3>1. /\ Release(sigvars \ {s}, type_object, signals_hash)
          /\ phase \in {"active", "fatal"}
          /\ UNCHANGED <<phase, request, supers, gsignal, born, generating>>
      BY <2>4 DEF DropSignal, Running
    <3> QED BY <1>2, <3>1, ReleaseKeepsAssociations DEF AssociationInv, AssociationExact
  <2> QED BY <1>4, <2>1, <2>2, <2>3, <2>4 DEF SignalStep
<1>5. CASE TypeStep
  <2>1. ASSUME phase = "active",
               UNCHANGED <<phase, request, supers, gsignal, born, signals_hash,
                           signal_object, generating>>
        PROVE  AssociationInv'
    BY <2>1 DEF AssociationInv, AssociationExact
  <2>2. ASSUME NEW objs, Release(sigvars, objs, signals_hash),
               phase \in {"active", "fatal"},
               UNCHANGED <<phase, request, supers, gsignal, born, generating>>
        PROVE  AssociationInv'
    BY <1>2, <2>2, ReleaseKeepsAssociations DEF AssociationInv, AssociationExact
  <2>3. ASSUME NEW t \in TypeObjs, Generate(t)
        PROVE  AssociationInv'
    <3>1. CASE Crash("uninitialised name")
      BY <1>1, <3>1 DEF Crash
    <3>2. CASE ~Crash("uninitialised name")
      <4>1. /\ phase = "active" /\ generating = Null
            /\ UNCHANGED <<phase, request, gsignal, born, signals_hash, signal_object>>
        BY <2>3, <3>2 DEF Generate, Running
      <4>2. AssociationExact'
        BY <4>1 DEF AssociationInv, AssociationExact
      <4>3. PICK n \in TypeNames \cup {Null} : GenerateAs(t, n)
        BY <2>3, <3>2 DEF Generate, Inv, TypeOK, TypeObj
      <4>4. CASE UNCHANGED <<supers, generating>>
        BY <4>1, <4>2, <4>4 DEF AssociationInv
      <4> DEFINE new == SupersOf(type_object[t].parent) \cup {n}
      <4>5. CASE /\ ~IsTaken(n) /\ n # Null
                 /\ supers' = [supers EXCEPT ![n] = new]
                 /\ generating' = Null \/ (generating'.name = n /\ generating'.todo \subseteq Keys)
        <5>1. n \in TypeNames /\ supers[n] = {}
          BY <4>5, ConstantsAssumption DEF IsTaken, Registered, SupersOf
        <5>2. \A k \in Keys : gsignal'[<<n, k>>] = "absent"
          BY <4>1, <5>1 DEF AssociationInv
        <5>3. generating' # Null =>
                \A k \in generating'.todo : gsignal'[<<generating'.name, k>>] = "absent"
          BY <4>5, <5>2
        <5> HIDE DEF new
        <5>4. \A m \in TypeNames : supers'[m] = {} => supers[m] = {}
          BY <4>5, <5>1 DEF Inv, TypeOK
        <5> QED BY <4>1, <4>2, <5>3, <5>4 DEF AssociationInv
      <4>6. \/ UNCHANGED <<supers, generating>>
            \/ /\ ~IsTaken(n) /\ RegisterStatic(n, type_object[t].parent)
               /\ supers' = [supers EXCEPT ![n] = new]
               /\ \/ generating' = generating
                  \/ generating' = [obj |-> t, name |-> n,
                        todo |-> {k \in Keys : type_object[t].signals[k] # Null}]
        BY <4>3 DEF GenerateAs
      <4>7. ASSUME generating' = [obj |-> t, name |-> n,
                        todo |-> {k \in Keys : type_object[t].signals[k] # Null}]
            PROVE  generating'.name = n /\ generating'.todo \subseteq Keys
        BY <4>7
      <4> HIDE DEF new
      <4> QED BY <4>1, <4>4, <4>5, <4>6, <4>7 DEF RegisterStatic
    <3> QED BY <3>1, <3>2
  <2> QED BY <1>1, <1>5, <2>1, <2>2, <2>3
          DEF TypeStep, NewType, WriteName, WriteParent, WriteSignal, DropType, Import,
              Running, Crash
<1>6. CASE \E k \in Keys : RegisterSignal(k)
  <2>1. PICK key \in Keys : RegisterSignal(key)
    BY <1>6
  <2> DEFINE name == generating.name
             id   == <<name, key>>
             s    == type_object[generating.obj].signals[key]
             attr == signal_object[s].attr
  <2>2. /\ generating # Null /\ phase = "active"
        /\ name \in TypeNames /\ id \in Ids /\ key \in generating.todo
        /\ gsignal[id] = "absent"
    BY <2>1 DEF RegisterSignal, Inv, TypeOK, GenerationLive, Generation, Ids, AssociationInv
  <2>3. s \in SigObjs /\ signal_object[s] # Null /\ signal_object[s] \in Signal
    <3>1. type_object[generating.obj] \in TypeObj /\ s # Null /\ generating.obj \in TypeObjs
          /\ type_object[generating.obj] # Null
      BY <2>2 DEF Inv, TypeOK, GenerationLive, Generation
    <3> QED BY <2>2, <3>1 DEF Inv, TypeOK, ReferencesLive, TypeObj
  <2>4. CASE signal_object[s].signal_id # Null
    <3>1. /\ phase' = "fatal" /\ generating' = Null
          /\ UNCHANGED <<request, supers, gsignal, born, signals_hash, signal_object>>
      BY <2>1, <2>4 DEF RegisterSignal
    <3>2. AssociationExact'
      BY <2>2, <3>1 DEF AssociationInv, AssociationExact
    <3> QED BY <3>1, <3>2 DEF AssociationInv
  <2>5. CASE signal_object[s].signal_id = Null
    <3>1. /\ born' = [born EXCEPT ![id] = request]
          /\ generating' = [generating EXCEPT !.todo = generating.todo \ {key}]
          /\ UNCHANGED <<phase, request, supers>>
      BY <2>1, <2>5 DEF RegisterSignal, NextElements
    <3>2. \/ UNCHANGED <<gsignal, signal_object, signals_hash>>
          \/ /\ gsignal' = [gsignal EXCEPT
                    ![id] = IF attr.accumulator THEN "accu" ELSE "plain"]
             /\ signal_object' = [signal_object EXCEPT
                    ![s] = [signal_object[s] EXCEPT !.signal_id = id]]
             /\ signals_hash' = [signals_hash EXCEPT ![id] = s]
             /\ SignalAccepted(name, key, attr)
      BY <2>1, <2>5 DEF RegisterSignal, StoreSignalAssociation
    <3>3. SignalAccepted(name, key, attr) => supers[name] # {}
      BY <2>2 DEF Inv, GenerationLive
    <3> DEFINE new == [signal_object[s] EXCEPT !.signal_id = id]
    <3>4. new.signal_id = id /\ new # Null
      <4>1. new \in Signal /\ new.signal_id = id
        BY <2>2, <2>3 DEF Signal
      <4> QED BY <4>1, NullAssumption DEF Signal
    <3>5. /\ generating'.name = name
          /\ generating'.todo = generating.todo \ {key}
          /\ generating.todo \subseteq Keys
      BY <2>2, <3>1 DEF Inv, TypeOK, Generation
    <3>6. signals_hash[id] = Null
      BY <2>2 DEF AssociationInv, AssociationExact
    <3>7. \A x \in Ids : signals_hash[x] # s
      <4> SUFFICES ASSUME NEW x \in Ids, signals_hash[x] = s PROVE FALSE
        OBVIOUS
      <4>1. s # Null /\ x # Null
        BY <2>3, NullAssumption
      <4>2. signal_object[signals_hash[x]].signal_id = x
        BY <2>2, <4>1 DEF AssociationInv, AssociationExact
      <4> HIDE DEF s
      <4> QED BY <2>5, <4>1, <4>2
    <3>8. id # Null
      BY <2>2, NullAssumption
    <3>9. supers[name] # {}
      BY <2>2 DEF Inv, GenerationLive
    <3>10. request \in Nat /\ s # Null
      BY <2>3, NullAssumption, ConstantsAssumption DEF Inv, TypeOK
    <3>11. \A n \in TypeNames : \A k \in Keys : <<n, k>> = id => n = name /\ k = key
      OBVIOUS
    <3>12. \A n \in TypeNames : \A k \in Keys : <<n, k>> \in Ids
      BY DEF Ids
    <3> HIDE DEF new, id, s
    <3>13. CASE UNCHANGED <<gsignal, signal_object, signals_hash>>
      <4>1. \A x \in Ids : gsignal[x] # "absent" => born'[x] = born[x]
        BY <2>2, <3>1 DEF Inv, TypeOK
      <4>2. AssociationExact'
        BY <2>2, <3>1, <3>13, <4>1 DEF AssociationInv, AssociationExact
      <4> QED BY <2>2, <3>1, <3>5, <3>13, <4>1, <4>2 DEF AssociationInv
    <3>14. CASE ~UNCHANGED <<gsignal, signal_object, signals_hash>>
      <4>1. /\ \A x \in Ids : x # id =>
                    /\ gsignal'[x] = gsignal[x] /\ born'[x] = born[x]
                    /\ signals_hash'[x] = signals_hash[x]
            /\ gsignal'[id] # "absent" /\ born'[id] = request /\ signals_hash'[id] = s
            /\ \A x \in SigObjs : x # s => signal_object'[x] = signal_object[x]
            /\ signal_object'[s] = new
        BY <2>2, <2>3, <3>1, <3>2, <3>14 DEF Inv, TypeOK, new
      <4>2. \A x \in Ids : (signals_hash'[x] # Null) <=>
                  (gsignal'[x] # "absent" /\ born'[x] = request')
        BY <2>2, <3>1, <3>10, <4>1 DEF AssociationInv, AssociationExact
      <4>3. \A x \in Ids : signals_hash'[x] # Null =>
                  /\ signal_object'[signals_hash'[x]] # Null
                  /\ signal_object'[signals_hash'[x]].signal_id = x
        BY <2>2, <3>4, <3>7, <4>1 DEF AssociationInv, AssociationExact, Inv, TypeOK
      <4>4. \A x \in SigObjs :
                signal_object'[x] # Null /\ signal_object'[x].signal_id # Null =>
                    signals_hash'[signal_object'[x].signal_id] = x
        <5>1. ASSUME NEW x \in SigObjs, x # s,
                     signal_object[x] # Null, signal_object[x].signal_id # Null
              PROVE  signals_hash'[signal_object[x].signal_id] = x
          <6>1. signal_object[x].signal_id \in Ids
            BY <5>1 DEF Inv, TypeOK, Signal
          <6>2. signals_hash[signal_object[x].signal_id] = x /\ x # Null
            BY <2>2, <5>1, NullAssumption DEF AssociationInv, AssociationExact
          <6> QED BY <3>6, <4>1, <6>1, <6>2
        <5> QED BY <3>4, <4>1, <5>1
      <4>5. AssociationExact'
        BY <4>2, <4>3, <4>4 DEF AssociationExact
      <4>6. \A x \in Ids : gsignal'[x] # "absent" => born'[x] <= request'
        BY <3>1, <3>10, <4>1 DEF AssociationInv
      <4>7. \A n \in TypeNames : supers'[n] = {} =>
                \A k \in Keys : gsignal'[<<n, k>>] = "absent"
        BY <3>1, <3>9, <3>11, <3>12, <4>1 DEF AssociationInv
      <4>8. \A k \in generating'.todo : gsignal'[<<generating'.name, k>>] = "absent"
        BY <2>2, <3>5, <3>11, <3>12, <4>1 DEF AssociationInv
      <4> QED BY <2>2, <3>1, <4>5, <4>6, <4>7, <4>8 DEF AssociationInv
    <3> QED BY <3>13, <3>14
  <2> QED BY <2>4, <2>5
<1>7. CASE InstallProperties
  BY <1>7 DEF InstallProperties, AssociationInv, AssociationExact
<1>8. CASE \E id \in Ids : Accumulate(id)
  <2>1. PICK id \in Ids : Accumulate(id)
    BY <1>8
  <2>2. CASE Crash("no signal for id")
    BY <1>1, <2>2 DEF Crash
  <2>3. CASE ~Crash("no signal for id")
    <3>1. UNCHANGED <<phase, request, supers, gsignal, born, signals_hash,
                      signal_object, generating>>
      BY <2>1, <2>3 DEF Accumulate
    <3> QED BY <3>1 DEF AssociationInv, AssociationExact
  <2> QED BY <2>2, <2>3
<1>9. CASE RShutdown
  BY <1>9 DEF RShutdown, AssociationInv, AssociationExact
<1>10. CASE ShutdownExecutor
  <2>1. CASE \E why \in {"destroyed table", "uninitialised name"} : Crash(why)
    BY <1>1, <2>1 DEF Crash
  <2>2. CASE /\ phase' = "idle"
             /\ signal_object' = [s \in SigObjs |-> Null]
             /\ UNCHANGED <<request, processVars, generating>>
    BY <2>2 DEF AssociationInv, AssociationExact
  <2> QED BY <1>10, <2>1, <2>2 DEF ShutdownExecutor
<1>11. CASE UNCHANGED vars
  BY <1>11 DEF vars, AssociationInv, AssociationExact
<1> QED BY <1>3, <1>4, <1>5, <1>6, <1>7, <1>8, <1>9, <1>10, <1>11
        DEF Next, GenerateStep, Halted

\* While a script runs, signals_hash holds exactly the signals of its request,
\* each under its own id.
THEOREM AssociationsExact == Spec => []AssociationExact
<1>1. AssociationInv => AssociationExact
  BY DEF AssociationInv
<1> QED BY <1>1, AssociationInit, AssociationStep, InvHolds, PTL DEF Spec

-----------------------------------------------------------------------------
\* What is registered in the process is changed by nothing but the generate()
\* that registers it.
THEOREM RegistrationFinal == Spec => RegistrationIsFinal
<1>1. Inv /\ [Next]_vars =>
        [\A n \in TypeNames :
            supers[n] # {} /\ (generating # Null => generating.name # n) =>
                ClassUntouched(n)]_vars
  <2> SUFFICES ASSUME Inv, [Next]_vars,
                      NEW n \in TypeNames, supers[n] # {},
                      generating # Null => generating.name # n
               PROVE  ClassUntouched(n)
    OBVIOUS
  <2>1. ASSUME UNCHANGED <<supers, vfuncs, gsignal, closure>>
        PROVE  ClassUntouched(n)
    BY <2>1 DEF ClassUntouched
  <2>2. ASSUME NEW why, Crash(why)
        PROVE  ClassUntouched(n)
    BY <2>1, <2>2 DEF Crash
  <2>3. CASE RInit \/ ShutdownExecutor \/ UNCHANGED vars
    BY <2>1, <2>2, <2>3 DEF RInit, ShutdownExecutor, vars
  <2>4. CASE SignalStep
    BY <2>1, <2>2, <2>4
    DEF SignalStep, NewSignal, WriteFlags, SignalClone, DropSignal
  <2>5. CASE \E t \in TypeObjs : Generate(t)
    <3>1. PICK t \in TypeObjs : Generate(t)
      BY <2>5
    <3>2. CASE Crash("uninitialised name")
      BY <2>2, <3>2
    <3>3. CASE ~Crash("uninitialised name")
      <4>1. UNCHANGED <<vfuncs, gsignal, closure>>
        BY <3>1, <3>3 DEF Generate
      <4>2. PICK m \in TypeNames \cup {Null} : GenerateAs(t, m)
        BY <3>1, <3>3 DEF Generate, Inv, TypeOK, TypeObj
      <4>3. \/ UNCHANGED supers
            \/ /\ ~IsTaken(m) /\ m # Null
               /\ supers' = [supers EXCEPT ![m] =
                                SupersOf(type_object[t].parent) \cup {m}]
        BY <4>2 DEF GenerateAs, RegisterStatic
      <4>4. ~IsTaken(m) /\ m # Null => m # n
        BY ConstantsAssumption DEF IsTaken, Registered, SupersOf
      <4>5. supers'[n] = supers[n]
        BY <4>3, <4>4 DEF Inv, TypeOK
      <4> QED BY <4>1, <4>5 DEF ClassUntouched
    <3> QED BY <3>2, <3>3
  <2>6. CASE TypeStep /\ ~ \E t \in TypeObjs : Generate(t)
    BY <2>1, <2>2, <2>6
    DEF TypeStep, NewType, WriteName, WriteParent, WriteSignal, DropType, Import
  <2>7. CASE \E k \in Keys : RegisterSignal(k)
    <3>1. PICK key \in Keys : RegisterSignal(key)
      BY <2>7
    <3> DEFINE id == <<generating.name, key>>
    <3>2. /\ generating # Null
          /\ UNCHANGED <<supers, vfuncs>>
          /\ \/ gsignal' = gsignal
             \/ \E v : gsignal' = [gsignal EXCEPT ![id] = v]
          /\ \/ closure' = closure
             \/ \E v : closure' = [closure EXCEPT ![id] = v]
      BY <3>1 DEF RegisterSignal
    <3>3. \A k \in Keys : <<n, k>> # id /\ <<n, k>> \in Ids
      BY <3>2 DEF Ids
    <3> HIDE DEF id
    <3>4. \A k \in Keys : /\ gsignal'[<<n, k>>] = gsignal[<<n, k>>]
                          /\ closure'[<<n, k>>] = closure[<<n, k>>]
      BY <3>2, <3>3 DEF Inv, TypeOK
    <3> QED BY <3>2, <3>4 DEF ClassUntouched
  <2>8. CASE InstallProperties
    BY <2>8 DEF InstallProperties, ClassUntouched
  <2>9. CASE \E id \in Ids : Accumulate(id)
    BY <2>1, <2>2, <2>9 DEF Accumulate
  <2>10. CASE RShutdown
    <3>1. \A id \in Ids : closure[id] = "invalid" => closure'[id] = "invalid"
      BY <2>10 DEF RShutdown, InvalidateClassClosures
    <3> QED BY <2>10, <3>1 DEF RShutdown, ClassUntouched, Ids
  <2> QED BY <2>3, <2>4, <2>5, <2>6, <2>7, <2>8, <2>9, <2>10
          DEF Next, GenerateStep, Halted
<1> QED BY <1>1, InvHolds, PTL DEF Spec, RegistrationIsFinal

-----------------------------------------------------------------------------
\* The signal that php_gobject_closure_accumulator finds no object for was
\* registered by an earlier request: the ones of this request are associated for
\* as long as a script can make anything emit them.
THEOREM AccumulatorFindsNew == Spec => AccumulatorMissesOnlyOld
<1>1. Inv /\ AssociationInv /\ [Next]_vars =>
        [\A id \in Ids : Accumulate(id) /\ phase' = "crashed" => born[id] < request]_vars
  <2> SUFFICES ASSUME Inv, AssociationInv, NEW id \in Ids, Accumulate(id), phase' = "crashed"
               PROVE  born[id] < request
    BY Zenon
  <2>1. phase = "active" /\ gsignal[id] = "accu" /\ signals_hash[id] = Null
    BY DEF Accumulate, Running, SignalGetById
  <2>2. born[id] # request /\ born[id] <= request
    BY <2>1 DEF AssociationInv, AssociationExact
  <2>3. born[id] \in Nat /\ request \in Nat
    BY ConstantsAssumption DEF Inv, TypeOK
  <2> QED BY <2>2, <2>3
<1> QED BY <1>1, AssociationInit, AssociationStep, InvHolds, PTL
        DEF Spec, AccumulatorMissesOnlyOld

\* A step that frees objects leaves those that are registered.
LEMMA ReleaseKeepsRegistered ==
    ASSUME Inv, AssociationExact, phase \in {"active", "fatal"},
           NEW sv, NEW objs, Release(sv, objs, signals_hash),
           NEW s \in SigObjs, signal_object[s] # Null, signal_object[s].signal_id # Null
    PROVE  signal_object'[s] = signal_object[s]
<1> DEFINE id == signal_object[s].signal_id
<1>1. id \in Ids /\ signals_hash[id] = s
  BY DEF Inv, TypeOK, Signal, AssociationExact
<1>2. s # Null
  BY NullAssumption
<1> QED BY <1>1, <1>2, ReleaseKeepsAssociations

\* A Signal object keeps the id generate() gave it, and its place in memory, as
\* long as the script runs: php_gobject_store_signal_association
\* (gobject_signal_class.c:116) has a reference of its own to it.
THEOREM RegisteredIsKept == Spec => RegisteredSignalIsKept
<1>1. Inv /\ AssociationInv /\ [Next]_vars =>
        [\A s \in SigObjs :
            /\ signal_object[s] # Null
            /\ signal_object[s].signal_id # Null
            /\ phase' \in {"active", "fatal"}
            => /\ signal_object'[s] # Null
               /\ signal_object'[s].signal_id = signal_object[s].signal_id]_vars
  <2> SUFFICES ASSUME Inv, AssociationInv, Next, NEW s \in SigObjs,
                      signal_object[s] # Null, signal_object[s].signal_id # Null,
                      phase' \in {"active", "fatal"}
               PROVE  /\ signal_object'[s] # Null
                      /\ signal_object'[s].signal_id = signal_object[s].signal_id
    BY Zenon
  <2> USE DEF Inv, TypeOK
  <2>1. ASSUME NEW why, Crash(why) PROVE FALSE
    BY <2>1 DEF Crash
  <2>2. ASSUME signal_object'[s] = signal_object[s]
        PROVE  /\ signal_object'[s] # Null
               /\ signal_object'[s].signal_id = signal_object[s].signal_id
    BY <2>2
  <2>3. CASE SignalStep
    <3>1. ASSUME NEW x \in SigObjs, NEW attr \in SignalArgs, NewSignal(x, attr)
          PROVE  signal_object'[s] = signal_object[s]
      BY <3>1 DEF NewSignal
    <3>2. ASSUME NEW x \in SigObjs, NEW f \in {"run_first", "other"}, WriteFlags(x, f)
          PROVE  /\ signal_object'[s] # Null
                 /\ signal_object'[s].signal_id = signal_object[s].signal_id
      <4>1. CASE x # s
        <5>1. signal_object'[s] = signal_object[s]
          BY <3>2, <4>1 DEF WriteFlags
        <5> QED BY <2>2, <5>1
      <4>2. CASE x = s
        <5>1. signal_object'[s] = [attr |-> [signal_object[s].attr EXCEPT !.flags = f],
                                   signal_id |-> signal_object[s].signal_id]
          BY <3>2, <4>2 DEF WriteFlags
        <5>2. signal_object[s] \in Signal
          OBVIOUS
        <5>3. signal_object'[s] \in Signal
          BY <5>1, <5>2 DEF Signal, Attributes
        <5> QED BY <5>1, <5>3, NullAssumption DEF Signal
      <4> QED BY <4>1, <4>2
    <3>3. ASSUME NEW x \in SigObjs, NEW c \in SigObjs, SignalClone(x, c)
          PROVE  signal_object'[s] = signal_object[s]
      BY <2>1, <3>3 DEF SignalClone
    <3>4. ASSUME NEW x \in SigObjs, DropSignal(x)
          PROVE  signal_object'[s] = signal_object[s]
      BY <3>4, ReleaseKeepsRegistered DEF DropSignal, Running, AssociationInv
    <3> QED BY <2>2, <2>3, <3>1, <3>2, <3>3, <3>4 DEF SignalStep
  <2>4. CASE TypeStep
    <3>1. ASSUME NEW t \in TypeObjs, NEW k \in Keys, NEW x \in SigObjs \cup {Null},
                 WriteSignal(t, k, x)
          PROVE  signal_object'[s] = signal_object[s]
      BY <3>1, ReleaseKeepsRegistered DEF WriteSignal, Running, AssociationInv
    <3>2. ASSUME NEW t \in TypeObjs, DropType(t)
          PROVE  signal_object'[s] = signal_object[s]
      BY <2>1, <3>2, ReleaseKeepsRegistered DEF DropType, Running, AssociationInv
    <3>3. CASE \E t \in TypeObjs : Generate(t)
      BY <2>1, <3>3 DEF Generate
    <3>4. CASE /\ ~(\E t \in TypeObjs : Generate(t)) /\ ~(\E t \in TypeObjs : DropType(t))
               /\ ~(\E t \in TypeObjs, k \in Keys, x \in SigObjs \cup {Null} : WriteSignal(t, k, x))
      BY <2>1, <2>4, <3>4 DEF TypeStep, NewType, WriteName, WriteParent, Import
    <3> QED BY <2>2, <3>1, <3>2, <3>3, <3>4
  <2>5. CASE \E k \in Keys : RegisterSignal(k)
    <3>1. PICK key \in Keys : RegisterSignal(key)
      BY <2>5
    <3> DEFINE x  == type_object[generating.obj].signals[key]
               id == <<generating.name, key>>
    <3>2. CASE signal_object' = signal_object
      BY <2>2, <3>2
    <3>3. CASE signal_object' # signal_object
      <4>1. /\ signal_object[x].signal_id = Null
            /\ signal_object' = [signal_object EXCEPT ![x].signal_id = id]
        BY <3>1, <3>3 DEF RegisterSignal
      <4>2. x # s
        BY <4>1
      <4> HIDE DEF x, id
      <4>3. signal_object'[s] = signal_object[s]
        BY <4>1, <4>2
      <4> QED BY <2>2, <4>3
    <3> QED BY <3>2, <3>3
  <2>6. CASE InstallProperties \/ RInit \/ Halted
    BY <2>2, <2>6 DEF InstallProperties, RInit, Halted, vars, objectVars
  <2>7. CASE RShutdown \/ ShutdownExecutor
    BY <2>1, <2>7 DEF RShutdown, ShutdownExecutor
  <2>8. CASE \E id \in Ids : Accumulate(id)
    <3>1. signal_object'[s] = signal_object[s]
      BY <2>1, <2>8 DEF Accumulate, objectVars
    <3> QED BY <2>2, <3>1
  <2> QED BY <2>3, <2>4, <2>5, <2>6, <2>7, <2>8 DEF Next, GenerateStep
<1> QED BY <1>1, AssociationInit, AssociationStep, InvHolds, PTL
        DEF Spec, RegisteredSignalIsKept
=============================================================================
