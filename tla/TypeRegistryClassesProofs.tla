---------------------- MODULE TypeRegistryClassesProofs ----------------------
(***************************************************************************)
(* Proofs about the classes of TypeRegistry and the signals along a line   *)
(* of ancestors, for every value of its constants.                         *)
(***************************************************************************)
EXTENDS TypeRegistryProofs

USE DEF processVars, tableVars, objectVars

-----------------------------------------------------------------------------
\* A type that is registered is among its own ancestors, and ancestors are
\* registered with all of theirs: GLib's hierarchy is closed upwards.
AncestryClosed ==
    /\ \A n \in TypeNames : supers[n] # {} => n \in supers[n]
    /\ \A n \in Types : \A p \in SupersOf(n) :
            /\ p \in Types /\ SupersOf(p) # {}
            /\ SupersOf(p) \subseteq SupersOf(n)

\* Nobody derives from a class while its generate() is under way.
GeneratedIsLeaf ==
    generating # Null =>
        \A n \in TypeNames : generating.name \in supers[n] => n = generating.name

\* Signals belong to types that are registered.
SignalsHaveTypes ==
    \A n \in TypeNames : \A k \in Keys : gsignal[<<n, k>>] # "absent" => supers[n] # {}

LineInv ==
    /\ AncestryClosed /\ ClassesClosed
    /\ GeneratedIsLeaf /\ SignalsHaveTypes /\ SignalNamesUnique

\* What generate() does to the hierarchy: a name that was free becomes a type
\* below its parent, and a class if the parent is one.
Derives(name, parent) ==
    /\ supers[name] = {}
    /\ supers' = [supers EXCEPT ![name] = SupersOf(parent) \cup {name}]
    /\ \/ classes' = classes
       \/ parent \in classes /\ classes' = classes \cup {name}

\* What import() does to it.
Imports(type) == classes' = classes \cup SupersOf(type)

-----------------------------------------------------------------------------
\* Only generate() makes types, and only generate() and import() make classes.
LEMMA HierarchySteps ==
    ASSUME Inv, [Next]_vars
    PROVE  \/ UNCHANGED <<supers, classes>>
           \/ UNCHANGED supers /\ \E type \in Types : SupersOf(type) # {} /\ Imports(type)
           \/ /\ generating = Null /\ UNCHANGED gsignal
              /\ \E name \in TypeNames : \E parent \in Types :
                    /\ Derives(name, parent)
                    /\ generating' # Null => generating'.name = name
<1>1. ASSUME NEW why, Crash(why) PROVE UNCHANGED <<supers, classes>>
  BY <1>1 DEF Crash
<1>2. CASE SignalStep
  BY <1>1, <1>2 DEF SignalStep, NewSignal, WriteFlags, SignalClone, DropSignal
<1>3. CASE \E t \in TypeObjs : Generate(t)
  <2>1. PICK t \in TypeObjs : Generate(t)
    BY <1>3
  <2>2. CASE Crash("uninitialised name")
    BY <1>1, <2>2
  <2>3. CASE ~Crash("uninitialised name")
    <3>1. type_object[t] \in TypeObj /\ generating = Null /\ UNCHANGED gsignal
      BY <2>1, <2>3 DEF Generate, Running, Inv, TypeOK
    <3>2. PICK name \in TypeNames \cup {Null} : GenerateAs(t, name)
      BY <2>1, <2>3, <3>1 DEF Generate, TypeObj
    <3> DEFINE parent == type_object[t].parent
    <3>3. CASE IsTaken(name) \/ ~RegisterStatic(name, parent)
      BY <3>2, <3>3 DEF GenerateAs
    <3>4. CASE ~IsTaken(name) /\ RegisterStatic(name, parent)
      <4>1. name \in TypeNames /\ parent \in Types /\ supers[name] = {}
        BY <3>2, <3>4, ConstantsAssumption
        DEF IsTaken, Registered, RegisterStatic, SupersOf, Types
      <4>2. supers' = [supers EXCEPT ![name] = SupersOf(parent) \cup {name}]
        BY <3>2, <3>4 DEF GenerateAs
      <4>3. CASE HasParentClass(parent)
        <5>0. PICK keys :
                  /\ classes' = classes \cup {name}
                  /\ generating' = [obj |-> t, name |-> name, todo |-> keys]
          BY <3>2, <3>4, <4>3 DEF GenerateAs, HasParentClass
        <5>1. classes' = classes \cup {name} /\ generating'.name = name
          BY <5>0
        <5>2. Derives(name, parent)
          BY <4>1, <4>2, <4>3, <5>1 DEF HasParentClass, Derives
        <5> QED BY <3>1, <4>1, <5>1, <5>2
      <4>4. CASE ~HasParentClass(parent)
        BY <3>1, <3>2, <3>4, <4>1, <4>2, <4>4 DEF GenerateAs, Derives
      <4> QED BY <4>3, <4>4
    <3> QED BY <3>3, <3>4
  <2> QED BY <2>2, <2>3
<1>4. CASE \E p \in Types : Import(p)
  BY <1>4 DEF Import, Registered, Imports
<1>5. CASE TypeStep /\ ~(\E t \in TypeObjs : Generate(t)) /\ ~(\E p \in Types : Import(p))
  BY <1>1, <1>5 DEF TypeStep, NewType, WriteName, WriteParent, WriteSignal, DropType
<1>6. CASE GenerateStep
  BY <1>6 DEF GenerateStep, RegisterSignal, InstallProperties
<1>7. CASE RInit \/ RShutdown \/ ShutdownExecutor \/ UNCHANGED vars
  BY <1>1, <1>7 DEF RInit, RShutdown, ShutdownExecutor, vars
<1>8. CASE \E id \in Ids : Accumulate(id)
  BY <1>1, <1>8 DEF Accumulate
<1> QED BY <1>2, <1>3, <1>4, <1>5, <1>6, <1>7, <1>8 DEF Next, TypeStep, Halted

\* At first there are GLib's own types, and a class of the root.
LEMMA LineInit == Init => LineInv
<1> SUFFICES ASSUME Init PROVE LineInv
  OBVIOUS
<1>1. AncestryClosed
  BY ConstantsAssumption DEF Init, AncestryClosed, SupersOf, Types
<1>2. ClassesClosed
  BY ConstantsAssumption, RootAssumption DEF Init, ClassesClosed, SupersOf
<1>3. GeneratedIsLeaf
  BY DEF Init, GeneratedIsLeaf
<1>4. SignalsHaveTypes /\ SignalNamesUnique
  BY DEF Init, SignalsHaveTypes, SignalNamesUnique, Ids
<1> QED BY <1>1, <1>2, <1>3, <1>4 DEF LineInv
\* generate() and import() keep the hierarchy and the classes closed.
LEMMA ClosedStep ==
    ASSUME Inv, AncestryClosed, ClassesClosed, [Next]_vars
    PROVE  AncestryClosed' /\ ClassesClosed'
<1>1. CASE UNCHANGED <<supers, classes>>
  BY <1>1 DEF AncestryClosed, ClassesClosed, SupersOf
<1>2. CASE UNCHANGED supers /\ \E type \in Types : SupersOf(type) # {} /\ Imports(type)
  <2>1. \A n \in Types : SupersOf(n)' = SupersOf(n)
    BY <1>2 DEF SupersOf
  <2>2. PICK type \in Types : SupersOf(type) # {} /\ classes' = classes \cup SupersOf(type)
    BY <1>2 DEF Imports
  <2>3. classes \subseteq Types /\ SupersOf(type) \subseteq Types
    BY DEF Inv, TypeOK, AncestryClosed
  <2>4. \A n \in SupersOf(type) : SupersOf(n) # {} /\ SupersOf(n) \subseteq SupersOf(type)
    BY DEF AncestryClosed
  <2>5. \A n \in classes' : SupersOf(n) # {} /\ SupersOf(n) \subseteq classes'
    BY <2>2, <2>4 DEF ClassesClosed
  <2>6. \A n \in classes' : SupersOf(n)' = SupersOf(n)
    BY <2>1, <2>2, <2>3
  <2>7. ClassesClosed'
    BY <2>5, <2>6 DEF ClassesClosed
  <2> QED BY <1>2, <2>1, <2>7 DEF AncestryClosed
<1>3. CASE \E name \in TypeNames : \E parent \in Types : Derives(name, parent)
  <2>1. PICK name \in TypeNames, parent \in Types : Derives(name, parent)
    BY <1>3
  <2>2. SupersOf(name) = {} /\ supers \in [TypeNames -> SUBSET Types] /\ name \in Types
    BY <2>1, ConstantsAssumption DEF Derives, SupersOf, Inv, TypeOK, Types
  <2>3. SupersOf(name)' = SupersOf(parent) \cup {name}
    BY <2>1, <2>2, ConstantsAssumption DEF Derives, SupersOf
  <2>4. \A n \in Types \ {name} : SupersOf(n)' = SupersOf(n)
    BY <2>1, <2>2 DEF Derives, SupersOf, Types
  <2>5. \A n \in Types : name \notin SupersOf(n)
    BY <2>2 DEF AncestryClosed
  <2>6. \A n \in Types : SupersOf(n) \subseteq Types
    BY DEF AncestryClosed
  <2>7. AncestryClosed'
    <3>1. \A n \in TypeNames : supers'[n] # {} => n \in supers'[n]
      BY <2>1, <2>2 DEF Derives, AncestryClosed
    <3>2. ASSUME NEW n \in Types \ {name}, NEW p \in SupersOf(n)'
          PROVE  /\ p \in Types /\ SupersOf(p)' # {}
                 /\ SupersOf(p)' \subseteq SupersOf(n)'
      <4>1. p \in SupersOf(n) /\ p # name /\ p \in Types
        BY <2>4, <2>5, <2>6, <3>2
      <4>2. SupersOf(p)' = SupersOf(p) /\ SupersOf(n)' = SupersOf(n)
        BY <2>4, <4>1
      <4> QED BY <4>1, <4>2 DEF AncestryClosed
    <3>3. ASSUME NEW p \in SupersOf(name)'
          PROVE  /\ p \in Types /\ SupersOf(p)' # {}
                 /\ SupersOf(p)' \subseteq SupersOf(name)'
      <4>1. CASE p = name
        BY <2>2, <2>3, <4>1
      <4>2. CASE p # name
        <5>1. p \in SupersOf(parent) /\ p \in Types
          BY <2>3, <2>6, <3>3, <4>2
        <5>2. SupersOf(p)' = SupersOf(p)
          BY <2>4, <4>2, <5>1
        <5> QED BY <2>3, <5>1, <5>2 DEF AncestryClosed
      <4> QED BY <4>1, <4>2
    <3> QED BY <3>1, <3>2, <3>3 DEF AncestryClosed
  <2>8. classes \subseteq Types /\ name \notin classes
    BY <2>2 DEF Inv, TypeOK, ClassesClosed
  <2>9. \A n \in classes : SupersOf(n)' # {} /\ SupersOf(n)' \subseteq classes
    BY <2>4, <2>8 DEF ClassesClosed
  <2>10. CASE classes' = classes
    BY <2>7, <2>9, <2>10 DEF ClassesClosed
  <2>11. CASE parent \in classes /\ classes' = classes \cup {name}
    <3>1. SupersOf(name)' # {} /\ SupersOf(name)' \subseteq classes'
      BY <2>3, <2>11 DEF ClassesClosed
    <3> QED BY <2>7, <2>9, <2>11, <3>1 DEF ClassesClosed
  <2> QED BY <2>1, <2>7, <2>10, <2>11 DEF Derives
<1> QED BY <1>1, <1>2, <1>3, HierarchySteps

-----------------------------------------------------------------------------
\* A signal comes to a type that generate() is working on, after the names of
\* the ancestors were looked at; else no signal changes.
LEMMA SignalSteps ==
    ASSUME Inv, [Next]_vars
    PROVE  \/ UNCHANGED gsignal
           \/ /\ generating # Null /\ UNCHANGED supers
              /\ generating.name \in TypeNames
              /\ \E key \in Keys : \E v :
                    /\ gsignal' = [gsignal EXCEPT ![<<generating.name, key>>] = v]
                    /\ ~SignalExists(generating.name, key)
<1>1. ASSUME NEW why, Crash(why) PROVE UNCHANGED gsignal
  BY <1>1 DEF Crash
<1>2. CASE SignalStep
  BY <1>1, <1>2 DEF SignalStep, NewSignal, WriteFlags, SignalClone, DropSignal
<1>3. CASE TypeStep
  BY <1>1, <1>3 DEF TypeStep, NewType, WriteName, WriteParent, WriteSignal, DropType,
                    Import, Generate
<1>4. CASE \E k \in Keys : RegisterSignal(k)
  <2>1. PICK key \in Keys : RegisterSignal(key)
    BY <1>4
  <2>2. generating # Null /\ UNCHANGED supers
    BY <2>1 DEF RegisterSignal
  <2>3. generating.name \in TypeNames
    BY <2>2 DEF Inv, TypeOK, Generation
  <2>4. \/ gsignal' = gsignal
        \/ \E v : /\ gsignal' = [gsignal EXCEPT ![<<generating.name, key>>] = v]
                  /\ ~SignalExists(generating.name, key)
    BY <2>1 DEF RegisterSignal, SignalAccepted
  <2> QED BY <2>2, <2>3, <2>4
<1>5. CASE InstallProperties \/ RInit \/ RShutdown \/ ShutdownExecutor \/ UNCHANGED vars
  BY <1>1, <1>5 DEF InstallProperties, RInit, RShutdown, ShutdownExecutor, vars
<1>6. CASE \E id \in Ids : Accumulate(id)
  BY <1>1, <1>6 DEF Accumulate
<1> QED BY <1>2, <1>3, <1>4, <1>5, <1>6 DEF Next, GenerateStep, Halted

\* A generate() that goes on is of the type that it began with.
LEMMA GenerationSteps ==
    ASSUME Inv, [Next]_vars, generating # Null, generating' # Null
    PROVE  generating'.name = generating.name /\ UNCHANGED supers
<1>1. ~Running
  BY DEF Running
<1>2. phase = "active" /\ generating \in Generation
  BY DEF Inv, GenerationLive, TypeOK
<1>3. CASE GenerateStep
  BY <1>2, <1>3 DEF GenerateStep, RegisterSignal, InstallProperties, Generation
<1>4. CASE UNCHANGED vars
  BY <1>4 DEF vars
<1>5. CASE SignalStep \/ TypeStep
  BY <1>1, <1>2, <1>5 DEF SignalStep, NewSignal, WriteFlags, SignalClone, DropSignal,
     TypeStep, NewType, WriteName, WriteParent, WriteSignal, DropType, Import, Generate
<1>6. CASE RInit \/ RShutdown \/ ShutdownExecutor \/ \E id \in Ids : Accumulate(id)
  BY <1>1, <1>2, <1>6 DEF RInit, RShutdown, ShutdownExecutor, Accumulate
<1> QED BY <1>3, <1>4, <1>5, <1>6 DEF Next, Halted

\* Signals keep to types, and their names unique along each line of ancestors.
LEMMA NamesStep ==
    ASSUME Inv, LineInv, [Next]_vars
    PROVE  GeneratedIsLeaf' /\ SignalsHaveTypes' /\ SignalNamesUnique'
<1>0. /\ supers \in [TypeNames -> SUBSET Types]
      /\ gsignal \in [Ids -> {"absent", "plain", "accu"}]
      /\ \A n \in TypeNames : \A k \in Keys : <<n, k>> \in Ids
  BY DEF Inv, TypeOK, Ids
<1>1. CASE UNCHANGED <<supers, gsignal>>
  <2>1. SignalsHaveTypes' /\ SignalNamesUnique'
    BY <1>1 DEF LineInv, SignalsHaveTypes, SignalNamesUnique
  <2>2. GeneratedIsLeaf'
    <3>1. CASE generating # Null
      BY <1>1, <3>1, GenerationSteps DEF LineInv, GeneratedIsLeaf
    <3>2. CASE generating = Null /\ generating' # Null
      <4>1. PICK t \in TypeObjs : Generate(t)
        BY <3>2 DEF Next, SignalStep, NewSignal, WriteFlags, SignalClone, DropSignal,
           TypeStep, NewType, WriteName, WriteParent, WriteSignal, DropType, Import,
           GenerateStep, RegisterSignal, InstallProperties, RInit, RShutdown,
           ShutdownExecutor, Accumulate, Crash, Halted, vars
      <4>a. type_object[t] \in TypeObj /\ ~Crash("uninitialised name")
        BY <3>2, <4>1 DEF Generate, Inv, TypeOK, Crash
      <4>2. PICK name \in TypeNames \cup {Null} : GenerateAs(t, name)
        BY <4>1, <4>a DEF Generate, TypeObj
      <4>3. ~IsTaken(name) /\ name \in TypeNames
        BY <3>2, <4>2 DEF GenerateAs, RegisterStatic
      <4>4. supers' = [supers EXCEPT ![name] = SupersOf(type_object[t].parent) \cup {name}]
        BY <3>2, <4>2 DEF GenerateAs
      <4>5. supers[name] = {} /\ name \in supers'[name]
        BY <1>0, <4>3, <4>4, ConstantsAssumption, NullAssumption
        DEF IsTaken, Registered, SupersOf, Types
      <4> QED BY <1>1, <4>5
    <3> QED BY <3>1, <3>2 DEF GeneratedIsLeaf
  <2> QED BY <2>1, <2>2
<1>2. CASE generating = Null /\ UNCHANGED gsignal
           /\ \E name \in TypeNames : \E parent \in Types :
                 /\ Derives(name, parent)
                 /\ generating' # Null => generating'.name = name
  <2>1. PICK name \in TypeNames, parent \in Types :
            /\ Derives(name, parent)
            /\ generating' # Null => generating'.name = name
    BY <1>2
  <2>2. SupersOf(name) = {} /\ name \in Types
    BY <2>1, ConstantsAssumption DEF Derives, SupersOf, Types
  <2>3. \A n \in TypeNames : name \notin supers[n]
    BY <2>2, ConstantsAssumption DEF LineInv, AncestryClosed, SupersOf, Types
  <2>4. /\ \A n \in TypeNames \ {name} : supers'[n] = supers[n]
        /\ name \in supers'[name]
    BY <1>0, <2>1 DEF Derives
  <2>5. \A k \in Keys : gsignal[<<name, k>>] = "absent"
    BY <2>1 DEF Derives, LineInv, SignalsHaveTypes
  <2>6. GeneratedIsLeaf'
    BY <2>1, <2>3, <2>4 DEF GeneratedIsLeaf
  <2>7. SignalsHaveTypes'
    BY <1>2, <2>4 DEF LineInv, SignalsHaveTypes
  <2>8. SignalNamesUnique'
    BY <1>2, <2>4, <2>5 DEF LineInv, SignalNamesUnique
  <2> QED BY <2>6, <2>7, <2>8
<1>3. CASE /\ generating # Null /\ UNCHANGED supers
           /\ generating.name \in TypeNames
           /\ \E key \in Keys : \E v :
                 /\ gsignal' = [gsignal EXCEPT ![<<generating.name, key>>] = v]
                 /\ ~SignalExists(generating.name, key)
  <2> DEFINE name == generating.name
  <2>0. PICK key \in Keys :
            \E v : /\ gsignal' = [gsignal EXCEPT ![<<name, key>>] = v]
                   /\ ~SignalExists(name, key)
    BY <1>3
  <2>1. PICK v : /\ gsignal' = [gsignal EXCEPT ![<<name, key>>] = v]
                 /\ ~SignalExists(name, key)
    BY <2>0
  <2>2. /\ name \in supers[name]
        /\ \A n \in TypeNames : name \in supers[n] => n = name
    BY <1>3 DEF Inv, GenerationLive, LineInv, GeneratedIsLeaf
  <2>3. \A a \in TypeNames : a \in supers[name] => gsignal[<<a, key>>] = "absent"
    BY <1>3, <2>1, ConstantsAssumption DEF SignalExists, SupersOf
  <2>4. \A n \in TypeNames : \A k \in Keys :
            n # name \/ k # key => gsignal'[<<n, k>>] = gsignal[<<n, k>>]
    BY <1>0, <2>1
  <2>5. GeneratedIsLeaf'
    BY <1>3, GenerationSteps DEF LineInv, GeneratedIsLeaf
  <2>6. SignalsHaveTypes'
    BY <1>3, <2>2, <2>4 DEF LineInv, SignalsHaveTypes
  <2>7. SignalNamesUnique'
    <3> HIDE DEF name
    <3> QED BY <1>3, <2>2, <2>3, <2>4 DEF LineInv, SignalNamesUnique
  <2> QED BY <2>5, <2>6, <2>7
<1> QED BY <1>1, <1>2, <1>3, HierarchySteps, SignalSteps

\* Every class has its ancestors and every line of them its signal names once.
LEMMA LineStep == Inv /\ LineInv /\ [Next]_vars => LineInv'
BY ClosedStep, NamesStep DEF LineInv

\* Whatever way a PHP class came to exist, its type is registered and every
\* ancestor has a class: generate() and import() can rely on the lookup of the
\* parent, also after a generate() that failed half way.
THEOREM ClassesAreClosed == Spec => []ClassesClosed
<1>1. LineInv => ClassesClosed
  BY DEF LineInv
<1> QED BY <1>1, LineInit, LineStep, InvHolds, PTL DEF Spec

\* No type and no ancestor of it have a signal of the same name: generate() looks
\* for the name upwards only, and nobody derives from a class before it is done.
THEOREM SignalNamesAreUnique == Spec => []SignalNamesUnique
<1>1. LineInv => SignalNamesUnique
  BY DEF LineInv
<1> QED BY <1>1, LineInit, LineStep, InvHolds, PTL DEF Spec
=============================================================================
