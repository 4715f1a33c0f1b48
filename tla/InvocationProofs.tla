-------------------------- MODULE InvocationProofs --------------------------
(***************************************************************************)
(* Proofs about Invocation: what a call may read and write, for every set  *)
(* of functions, any number of variables and zvals, and every bound.       *)
(***************************************************************************)
EXTENDS Invocation, ConversionProofs, FiniteSetTheorems, WellFoundedInduction

\* Zvals that are there hold a value and count at least one reference.
ZvalsTyped == zval \in [Cells -> Zval \cup {None}]

\* A call has at least as many arguments as its function requires, all alive.
CallSound ==
    call # NoCall =>
        /\ call = [f |-> call.f, args |-> call.args, at |-> call.at, given |-> call.given,
                   slot |-> call.slot]
        /\ call.f \in Functions
        /\ call.args \in Seq(Cells) /\ Required(call.f) <= Len(call.args)
        /\ call.at \in 1 .. Len(call.f.params) + 1
        /\ call.slot = [i \in Params(call.f) |-> call.slot[i]]
        /\ \A i \in DOMAIN call.args : Alive(call.args[i])

Inv ==
    /\ NamesTypeOK
    /\ phase \in {"running", "dead"}
    /\ var \in [Vars -> Cells \cup {None}]
    /\ converted \subseteq Cells
    /\ ZvalsTyped /\ CallSound

\* The invariant contains the types.
LEMMA InvTypes == Inv => TypeOK
BY DEF Inv, TypeOK, ZvalsTyped, CallSound

-----------------------------------------------------------------------------
(* Counting parameters and references *)

\* A sequence has each element a number of times.
LEMMA TimesNat ==
    ASSUME NEW S, NEW s \in Seq(S), NEW c PROVE Times(c, s) \in Nat
<1>1. IsFiniteSet(DOMAIN s)
  BY FS_Interval
<1> QED BY <1>1, FS_Subset, FS_CardinalityType DEF Times

\* A function requires as many arguments as it has parameters that are not
\* optional, so at least one up to a position beyond them is optional.
LEMMA BeyondIsOptional ==
    ASSUME NEW f \in Functions, NEW n \in Nat, Required(f) <= n,
           NEW k \in Params(f), k > n
    PROVE  \E j \in 1 .. k : f.params[j].optional
<1> DEFINE R == {i \in Params(f) : ~f.params[i].optional}
<1>1. Params(f) = 1 .. Len(f.params) /\ Len(f.params) \in Nat
  <2>1. f.params \in Seq([out : BOOLEAN, optional : BOOLEAN, tag : Tags])
    BY InvocationAssumption
  <2> QED BY <2>1 DEF Params
<1>2. IsFiniteSet(R)
  <2>1. IsFiniteSet(Params(f))
    <3>1. 1 \in Int /\ Len(f.params) \in Int
      BY <1>1
    <3>2. IsFiniteSet(1 .. Len(f.params))
      BY <3>1, FS_Interval
    <3> QED BY <1>1, <3>2
  <2> QED BY <2>1, R \subseteq Params(f), FS_Subset
<1>3. SUFFICES ASSUME \A j \in 1 .. k : ~f.params[j].optional PROVE FALSE
  OBVIOUS
<1>4. 1 .. k \subseteq R
  BY <1>1, <1>3
<1>5. k \in Int /\ 1 <= k
  BY <1>1
<1>6. Cardinality(1 .. k) = k
  BY <1>5, FS_Interval
<1>7. Cardinality(1 .. k) <= Cardinality(R) /\ Cardinality(R) \in Nat
  BY <1>2, <1>4, FS_Subset, FS_CardinalityType
<1>8. Required(f) = Cardinality(R)
  BY DEF Required
<1> HIDE DEF R
<1> QED BY <1>5, <1>6, <1>7, <1>8

\* What is given back, where there is enough of it, leaves zvals that count.
LEMMA ReleasedTyped ==
    ASSUME ZvalsTyped, NEW n \in [Cells -> Nat], ~TooMany(n), zval' = Released(n)
    PROVE  ZvalsTyped'
<1> SUFFICES ASSUME NEW c \in Cells PROVE zval'[c] \in Zval \cup {None}
  BY DEF ZvalsTyped, Released
<1>1. n[c] \in Nat /\ n[c] <= Refs(c) /\ Refs(c) \in Nat
  BY DEF TooMany, Refs, ZvalsTyped, Zval, Alive
<1>2. CASE n[c] = 0 \/ n[c] = zval[c].refs
  BY <1>2 DEF Released, ZvalsTyped
<1>3. CASE n[c] # 0 /\ n[c] # zval[c].refs
  <2>1. zval[c] \in Zval /\ Refs(c) = zval[c].refs
    BY <1>1, <1>3 DEF Refs, ZvalsTyped, Alive
  <2>2. zval'[c] = [zval[c] EXCEPT !.refs = @ - n[c]]
    BY <1>3 DEF Released
  <2> QED BY <1>1, <1>3, <2>1, <2>2 DEF Zval
<1> QED BY <1>2, <1>3

\* A number comes of every value.
LEMMA AsLongInt == \A z \in Values \cup ({"long"} \X Int) : AsLong(z) \in Int
<1>1. ASSUME NEW z \in Values PROVE AsLong(z) \in Int
  <2>1. /\ z[1] = "long" => z[2] \in Int
        /\ z[1] = "string" => Number(z[2]) \in Int
    BY InvocationAssumption
  <2>2. (IF z[2] THEN 1 ELSE 0) \in Int
    <3>1. CASE z[2]
      BY <3>1
    <3>2. CASE ~z[2]
      BY <3>2
    <3> QED BY <3>1, <3>2
  <2>3. CASE z[1] = "long"
    BY <2>1, <2>3 DEF AsLong
  <2>4. CASE z[1] = "string"
    BY <2>1, <2>4 DEF AsLong
  <2>5. CASE z[1] = "bool"
    BY <2>2, <2>5 DEF AsLong
  <2>6. CASE z[1] \notin {"long", "string", "bool"}
    BY <2>6 DEF AsLong
  <2> QED BY <2>3, <2>4, <2>5, <2>6
<1>2. ASSUME NEW z \in {"long"} \X Int PROVE AsLong(z) \in Int
  <2>1. z[1] = "long" /\ z[2] \in Int
    OBVIOUS
  <2> QED BY <2>1 DEF AsLong
<1> QED BY <1>1, <1>2

-----------------------------------------------------------------------------
(* Steps *)

\* There is nothing to begin with.
LEMMA InitInv == Init => Inv
<1> SUFFICES ASSUME Init PROVE Inv
  OBVIOUS
<1>1. NamesTypeOK
  BY DEF Init, NamesInit, NamesTypeOK
<1>2. ZvalsTyped /\ CallSound
  BY DEF Init, ZvalsTyped, CallSound, Alive
<1> QED BY <1>1, <1>2 DEF Inv, Init

\* A memory error leaves nothing.
LEMMA DieInv == Inv /\ Die /\ UNCHANGED namesVars => Inv'
<1> SUFFICES ASSUME Inv, Die, UNCHANGED namesVars PROVE Inv'
  OBVIOUS
<1>1. NamesTypeOK'
  BY DEF Inv, NamesTypeOK, namesVars, Loaded
<1>2. ZvalsTyped' /\ CallSound'
  BY DEF Die, ZvalsTyped, CallSound, Alive
<1> QED BY <1>1, <1>2 DEF Inv, Die

\* At the end of a call its references are given back, or there are too few.
LEMMA EndInv == Inv /\ call # NoCall /\ phase = "running" /\ End /\ UNCHANGED namesVars => Inv'
<1> SUFFICES ASSUME Inv, call # NoCall, phase = "running", End, UNCHANGED namesVars PROVE Inv'
  OBVIOUS
<1> DEFINE n == [c \in Cells |-> Times(c, call.args)]
<1>1. n \in [Cells -> Nat]
  BY TimesNat DEF Inv, CallSound
<1>2. CASE Die
  BY <1>2, DieInv
<1>3. CASE ~Die
  <2>1. /\ ~TooMany(n) /\ zval' = Released(n) /\ call' = NoCall
        /\ UNCHANGED <<phase, var, converted>>
    BY <1>3 DEF End
  <2> HIDE DEF n
  <2>2. ZvalsTyped'
    BY <1>1, <2>1, ReleasedTyped DEF Inv
  <2>3. CallSound' /\ NamesTypeOK'
    BY <2>1 DEF CallSound, Inv, NamesTypeOK, namesVars, Loaded
  <2> QED BY <2>1, <2>2, <2>3 DEF Inv
<1> QED BY <1>2, <1>3

\* Classes are of types that are registered or of namespaces that are loaded.
LEMMA DeclareInv == Inv /\ Declare => Inv'
<1> SUFFICES ASSUME Inv, Declare PROVE Inv'
  OBVIOUS
<1>1. NamesTypeOK'
  <2>1. CASE \E t \in TypeNames : Generate(t)
    BY <2>1 DEF Generate, Inv, NamesTypeOK, Loaded
  <2>2. CASE \E ns \in {i.ns : i \in Infos} : Load(ns)
    <3>1. PICK ns \in {i.ns : i \in Infos} : Load(ns)
      BY <2>2
    <3>2. /\ namespaces' = namespaces \cup {ns} /\ UNCHANGED types
          /\ Loaded \subseteq Loaded'
          /\ \A i \in Infos : i.ns = ns => i \in Loaded'
      BY <3>1 DEF Load, Loaded
    <3>3. ASSUME NEW k \in ClassNames
          PROVE  class'[k] \in types \cup {i.gtype : i \in Loaded'} \cup {NoType}
      <4> DEFINE I == {i \in Infos : i.ns = ns /\ Fold(Namespaced(i)) = k}
      <4>1. CASE class'[k] = class[k]
        BY <3>2, <4>1 DEF Inv, NamesTypeOK
      <4>2. CASE class'[k] # class[k]
        <5>1. /\ \E i \in Infos : i.ns = ns /\ Fold(Namespaced(i)) = k
              /\ class'[k] = (CHOOSE i \in Infos : i.ns = ns /\ Fold(Namespaced(i)) = k).gtype
          BY <3>1, <4>2 DEF Load
        <5>2. PICK i \in Infos : i.ns = ns /\ class'[k] = i.gtype
          BY <5>1
        <5> QED BY <3>2, <5>2
      <4> QED BY <4>1, <4>2
    <3>4. class' = [k \in ClassNames |-> class'[k]]
      BY <3>1 DEF Load
    <3> QED BY <3>1, <3>2, <3>3, <3>4 DEF Inv, NamesTypeOK
  <2> QED BY <2>1, <2>2 DEF Declare, NamesNext
<1>2. ZvalsTyped' /\ CallSound'
  BY DEF Declare, invocationVars, Inv, ZvalsTyped, CallSound, Alive
<1> QED BY <1>1, <1>2 DEF Inv, Declare, invocationVars

\* The script's own steps keep the counts.
LEMMA ScriptInv ==
    ASSUME Inv, NEW v \in Vars,
           \/ Drop(v) \/ \E z \in Values : Assign(v, z)
           \/ \E w \in Vars : Share(v, w)
    PROVE  Inv'
<1>0. UNCHANGED namesVars /\ call = NoCall /\ phase = "running"
  BY DEF Drop, Assign, Share, Idle
<1>1. NamesTypeOK'
  BY <1>0 DEF Inv, NamesTypeOK, namesVars, Loaded
<1>2. CASE Die
  BY <1>0, <1>2, DieInv
<1>3. CASE Drop(v) /\ ~Die
  <2> DEFINE n == [c \in Cells |-> IF c = var[v] THEN 1 ELSE 0]
  <2>1. n \in [Cells -> Nat]
    OBVIOUS
  <2>2. /\ ~TooMany(n) /\ zval' = Released(n) /\ var' = [var EXCEPT ![v] = None]
        /\ UNCHANGED <<phase, converted, call>>
    BY <1>3 DEF Drop
  <2> HIDE DEF n
  <2>3. ZvalsTyped'
    BY <2>1, <2>2, ReleasedTyped DEF Inv
  <2> QED BY <1>0, <1>1, <2>2, <2>3 DEF Inv, CallSound
<1>4. CASE \E z \in Values : Assign(v, z)
  <2>1. PICK z \in Values, c \in Cells :
            /\ zval' = [zval EXCEPT ![c] = [value |-> z, refs |-> 1]]
            /\ var' = [var EXCEPT ![v] = c]
            /\ converted' = converted \ {c}
            /\ UNCHANGED <<phase, call>>
    BY <1>4 DEF Assign
  <2>2. ZvalsTyped'
    BY <2>1 DEF Inv, ZvalsTyped, Zval
  <2> QED BY <1>0, <1>1, <2>1, <2>2 DEF Inv, CallSound
<1>5. CASE (\E w \in Vars : Share(v, w)) /\ ~Die
  <2>1. PICK w \in Vars :
            /\ var[w] # None /\ Alive(var[w])
            /\ zval' = [zval EXCEPT ![var[w]].refs = @ + 1]
            /\ var' = [var EXCEPT ![v] = var[w]]
            /\ UNCHANGED <<phase, converted, call>>
    BY <1>5 DEF Share
  <2> DEFINE c == var[w]
  <2>2. c \in Cells
    BY <2>1 DEF Inv
  <2>3. zval[c] \in Zval /\ [zval[c] EXCEPT !.refs = @ + 1] \in Zval
    <3>1. zval[c] \in Zval
      BY <2>1, <2>2 DEF Inv, ZvalsTyped, Alive
    <3> QED BY <3>1 DEF Zval
  <2>5. ZvalsTyped'
    BY <2>1, <2>3 DEF Inv, ZvalsTyped
  <2> QED BY <1>0, <1>1, <2>1, <2>2, <2>5 DEF Inv, CallSound
<1> QED BY <1>2, <1>3, <1>4, <1>5

\* A call that begins has its arguments, each with the references it needs.
LEMMA BeginInv ==
    ASSUME Inv, NEW f \in Functions, NEW k \in 0 .. MaxArgs, NEW a \in [1 .. k -> Vars],
           NEW T \in SUBSET {a[i] : i \in 1 .. k}, Begin(f, a, T)
    PROVE  Inv'
<1>0. UNCHANGED namesVars /\ call = NoCall /\ phase = "running"
  BY DEF Begin, Idle
<1>1. NamesTypeOK'
  BY <1>0 DEF Inv, NamesTypeOK, namesVars, Loaded
<1>2. CASE Die
  BY <1>0, <1>2, DieInv
<1>3. CASE ~Die
  <2> DEFINE args == [i \in DOMAIN a |-> var[a[i]]]
             own  == {var[v] : v \in T}
  <2>1. /\ \A i \in DOMAIN a : var[a[i]] # None /\ Alive(var[a[i]])
        /\ Required(f) <= Len(a)
        /\ zval' = [c \in Cells |->
              IF Times(c, args) = 0 \/ c \in own THEN zval[c]
              ELSE [zval[c] EXCEPT !.refs = @ + Times(c, args)]]
        /\ call' = [f |-> f, args |-> args, at |-> 1,
                    given |-> [i \in DOMAIN a |-> zval[args[i]].value],
                    slot |-> [i \in Params(f) |-> Unset]]
        /\ var' = [v \in Vars |-> IF v \in T THEN None ELSE var[v]]
        /\ UNCHANGED <<phase, converted>>
    BY <1>3, InvocationAssumption DEF Begin
  <2>2. k \in Nat /\ DOMAIN a = 1 .. k
    BY InvocationAssumption
  <2>3. args \in [1 .. k -> Cells]
    BY <2>1, <2>2 DEF Inv
  <2>4. args \in Seq(Cells) /\ Len(args) = Len(a) /\ DOMAIN args = DOMAIN a
    BY <2>2, <2>3
  <2>b. \A i \in DOMAIN a : args[i] = var[a[i]] /\ Alive(args[i])
    BY <2>1, <2>2
  <2>5. \A c \in Cells : Times(c, args) \in Nat
    BY <2>4, TimesNat
  <2>6. \A c \in Cells : Times(c, args) # 0 => Alive(c)
    <3> SUFFICES ASSUME NEW c \in Cells, ~Alive(c) PROVE Times(c, args) = 0
      OBVIOUS
    <3>1. {i \in DOMAIN args : args[i] = c} = {}
      BY <2>1, <2>4
    <3> QED BY <3>1, FS_EmptySet DEF Times
  <2> HIDE DEF args, own
  <2>7. ASSUME NEW c \in Cells
        PROVE  /\ zval'[c] \in Zval \cup {None}
               /\ zval[c] # None => zval'[c] # None
    <3>1. CASE Times(c, args) = 0 \/ c \in own
      BY <2>1, <3>1 DEF Inv, ZvalsTyped
    <3>2. CASE ~(Times(c, args) = 0 \/ c \in own)
      <4>1. zval[c] \in Zval /\ Times(c, args) \in Nat
        BY <2>5, <2>6, <3>2 DEF Alive, Inv, ZvalsTyped
      <4>2. zval'[c] = [zval[c] EXCEPT !.refs = @ + Times(c, args)]
        BY <2>1, <3>2
      <4>3. zval'[c] \in Zval
        BY <4>1, <4>2 DEF Zval
      <4> QED BY <4>3, InvocationAssumption
    <3> QED BY <3>1, <3>2
  <2>8. ZvalsTyped'
    BY <2>1, <2>7 DEF ZvalsTyped
  <2>9. CallSound'
    <3>1. Len(f.params) \in Nat
      BY InvocationAssumption
    <3>2. 1 \in 1 .. Len(f.params) + 1
      BY <3>1
    <3>3. \A i \in DOMAIN args : zval'[args[i]] # None
      <4>1. \A i \in DOMAIN args : args[i] \in Cells /\ zval[args[i]] # None
        BY <2>b, <2>3, <2>4 DEF Alive
      <4> QED BY <2>7, <4>1 DEF Alive
    <3>4. /\ call'.f = f /\ call'.args = args /\ call'.at = 1
          /\ call'.slot = [i \in Params(f) |-> Unset]
          /\ call' = [f |-> call'.f, args |-> call'.args, at |-> call'.at,
                      given |-> call'.given, slot |-> call'.slot]
      BY <2>1
    <3> QED BY <2>1, <2>4, <3>2, <3>3, <3>4 DEF CallSound, Alive
  <2>10. var' \in [Vars -> Cells \cup {None}]
    BY <2>1 DEF Inv
  <2> QED BY <1>1, <2>1, <2>8, <2>9, <2>10 DEF Inv
<1> QED BY <1>2, <1>3

\* A conversion that separates a zval leaves a reference to it.
LEMMA ConvertInv == Inv /\ Convert => Inv'
<1> SUFFICES ASSUME Inv, Convert PROVE Inv'
  OBVIOUS
<1>0. /\ UNCHANGED namesVars /\ call # NoCall /\ phase = "running"
      /\ call.f \in Functions /\ call.at \in Params(call.f)
  BY DEF Convert, Converting, Inv, CallSound
<1>1. NamesTypeOK'
  BY <1>0 DEF Inv, NamesTypeOK, namesVars, Loaded
<1>2. call.at + 1 \in 1 .. Len(call.f.params) + 1
  <2>1. call.f.params \in Seq([out : BOOLEAN, optional : BOOLEAN, tag : Tags])
    BY <1>0, InvocationAssumption
  <2> QED BY <1>0, <2>1 DEF Params
<1>3. CASE End
  BY <1>0, <1>3, EndInv
<1>4. CASE ~End /\ Param.out
  <2>1. /\ call' = [call EXCEPT !.at = @ + 1]
        /\ UNCHANGED <<phase, zval, var, converted>>
    BY <1>4 DEF Convert
  <2>2. CallSound'
    BY <1>0, <1>2, <2>1 DEF Inv, CallSound, Alive
  <2> QED BY <1>1, <2>1, <2>2 DEF Inv, ZvalsTyped, Alive
<1>5. CASE ~End /\ ~Param.out
  <2> DEFINE c == call.args[call.at]
  <2>1. PICK r :
            /\ call' = [call EXCEPT !.at = @ + 1, !.slot[Slot(call.f, call.at)] = r]
            /\ zval' = IF Param.tag \in Integers THEN ConvertedZval(c) ELSE zval
            /\ converted' \in {converted, converted \cup {c}}
            /\ UNCHANGED <<phase, var>>
    BY <1>5 DEF Convert
  <2>2. call.at \in DOMAIN call.args
    <3>1. call.at <= Len(call.args)
      BY <1>5 DEF Convert
    <3> QED BY <1>0, <3>1 DEF Inv, CallSound
  <2>3. c \in Cells /\ Alive(c)
    BY <1>0, <2>2 DEF Inv, CallSound
  <2>4. zval[c] \in Zval
    BY <2>3 DEF Inv, ZvalsTyped, Alive
  <2>5. \/ zval' = zval
        \/ \E z \in Zval : zval' = [zval EXCEPT ![c] = z]
    <3>1. CASE Separates(c)
      <4>1. [zval[c] EXCEPT !.refs = @ - 1] \in Zval
        BY <2>4, <3>1 DEF Separates, Zval
      <4> QED BY <2>1, <3>1, <4>1 DEF ConvertedZval
    <3>2. CASE ~Separates(c)
      <4>1. AsLong(zval[c].value) \in Int
        BY <2>4, AsLongInt DEF Zval
      <4>2. [zval[c] EXCEPT !.value = <<"long", AsLong(@)>>] \in Zval
        BY <2>4, <4>1 DEF Zval
      <4> QED BY <2>1, <3>2, <4>2 DEF ConvertedZval
    <3> QED BY <3>1, <3>2
  <2>7. ZvalsTyped' /\ \A d \in Cells : zval[d] # None => zval'[d] # None
    BY <2>3, <2>5, InvocationAssumption DEF Inv, ZvalsTyped
  <2>6. CallSound'
    <3>1. /\ call'.f = call.f /\ call'.args = call.args /\ call'.given = call.given
          /\ call'.at = call.at + 1
          /\ call'.slot = [call.slot EXCEPT ![Slot(call.f, call.at)] = r]
          /\ call' = [f |-> call'.f, args |-> call'.args, at |-> call'.at,
                      given |-> call'.given, slot |-> call'.slot]
      BY <1>0, <2>1 DEF Inv, CallSound
    <3>2. call'.slot = [i \in Params(call.f) |-> call'.slot[i]]
      BY <1>0, <3>1 DEF Inv, CallSound
    <3>3. \A i \in DOMAIN call.args : Alive(call.args[i])'
      <4>1. \A i \in DOMAIN call.args : call.args[i] \in Cells /\ zval[call.args[i]] # None
        BY <1>0 DEF Inv, CallSound, Alive
      <4> QED BY <2>7, <3>1, <4>1 DEF Alive
    <3> QED BY <1>0, <1>2, <3>1, <3>2, <3>3 DEF Inv, CallSound
  <2> QED BY <1>1, <2>1, <2>3, <2>6, <2>7 DEF Inv
<1> QED BY <1>3, <1>4, <1>5

\* No step undoes the invariant.
LEMMA InvStep == Inv /\ [Next]_vars => Inv'
<1> SUFFICES ASSUME Inv, [Next]_vars PROVE Inv'
  OBVIOUS
<1>1. CASE ReadBeyond
  BY <1>1, DieInv DEF ReadBeyond
<1>2. CASE CallNative
  <2>1. UNCHANGED namesVars /\ call # NoCall /\ phase = "running"
    BY <1>2 DEF CallNative
  <2> QED BY <1>2, <2>1, DieInv, EndInv DEF CallNative
<1>3. CASE UNCHANGED vars
  BY <1>3 DEF vars, Inv, NamesTypeOK, Loaded, ZvalsTyped, CallSound, Alive
<1>4. CASE \E f \in Functions : \E n \in 0 .. MaxArgs : \E a \in [1 .. n -> Vars] :
             \E T \in SUBSET {a[i] : i \in 1 .. n} : Begin(f, a, T)
  BY <1>4, BeginInv
<1>5. CASE \E v \in Vars : Drop(v) \/ (\E z \in Values : Assign(v, z)) \/ \E w \in Vars : Share(v, w)
  BY <1>5, ScriptInv
<1> QED BY <1>1, <1>2, <1>3, <1>4, <1>5, DeclareInv, ConvertInv DEF Next, Halted

\* It holds in every state.
LEMMA InvHolds == Spec => []Inv
BY InitInv, InvStep, PTL DEF Spec

-----------------------------------------------------------------------------
(* Theorems *)

\* Every variable of Invocation and Names has its type: a zval that is there
\* counts a reference, and the arguments of a call live until it returns.
THEOREM InvocationTyped == Spec => []TypeOK
BY InvHolds, InvTypes, PTL

\* An argument that was not given is read of no function whose optional
\* parameters come last: the count that gobject_universal_method makes of the
\* others is enough for those.
THEOREM NoReadBeyond == Spec => []ReadsWithin
<1>1. Inv => ReadsWithin
  <2> SUFFICES ASSUME Inv, Converting, call.at > Len(call.args)
               PROVE  \E j \in 1 .. call.at : call.f.params[j].optional
    BY DEF ReadsWithin
  <2>1. /\ call.f \in Functions /\ call.at \in Params(call.f)
        /\ Len(call.args) \in Nat /\ Required(call.f) <= Len(call.args)
    BY DEF Converting, Inv, CallSound
  <2> QED BY <2>1, BeyondIsOptional
<1> QED BY <1>1, InvHolds, PTL

-----------------------------------------------------------------------------
(* Who holds a zval *)

\* The variables that have zval c, and the references there should be to it.
Having(c) == {v \in Vars : var[v] = c}
Holders(c) == Cardinality(Having(c)) + (IF call = NoCall THEN 0 ELSE Times(c, call.args))

\* Sets of variables can be counted, and a variable more or less makes one.
LEMMA HavingFinite ==
    ASSUME NEW c
    PROVE  /\ IsFiniteSet(Having(c)) /\ Cardinality(Having(c)) \in Nat
           /\ IsFiniteSet(Having(c)') /\ Cardinality(Having(c)') \in Nat
<1>1. Having(c) \in SUBSET Vars /\ Having(c)' \in SUBSET Vars
  BY DEF Having
<1> QED BY <1>1, FS_Subset, FS_CardinalityType, InvocationAssumption

\* Nobody has what nobody has.
LEMMA NobodyHas ==
    ASSUME NEW c
    PROVE  /\ Having(c) = {} => Cardinality(Having(c)) = 0
           /\ Having(c)' = {} => Cardinality(Having(c)') = 0
BY FS_EmptySet

\* The other variables stay as they are when v changes.
LEMMA OneVariable ==
    ASSUME NEW v \in Vars, NEW x, NEW c, var \in [Vars -> Cells \cup {None}],
           var' = [var EXCEPT ![v] = x]
    PROVE  /\ var[v] = x => Having(c)' = Having(c)
           /\ x # c /\ var[v] # c => Having(c)' = Having(c)
           /\ x = c /\ var[v] # c =>
                Cardinality(Having(c)') = Cardinality(Having(c)) + 1
           /\ x # c /\ var[v] = c =>
                Cardinality(Having(c)') = Cardinality(Having(c)) - 1
<1>1. \A w \in Vars : var'[w] = IF w = v THEN x ELSE var[w]
  OBVIOUS
<1>2. /\ var[v] = x => Having(c)' = Having(c)
      /\ x # c /\ var[v] # c => Having(c)' = Having(c)
  BY <1>1 DEF Having
<1>3. ASSUME x = c, var[v] # c
      PROVE  Cardinality(Having(c)') = Cardinality(Having(c)) + 1
  <2>1. Having(c)' = Having(c) \cup {v} /\ v \notin Having(c)
    BY <1>1, <1>3 DEF Having
  <2> QED BY <2>1, HavingFinite, FS_AddElement
<1>4. ASSUME x # c, var[v] = c
      PROVE  Cardinality(Having(c)') = Cardinality(Having(c)) - 1
  <2>1. Having(c)' = Having(c) \ {v} /\ v \in Having(c)
    BY <1>1, <1>4 DEF Having
  <2> QED BY <2>1, HavingFinite, FS_RemoveElement
<1> QED BY <1>2, <1>3, <1>4

\* The count of one zval is right.
Exact(c) == IF Alive(c) THEN zval[c].refs = Holders(c) ELSE Holders(c) = 0

\* The property, zval by zval.
LEMMA SurvivalIsExact == VariablesSurvive <=> \A c \in Cells \ converted : Exact(c)
BY DEF VariablesSurvive, Exact, Holders, Having

\* What is released leaves a count that is right if as many let go of the zval.
LEMMA ReleasedExact ==
    ASSUME Inv, NEW n \in [Cells -> Nat], ~TooMany(n), zval' = Released(n),
           NEW c \in Cells, Exact(c), Holders(c) \in Nat,
           Holders(c)' = Holders(c) - n[c]
    PROVE  Exact(c)'
<1>1. n[c] \in Nat /\ n[c] <= Refs(c)
  BY DEF TooMany, Refs, Inv, ZvalsTyped, Zval, Alive
<1>2. CASE ~Alive(c)
  <2>1. n[c] = 0 /\ Holders(c) = 0 /\ Holders(c)' = 0
    BY <1>1, <1>2 DEF Refs, Exact
  <2>2. zval'[c] = zval[c]
    BY <2>1 DEF Released
  <2> QED BY <1>2, <2>1, <2>2 DEF Exact, Alive
<1>3. CASE Alive(c)
  <2>1. zval[c] \in Zval /\ zval[c].refs = Holders(c)
    BY <1>3 DEF Inv, ZvalsTyped, Alive, Exact
  <2>2. CASE n[c] = 0
    <3>1. zval'[c] = zval[c]
      BY <2>2 DEF Released
    <3> QED BY <1>3, <2>1, <2>2, <3>1 DEF Exact, Alive
  <2>3. CASE n[c] # 0 /\ n[c] = zval[c].refs
    <3>1. zval'[c] = None
      BY <2>3 DEF Released
    <3> QED BY <2>1, <2>3, <3>1 DEF Exact, Alive
  <2>4. CASE n[c] # 0 /\ n[c] # zval[c].refs
    <3>1. zval'[c] = [zval[c] EXCEPT !.refs = @ - n[c]]
      BY <2>4 DEF Released
    <3>2. zval'[c].refs = zval[c].refs - n[c]
      BY <2>1, <3>1 DEF Zval
    <3>3. zval'[c] # None
      <4>1. zval[c].refs - n[c] \in Nat \ {0}
        BY <1>1, <2>1, <2>4, <1>3 DEF Refs, Zval
      <4>2. zval'[c] \in Zval
        BY <2>1, <3>1, <4>1 DEF Zval
      <4> QED BY <4>2, InvocationAssumption
    <3> QED BY <2>1, <3>2, <3>3 DEF Exact, Alive
  <2> QED BY <2>2, <2>3, <2>4
<1> QED BY <1>2, <1>3

\* The number of holders of a zval is a number.
LEMMA HoldersNat == ASSUME Inv, NEW c PROVE Holders(c) \in Nat
<1>1. Cardinality(Having(c)) \in Nat
  BY HavingFinite
<1>2. call # NoCall => Times(c, call.args) \in Nat
  BY TimesNat DEF Inv, CallSound
<1> QED BY <1>1, <1>2 DEF Holders

\* Between calls only variables hold zvals.
LEMMA IdleHolders ==
    ASSUME NEW c
    PROVE  /\ call = NoCall => Holders(c) = Cardinality(Having(c))
           /\ call' = NoCall => Holders(c)' = Cardinality(Having(c)')
BY HavingFinite DEF Holders

\* After a memory error nobody holds anything.
LEMMA DieExact == ASSUME Die, NEW c \in Cells PROVE Exact(c)'
<1>1. zval'[c] = None /\ call' = NoCall /\ Having(c)' = {}
  BY InvocationAssumption DEF Die, Having
<1> QED BY <1>1, NobodyHas DEF Exact, Alive, Holders

\* The script's steps change counts and variables together.
LEMMA ScriptExact ==
    ASSUME Inv, NEW v \in Vars, NEW c \in Cells \ converted',
           \A d \in Cells \ converted : Exact(d),
           \/ Drop(v) \/ \E z \in Values : Assign(v, z)
           \/ \E w \in Vars : Share(v, w)
    PROVE  Exact(c)'
<1>0. call = NoCall /\ phase = "running" /\ var \in [Vars -> Cells \cup {None}]
  BY DEF Drop, Assign, Share, Idle, Inv
<1>1. CASE Die
  BY <1>1, DieExact
<1>2. CASE Drop(v) /\ ~Die
  <2> DEFINE n == [d \in Cells |-> IF d = var[v] THEN 1 ELSE 0]
  <2>1. /\ n \in [Cells -> Nat] /\ ~TooMany(n) /\ zval' = Released(n)
        /\ var' = [var EXCEPT ![v] = None]
        /\ var[v] # None /\ UNCHANGED <<converted, call>>
    BY <1>2 DEF Drop
  <2>2. Exact(c) /\ n[c] = IF var[v] = c THEN 1 ELSE 0
    BY <2>1
  <2> HIDE DEF n
  <2>3. None # c
    BY InvocationAssumption
  <2>4. Holders(c)' = Holders(c) - n[c]
    <3>1. Holders(c) = Cardinality(Having(c)) /\ Holders(c)' = Cardinality(Having(c)')
      BY <1>0, <2>1, IdleHolders
    <3>2. CASE var[v] = c
      <4>1. Cardinality(Having(c)') = Cardinality(Having(c)) - 1
        BY <1>0, <2>1, <2>3, <3>2, OneVariable
      <4> QED BY <2>2, <3>1, <3>2, <4>1
    <3>3. CASE var[v] # c
      <4>1. Having(c)' = Having(c)
        BY <1>0, <2>1, <2>3, <3>3, OneVariable
      <4> QED BY <2>2, <3>1, <3>3, <4>1, HavingFinite
    <3> QED BY <3>2, <3>3
  <2> QED BY <2>1, <2>2, <2>4, HoldersNat, ReleasedExact
<1>3. CASE \E z \in Values : Assign(v, z)
  <2>1. PICK z \in Values, d \in Cells :
            /\ Unused(d) /\ var[v] = None
            /\ zval' = [zval EXCEPT ![d] = [value |-> z, refs |-> 1]]
            /\ var' = [var EXCEPT ![v] = d]
            /\ converted' = converted \ {d}
            /\ UNCHANGED call
    BY <1>3 DEF Assign
  <2>2. CASE c = d
    <3>1. Having(c) = {} /\ Cardinality(Having(c)) = 0
      BY <2>1, <2>2, NobodyHas DEF Unused, Having
    <3>2. var[v] # c
      BY <2>1, <2>2, InvocationAssumption
    <3>3. Cardinality(Having(c)') = 1
      <4>1. Cardinality(Having(c)') = Cardinality(Having(c)) + 1
        BY <1>0, <2>1, <2>2, <3>2, OneVariable
      <4> QED BY <3>1, <4>1
    <3>4. zval'[c] = [value |-> z, refs |-> 1] /\ zval'[c] \in Zval
      BY <2>1, <2>2 DEF Inv, ZvalsTyped, Zval
    <3>5. zval'[c] # None
      BY <3>4, InvocationAssumption
    <3>6. Holders(c)' = 1
      BY <1>0, <2>1, <3>3, IdleHolders
    <3> QED BY <3>4, <3>5, <3>6 DEF Exact, Alive
  <2>3. CASE c # d
    <3>1. Exact(c) /\ zval'[c] = zval[c]
      BY <2>1, <2>3 DEF Inv, ZvalsTyped
    <3>2. Having(c)' = Having(c)
      <4>1. var[v] # c
        BY <2>1, InvocationAssumption
      <4> QED BY <1>0, <2>1, <2>3, <4>1, OneVariable
    <3> QED BY <1>0, <2>1, <3>1, <3>2 DEF Exact, Alive, Holders
  <2> QED BY <2>2, <2>3
<1>4. CASE (\E w \in Vars : Share(v, w)) /\ ~Die
  <2>1. PICK w \in Vars :
            /\ var[v] = None /\ var[w] # None /\ Alive(var[w])
            /\ zval' = [zval EXCEPT ![var[w]].refs = @ + 1]
            /\ var' = [var EXCEPT ![v] = var[w]]
            /\ UNCHANGED <<converted, call>>
    BY <1>4 DEF Share
  <2>2. var[w] \in Cells /\ var[v] # c /\ Exact(c)
    BY <1>0, <2>1, InvocationAssumption
  <2>3. CASE c = var[w]
    <3>1. Cardinality(Having(c)') = Cardinality(Having(c)) + 1
      BY <1>0, <2>1, <2>2, <2>3, OneVariable
    <3>2. zval[c] \in Zval
      BY <2>1, <2>2, <2>3 DEF Inv, ZvalsTyped, Alive
    <3>3. zval'[c] = [zval[c] EXCEPT !.refs = @ + 1]
      BY <2>1, <2>2, <2>3 DEF Inv, ZvalsTyped
    <3>4. zval'[c] \in Zval /\ zval'[c].refs = zval[c].refs + 1
      BY <3>2, <3>3 DEF Zval
    <3>5. zval'[c] # None
      BY <3>4, InvocationAssumption
    <3>6. Holders(c)' = Holders(c) + 1
      BY <1>0, <2>1, <3>1, IdleHolders
    <3> QED BY <2>1, <2>2, <2>3, <3>4, <3>5, <3>6 DEF Exact, Alive
  <2>4. CASE c # var[w]
    <3>1. zval'[c] = zval[c]
      BY <2>1, <2>4 DEF Inv, ZvalsTyped
    <3>2. Having(c)' = Having(c)
      BY <1>0, <2>1, <2>2, <2>4, OneVariable
    <3> QED BY <1>0, <2>1, <2>2, <3>1, <3>2 DEF Exact, Alive, Holders
  <2> QED BY <2>3, <2>4
<1> QED BY <1>1, <1>2, <1>3, <1>4

\* A call takes a reference to each argument, or the only one there is.
LEMMA BeginExact ==
    ASSUME Inv, NEW f \in Functions, NEW k \in 0 .. MaxArgs, NEW a \in [1 .. k -> Vars],
           NEW T \in SUBSET {a[i] : i \in 1 .. k}, Begin(f, a, T),
           NEW c \in Cells \ converted', \A d \in Cells \ converted : Exact(d)
    PROVE  Exact(c)'
<1>0. call = NoCall /\ phase = "running" /\ var \in [Vars -> Cells \cup {None}]
  BY DEF Begin, Idle, Inv
<1>1. CASE Die
  BY <1>1, DieExact
<1>2. CASE ~Die
  <2> DEFINE args == [i \in DOMAIN a |-> var[a[i]]]
             own  == {var[v] : v \in T}
  <2>1. /\ \A i \in DOMAIN a : var[a[i]] # None /\ Alive(var[a[i]])
        /\ \A v \in T : /\ Times(v, a) = 1 /\ Refs(var[v]) = 1
                        /\ \A w \in Vars \ {v} : var[w] # var[v]
        /\ zval' = [d \in Cells |->
              IF Times(d, args) = 0 \/ d \in own THEN zval[d]
              ELSE [zval[d] EXCEPT !.refs = @ + Times(d, args)]]
        /\ call' = [f |-> f, args |-> args, at |-> 1,
                    given |-> [i \in DOMAIN a |-> zval[args[i]].value],
                    slot |-> [i \in Params(f) |-> Unset]]
        /\ var' = [v \in Vars |-> IF v \in T THEN None ELSE var[v]]
        /\ converted' = converted
    BY <1>2, InvocationAssumption DEF Begin
  <2>2. k \in Nat /\ DOMAIN a = 1 .. k /\ T \subseteq Vars
    BY InvocationAssumption
  <2>3. args \in [1 .. k -> Cells] /\ args \in Seq(Cells) /\ DOMAIN args = DOMAIN a
    <3>1. args \in [1 .. k -> Cells]
      BY <2>1, <2>2 DEF Inv
    <3> QED BY <2>2, <3>1
  <2>4. \A i \in DOMAIN a : args[i] = var[a[i]] /\ Alive(args[i])
    BY <2>1, <2>2
  <2>5. Times(c, args) \in Nat
    BY <2>3, TimesNat
  <2>6. call' # NoCall
    <3>1. call'.f = f
      BY <2>1
    <3>2. f # None /\ NoCall.f = None
      BY InvocationAssumption DEF NoCall
    <3> QED BY <3>1, <3>2
  <2> HIDE DEF args, own
  <2>7. Holders(c)' = Cardinality(Having(c)') + Times(c, args)
    BY <2>1, <2>6 DEF Holders, Times
  <2>8. Exact(c) /\ Holders(c) = Cardinality(Having(c))
    BY <1>0, <2>1, IdleHolders
  <2>9. CASE c \in own
    <3>1. PICK v \in T : var[v] = c
      BY <2>9 DEF own
    <3>2. Refs(c) = 1 /\ Times(v, a) = 1 /\ \A w \in Vars \ {v} : var[w] # c
      BY <2>1, <3>1
    <3>3. zval'[c] = zval[c] /\ Alive(c) /\ zval[c].refs = 1
      BY <2>1, <2>9, <3>2 DEF Refs
    <3>4. Having(c)' = {}
      BY <2>1, <2>2, <3>1, <3>2, InvocationAssumption DEF Having
    <3>5. Times(c, args) = Times(v, a)
      <4>1. \A i \in DOMAIN a : args[i] = c <=> a[i] = v
        BY <2>2, <2>4, <3>1, <3>2
      <4>2. {i \in DOMAIN args : args[i] = c} = {i \in DOMAIN a : a[i] = v}
        BY <2>3, <4>1
      <4> QED BY <4>2 DEF Times
    <3>6. Holders(c)' = 1
      <4>1. Cardinality(Having(c)') = 0
        BY <3>4, NobodyHas
      <4> QED BY <2>7, <3>2, <3>5, <4>1
    <3> QED BY <3>3, <3>6 DEF Exact, Alive
  <2>10. CASE c \notin own
    <3>1. Having(c)' = Having(c)
      BY <2>1, <2>2, <2>10, InvocationAssumption DEF Having, own
    <3>2. Holders(c)' = Holders(c) + Times(c, args)
      BY <2>7, <2>8, <3>1
    <3>3. CASE Times(c, args) = 0
      <4>1. zval'[c] = zval[c]
        BY <2>1, <3>3
      <4> QED BY <2>8, <3>2, <3>3, <4>1, HavingFinite DEF Exact, Alive
    <3>4. CASE Times(c, args) # 0
      <4>1. Alive(c)
        <5> SUFFICES ASSUME ~Alive(c) PROVE Times(c, args) = 0
          BY <3>4
        <5>1. {i \in DOMAIN args : args[i] = c} = {}
          BY <2>3, <2>4
        <5> QED BY <5>1, FS_EmptySet DEF Times
      <4>2. zval[c] \in Zval
        BY <4>1 DEF Inv, ZvalsTyped, Alive
      <4>3. zval'[c] = [zval[c] EXCEPT !.refs = @ + Times(c, args)]
        BY <2>1, <2>10, <3>4
      <4>4. zval'[c] \in Zval /\ zval'[c].refs = zval[c].refs + Times(c, args)
        BY <2>5, <4>2, <4>3 DEF Zval
      <4>5. zval'[c] # None
        BY <4>4, InvocationAssumption
      <4> QED BY <2>8, <3>2, <4>1, <4>4, <4>5 DEF Exact, Alive
    <3> QED BY <3>3, <3>4
  <2> QED BY <2>9, <2>10
<1> QED BY <1>1, <1>2

\* A call that ends gives its references back.
LEMMA EndExact ==
    ASSUME Inv, call # NoCall, End, NEW c \in Cells \ converted',
           \A d \in Cells \ converted : Exact(d)
    PROVE  Exact(c)'
<1>1. CASE Die
  BY <1>1, DieExact
<1>2. CASE ~Die
  <2> DEFINE n == [d \in Cells |-> Times(d, call.args)]
  <2>1. /\ ~TooMany(n) /\ zval' = Released(n) /\ call' = NoCall
        /\ UNCHANGED <<phase, var, converted>>
    BY <1>2 DEF End
  <2>2. n \in [Cells -> Nat] /\ n[c] = Times(c, call.args)
    BY TimesNat DEF Inv, CallSound
  <2> HIDE DEF n
  <2>3. Having(c)' = Having(c)
    BY <2>1 DEF Having
  <2>4. Holders(c)' = Holders(c) - n[c]
    BY <2>1, <2>2, <2>3, HavingFinite, IdleHolders DEF Holders
  <2> QED BY <2>1, <2>2, <2>4, HoldersNat, ReleasedExact
<1> QED BY <1>1, <1>2

\* A conversion changes no count but that of a zval it separates.
LEMMA ConvertExact ==
    ASSUME Inv, Convert, NEW c \in Cells \ converted',
           \A d \in Cells \ converted : Exact(d)
    PROVE  Exact(c)'
<1>0. call # NoCall /\ call.at \in Params(call.f)
  BY DEF Convert, Converting
<1>1. CASE End
  BY <1>0, <1>1, EndExact
<1>2. CASE ~End
  <2>1. /\ converted \subseteq converted'
        /\ UNCHANGED var /\ call'.args = call.args /\ call'.f = call.f
        /\ \/ zval' = zval
           \/ LET d == call.args[call.at]
              IN /\ call.at <= Len(call.args)
                 /\ zval' = ConvertedZval(d)
                 /\ Separates(d) => d \in converted'
    <3>1. CASE Param.out
      <4>1. /\ call' = [call EXCEPT !.at = @ + 1]
            /\ UNCHANGED <<zval, var, converted>>
        BY <1>2, <3>1 DEF Convert
      <4>2. call'.args = call.args /\ call'.f = call.f
        BY <1>0, <4>1 DEF Inv, CallSound
      <4> QED BY <4>1, <4>2
    <3>2. CASE ~Param.out
      <4> DEFINE d == call.args[call.at]
      <4>1. /\ call.at <= Len(call.args)
            /\ \E r : call' = [call EXCEPT !.at = @ + 1, !.slot[Slot(call.f, call.at)] = r]
            /\ zval' = IF Param.tag \in Integers THEN ConvertedZval(d) ELSE zval
            /\ converted' =
                  IF Param.tag \in Integers /\ zval[d].value[1] # "long" /\ zval[d].refs > 1
                  THEN converted \cup {d} ELSE converted
            /\ UNCHANGED <<phase, var>>
        BY <1>2, <3>2 DEF Convert
      <4>2. call'.args = call.args /\ call'.f = call.f
        BY <1>0, <4>1 DEF Inv, CallSound
      <4>3. Separates(d) /\ Param.tag \in Integers => d \in converted'
        BY <4>1 DEF Separates
      <4> QED BY <4>1, <4>2, <4>3
    <3> QED BY <3>1, <3>2
  <2>2. Exact(c) /\ Holders(c)' = Holders(c)
    <3>1. call.f \in Functions
      BY <1>0 DEF Inv, CallSound
    <3>2. call' # NoCall
      <4>1. call'.f # None /\ NoCall.f = None
        BY <2>1, <3>1, InvocationAssumption DEF NoCall
      <4> QED BY <4>1
    <3> QED BY <1>0, <2>1, <3>2 DEF Holders, Having, Times
  <2>3. CASE zval' = zval
    BY <2>2, <2>3 DEF Exact, Alive
  <2>4. CASE zval' # zval
    <3> DEFINE d == call.args[call.at]
    <3>1. /\ call.at <= Len(call.args) /\ zval' = ConvertedZval(d)
          /\ Separates(d) => d \in converted'
      BY <2>1, <2>4
    <3>2. CASE d # c
      <4>1. zval'[c] = zval[c]
        BY <3>1, <3>2 DEF ConvertedZval, Inv, ZvalsTyped
      <4> QED BY <2>2, <4>1 DEF Exact, Alive
    <3>3. CASE d = c
      <4>1. call.at \in DOMAIN call.args
        BY <1>0, <3>1 DEF Inv, CallSound, Params
      <4>2. Alive(c) /\ zval[c] \in Zval
        BY <1>0, <3>3, <4>1 DEF Inv, CallSound, ZvalsTyped, Alive
      <4>3. zval'[c] = [zval[c] EXCEPT !.value = <<"long", AsLong(@)>>]
        BY <3>1, <3>3 DEF ConvertedZval, Inv, ZvalsTyped
      <4>4. zval'[c].refs = zval[c].refs
        BY <4>2, <4>3 DEF Zval
      <4>5. zval'[c] # None
        <5>1. AsLong(zval[c].value) \in Int
          BY <4>2, AsLongInt DEF Zval
        <5>2. zval'[c] \in Zval
          BY <4>2, <4>3, <5>1 DEF Zval
        <5> QED BY <5>2, InvocationAssumption
      <4> QED BY <2>2, <4>2, <4>4, <4>5 DEF Exact, Alive
    <3> QED BY <3>2, <3>3
  <2> QED BY <2>3, <2>4
<1> QED BY <1>1, <1>2

\* Counts are right after every step.
LEMMA SurviveStep == Inv /\ VariablesSurvive /\ [Next]_vars => VariablesSurvive'
<1> SUFFICES ASSUME Inv, VariablesSurvive, [Next]_vars, NEW c \in Cells \ converted'
             PROVE  Exact(c)'
  BY DEF VariablesSurvive, Exact, Holders, Having
<1>0. \A d \in Cells \ converted : Exact(d)
  BY SurvivalIsExact
<1>1. CASE ReadBeyond
  BY <1>1, DieExact DEF ReadBeyond
<1>2. CASE CallNative
  BY <1>0, <1>2, DieExact, EndExact DEF CallNative
<1>3. CASE Declare \/ UNCHANGED vars
  <2>1. UNCHANGED <<zval, var, converted, call>>
    BY <1>3 DEF Declare, invocationVars, vars
  <2> QED BY <1>0, <2>1 DEF Exact, Alive, Holders, Having, Times
<1>4. CASE \E f \in Functions : \E n \in 0 .. MaxArgs : \E a \in [1 .. n -> Vars] :
             \E T \in SUBSET {a[i] : i \in 1 .. n} : Begin(f, a, T)
  BY <1>0, <1>4, BeginExact
<1>5. CASE \E v \in Vars : Drop(v) \/ (\E z \in Values : Assign(v, z)) \/ \E w \in Vars : Share(v, w)
  BY <1>0, <1>5, ScriptExact
<1>6. CASE Convert
  BY <1>0, <1>6, ConvertExact
<1> QED BY <1>1, <1>2, <1>3, <1>4, <1>5, <1>6 DEF Next, Halted

\* Calls of functions, however often and with whatever arguments, leave each zval
\* with a reference for each variable that has it, but for the zvals of which
\* convert_to_long_ex (gobject_helpers.c:337) made a copy.
THEOREM CallsLeaveVariables == Spec => []VariablesSurvive
<1>1. Init => VariablesSurvive
  <2> SUFFICES ASSUME Init, NEW c \in Cells PROVE Exact(c)
    BY SurvivalIsExact
  <2>1. zval[c] = None /\ call = NoCall /\ Having(c) = {}
    BY InvocationAssumption DEF Init, Having
  <2> QED BY <2>1, NobodyHas, IdleHolders DEF Exact, Alive
<1> QED BY <1>1, InvHolds, SurviveStep, PTL DEF Spec

-----------------------------------------------------------------------------
(* What a call is given arrives *)

\* The positions that are still to be converted and have zval c.
Left(c) == {k \in DOMAIN call.args : k >= call.at /\ call.args[k] = c}

\* The slot of parameter i of f has what z, its argument, should leave in it.
Arrived(f, i, z, s) ==
    LET p == f.params[i]
    IN /\ p.tag \in Integers /\ z[1] = "long" =>
             s = Cast(p.tag, z[2]) /\ (z[2] \in Numbers(p.tag) => s = z[2])
       /\ p.tag = "utf8" /\ z[1] = "string" => s = z[2]

\* A zval counts at least the positions that are to be converted, so that one
\* of several is separated before it changes; these hold what was given, and
\* the slots that are written have it.
Arriving ==
    call # NoCall =>
        /\ \A c \in Cells : Alive(c) => Cardinality(Left(c)) <= zval[c].refs
        /\ \A k \in DOMAIN call.args : k >= call.at =>
              LET z == zval[call.args[k]].value
              IN z[1] = call.given[k][1] /\ z[2] = call.given[k][2]
        /\ \A i \in Params(call.f) : i < call.at /\ ~call.f.params[i].out =>
              Arrived(call.f, i, call.given[i], call.slot[i])

\* There are finitely many positions, and to pass one makes one fewer.
LEMMA LeftCounts ==
    ASSUME call # NoCall, Inv, NEW c
    PROVE  /\ IsFiniteSet(Left(c)) /\ Cardinality(Left(c)) \in Nat
           /\ Cardinality(Left(c)) <= Times(c, call.args)
<1>1. call.args \in Seq(Cells)
  BY DEF Inv, CallSound
<1>2. IsFiniteSet(DOMAIN call.args)
  BY <1>1, FS_Interval
<1> DEFINE H == {i \in DOMAIN call.args : call.args[i] = c}
<1>3. IsFiniteSet(H) /\ Left(c) \subseteq H
  <2>1. H \subseteq DOMAIN call.args /\ Left(c) \subseteq H
    BY DEF Left
  <2> QED BY <1>2, <2>1, FS_Subset
<1>4. Times(c, call.args) = Cardinality(H)
  BY DEF Times
<1> HIDE DEF H
<1> QED BY <1>3, <1>4, FS_Subset, FS_CardinalityType

\* At the beginning nothing is converted.
LEMMA BeginArrives ==
    ASSUME Inv, NEW f \in Functions, NEW k \in 0 .. MaxArgs, NEW a \in [1 .. k -> Vars],
           NEW T \in SUBSET {a[i] : i \in 1 .. k}, Begin(f, a, T)
    PROVE  Arriving'
<1>1. CASE Die
  BY <1>1 DEF Die, Arriving
<1>2. CASE ~Die
  <2> DEFINE args == [i \in DOMAIN a |-> var[a[i]]]
             own  == {var[v] : v \in T}
  <2>1. /\ \A i \in DOMAIN a : var[a[i]] # None /\ Alive(var[a[i]])
        /\ \A v \in T : /\ Times(v, a) = 1 /\ Refs(var[v]) = 1
                        /\ \A w \in Vars \ {v} : var[w] # var[v]
        /\ zval' = [d \in Cells |->
              IF Times(d, args) = 0 \/ d \in own THEN zval[d]
              ELSE [zval[d] EXCEPT !.refs = @ + Times(d, args)]]
        /\ call' = [f |-> f, args |-> args, at |-> 1,
                    given |-> [i \in DOMAIN a |-> zval[args[i]].value],
                    slot |-> [i \in Params(f) |-> Unset]]
    BY <1>2, InvocationAssumption DEF Begin
  <2>2. k \in Nat /\ DOMAIN a = 1 .. k /\ T \subseteq Vars
    BY InvocationAssumption
  <2>3. args \in [1 .. k -> Cells] /\ args \in Seq(Cells) /\ DOMAIN args = DOMAIN a
    <3>1. args \in [1 .. k -> Cells]
      BY <2>1, <2>2 DEF Inv
    <3> QED BY <2>2, <3>1
  <2>4. \A i \in DOMAIN a : args[i] = var[a[i]] /\ Alive(args[i])
    BY <2>1, <2>2
  <2>5. Inv' /\ call' # NoCall
    <3>1. call'.f # None /\ NoCall.f = None
      BY <2>1, InvocationAssumption DEF NoCall
    <3> QED BY <3>1, BeginInv
  <2>6. call'.args = args /\ call'.at = 1 /\ call'.f = f
    BY <2>1
  <2> DEFINE given == [i \in DOMAIN a |-> zval[args[i]].value]
  <2>7. call'.given = given
    BY <2>1
  <2>8. ASSUME NEW i \in DOMAIN args
        PROVE  zval'[args[i]].value = given[i]
    <3>0. args[i] \in Cells /\ given[i] = zval[args[i]].value
      BY <2>3
    <3>1. zval[args[i]] \in Zval
      BY <2>3, <2>4, <3>0 DEF Inv, ZvalsTyped, Alive
    <3> HIDE DEF args, own, given
    <3>2. \/ zval'[args[i]] = zval[args[i]]
          \/ zval'[args[i]] = [zval[args[i]] EXCEPT !.refs = @ + Times(args[i], args)]
      BY <2>1, <3>0
    <3> QED BY <3>0, <3>1, <3>2 DEF Zval
  <2>9. ASSUME NEW c \in Cells, Alive(c)'
        PROVE  Cardinality(Left(c)') <= zval'[c].refs
    <3>0. Times(c, args) \in Nat
      BY <2>3, TimesNat
    <3>1. Cardinality(Left(c)') = Times(c, args)
      <4>1. \A i \in DOMAIN args : i >= 1
        BY <2>2
      <4>2. Left(c)' = {i \in DOMAIN args : args[i] = c}
        BY <2>6, <4>1 DEF Left
      <4> QED BY <4>2 DEF Times
    <3>2. zval'[c] \in Zval
      BY <2>5, <2>9 DEF Inv, ZvalsTyped, Alive
    <3> HIDE DEF args
    <3>3. CASE Times(c, args) = 0
      BY <3>1, <3>2, <3>3 DEF Zval
    <3>4. CASE c \in own
      <4>1. PICK v \in T : var[v] = c
        BY <3>4
      <4>2. Refs(c) = 1 /\ Times(v, a) = 1 /\ \A w \in Vars \ {v} : var[w] # c
        BY <2>1, <4>1
      <4>3. zval'[c] = zval[c] /\ zval[c].refs = 1
        BY <2>1, <3>4, <4>2 DEF Refs
      <4>4. Times(c, args) = Times(v, a)
        <5>1. \A i \in DOMAIN a : args[i] = c <=> a[i] = v
          BY <2>2, <2>4, <4>1, <4>2
        <5>2. {i \in DOMAIN args : args[i] = c} = {i \in DOMAIN a : a[i] = v}
          BY <2>3, <5>1
        <5> QED BY <5>2 DEF Times
      <4> QED BY <3>1, <4>2, <4>3, <4>4
    <3>5. CASE Times(c, args) # 0 /\ c \notin own
      <4>1. PICK i \in DOMAIN args : args[i] = c
        <5> SUFFICES ASSUME \A i \in DOMAIN args : args[i] # c PROVE Times(c, args) = 0
          BY <3>5
        <5>1. {i \in DOMAIN args : args[i] = c} = {}
          OBVIOUS
        <5> QED BY <5>1, FS_EmptySet DEF Times
      <4>2. zval[c] \in Zval
        BY <2>3, <2>4, <4>1 DEF Inv, ZvalsTyped, Alive
      <4>3. zval'[c] = [zval[c] EXCEPT !.refs = @ + Times(c, args)]
        BY <2>1, <3>5
      <4>4. zval'[c].refs = zval[c].refs + Times(c, args) /\ zval[c].refs \in Nat
        BY <4>2, <4>3 DEF Zval
      <4> QED BY <3>0, <3>1, <4>4
    <3> QED BY <3>3, <3>4, <3>5
  <2>10. \A i \in Params(f) : ~(i < 1)
    <3>1. Len(f.params) \in Nat /\ Params(f) = 1 .. Len(f.params)
      BY InvocationAssumption DEF Params
    <3> QED BY <3>1
  <2> HIDE DEF args, own, given
  <2> QED BY <2>6, <2>7, <2>8, <2>9, <2>10 DEF Arriving
<1> QED BY <1>1, <1>2

\* A conversion writes the slot of its parameter, and changes no zval that is
\* at a position behind it.
LEMMA ConvertArrives == Inv /\ Arriving /\ Convert => Arriving'
<1> SUFFICES ASSUME Inv, Arriving, Convert PROVE Arriving'
  OBVIOUS
<1>0. /\ UNCHANGED namesVars /\ call # NoCall /\ phase = "running"
      /\ call.f \in Functions /\ call.at \in Params(call.f) /\ Inv'
      /\ Params(call.f) \subseteq Nat
  <2>1. call.f \in Functions /\ call.at \in Params(call.f) /\ call # NoCall
    BY DEF Convert, Converting, Inv, CallSound
  <2>2. Len(call.f.params) \in Nat /\ Params(call.f) = 1 .. Len(call.f.params)
    BY <2>1, InvocationAssumption DEF Params
  <2>3. Inv'
    BY ConvertInv
  <2>4. UNCHANGED namesVars /\ phase = "running"
    BY DEF Convert, Converting
  <2> QED BY <2>1, <2>2, <2>3, <2>4
<1>1. CASE End
  <2>1. call' = NoCall
    BY <1>1 DEF End, Die
  <2> QED BY <2>1 DEF Arriving
<1>2. CASE ~End
  <2>1. /\ call'.f = call.f /\ call'.args = call.args /\ call'.given = call.given
        /\ call'.at = call.at + 1
    <3>1. CASE Param.out
      BY <1>0, <1>2, <3>1 DEF Convert, Inv, CallSound
    <3>2. CASE ~Param.out
      <4>1. \E r : call' = [call EXCEPT !.at = @ + 1, !.slot[Slot(call.f, call.at)] = r]
        BY <1>2, <3>2 DEF Convert
      <4> QED BY <1>0, <4>1 DEF Inv, CallSound
    <3> QED BY <3>1, <3>2
  <2>2. DOMAIN call.args \subseteq Nat /\ \A i \in DOMAIN call.args : call.args[i] \in Cells
    BY <1>0 DEF Inv, CallSound
  <2>3. \A c : Left(c)' = Left(c) \ {call.at}
    BY <1>0, <2>1, <2>2 DEF Left
  <2>4. \A i \in Params(call.f) : i < call.at + 1 => i < call.at \/ i = call.at
    BY <1>0
  <2>5. CASE Param.out
    <3>1. call' = [call EXCEPT !.at = @ + 1] /\ UNCHANGED zval
      BY <1>2, <2>5 DEF Convert
    <3>2. call'.slot = call.slot
      BY <1>0, <3>1 DEF Inv, CallSound
    <3>3. ASSUME NEW c \in Cells, Alive(c)'
          PROVE  Cardinality(Left(c)') <= zval'[c].refs
      <4>1. Cardinality(Left(c)) <= zval[c].refs /\ zval[c] \in Zval
        BY <1>0, <3>1, <3>3 DEF Arriving, Alive, Inv, ZvalsTyped
      <4>2. Cardinality(Left(c)') <= Cardinality(Left(c)) /\ Cardinality(Left(c)') \in Nat
        BY <1>0, <2>3, LeftCounts, FS_Subset, FS_CardinalityType
      <4> QED BY <1>0, <3>1, <4>1, <4>2, LeftCounts DEF Zval
    <3>4. \A j \in DOMAIN call.args : j >= call.at + 1 => j >= call.at
      BY <1>0, <2>2
    <3>5. \A i \in Params(call.f) : i < call.at + 1 /\ ~call.f.params[i].out => i < call.at
      BY <2>4, <2>5 DEF Param
    <3> QED BY <1>0, <2>1, <3>1, <3>2, <3>3, <3>4, <3>5 DEF Arriving
  <2>6. CASE ~Param.out
    <3> DEFINE d == call.args[call.at]
    <3>1. PICK r \in Converted(Param.tag, zval[d].value) :
              /\ call' = [call EXCEPT !.at = @ + 1, !.slot[Slot(call.f, call.at)] = r]
              /\ zval' = IF Param.tag \in Integers THEN ConvertedZval(d) ELSE zval
      BY <1>2, <2>6 DEF Convert
    <3>2. call.at \in DOMAIN call.args
      <4>1. call.at <= Len(call.args)
        BY <2>6 DEF Convert
      <4> QED BY <1>0, <4>1 DEF Inv, CallSound
    <3>3. d \in Cells /\ Alive(d) /\ zval[d] \in Zval
      BY <1>0, <3>2 DEF Inv, CallSound, ZvalsTyped, Alive
    <3>4. call'.slot = [call.slot EXCEPT ![call.at] = r] /\ call'.slot[call.at] = r
          /\ \A i \in Params(call.f) : i # call.at => call'.slot[i] = call.slot[i]
      BY <1>0, <3>1 DEF Inv, CallSound, Slot
    <3>5. \/ zval' = zval
          \/ /\ zval[d].refs > 1
             /\ zval' = [zval EXCEPT ![d].refs = @ - 1]
          \/ /\ zval[d].value[1] = "long" \/ zval[d].refs = 1
             /\ zval' = [zval EXCEPT ![d].value = <<"long", AsLong(@)>>]
      <4>1. ~Separates(d) => zval[d].value[1] = "long" \/ zval[d].refs = 1
        BY <3>3 DEF Separates, Zval
      <4> QED BY <3>1, <4>1 DEF ConvertedZval, Separates
    <3>6. ASSUME NEW c \in Cells
          PROVE  /\ c # d => zval'[c] = zval[c]
                 /\ Alive(c)' <=> Alive(c)
      <4>1. c # d => zval'[c] = zval[c]
        BY <3>5 DEF Inv, ZvalsTyped
      <4>2. zval'[d] # None
        <5>1. CASE zval' = zval
          BY <3>3, <5>1 DEF Alive
        <5>2. CASE zval[d].refs > 1 /\ zval' = [zval EXCEPT ![d].refs = @ - 1]
          <6>1. zval'[d] = [zval[d] EXCEPT !.refs = @ - 1]
            BY <3>3, <5>2 DEF Inv, ZvalsTyped
          <6>2. zval'[d] \in Zval
            BY <3>3, <5>2, <6>1 DEF Zval
          <6> QED BY <6>2, InvocationAssumption
        <5>3. CASE zval' = [zval EXCEPT ![d].value = <<"long", AsLong(@)>>]
          <6>1. zval'[d] = [zval[d] EXCEPT !.value = <<"long", AsLong(@)>>]
            BY <3>3, <5>3 DEF Inv, ZvalsTyped
          <6>2. AsLong(zval[d].value) \in Int
            BY <3>3, AsLongInt DEF Zval
          <6>3. zval'[d] \in Zval
            BY <3>3, <6>1, <6>2 DEF Zval
          <6> QED BY <6>3, InvocationAssumption
        <5> QED BY <3>5, <5>1, <5>2, <5>3
      <4> QED BY <3>3, <4>1, <4>2 DEF Alive
    <3>7. ASSUME NEW c \in Cells, Alive(c)'
          PROVE  Cardinality(Left(c)') <= zval'[c].refs
      <4>1. Cardinality(Left(c)) <= zval[c].refs /\ zval[c] \in Zval
        BY <1>0, <3>6, <3>7 DEF Arriving, Alive, Inv, ZvalsTyped
      <4>2. /\ Cardinality(Left(c)) \in Nat /\ Cardinality(Left(c)') \in Nat
            /\ Cardinality(Left(c)') <= Cardinality(Left(c))
            /\ c = d => Cardinality(Left(c)') = Cardinality(Left(c)) - 1
        <5>1. c = d => call.at \in Left(c)
          BY <1>0, <3>2 DEF Left
        <5>2. IsFiniteSet(Left(c))
          BY <1>0, LeftCounts
        <5>3. c = d => Cardinality(Left(c) \ {call.at}) = Cardinality(Left(c)) - 1
          BY <5>1, <5>2, FS_RemoveElement
        <5>4. Left(c)' \subseteq Left(c)
          BY <2>3
        <5> QED BY <2>3, <5>2, <5>3, <5>4, FS_Subset, FS_CardinalityType
      <4>3. CASE c # d
        <5>1. zval'[c] = zval[c] /\ zval[c].refs \in Nat
          BY <3>6, <4>1, <4>3 DEF Zval
        <5> QED BY <4>1, <4>2, <5>1
      <4>4. CASE c = d
        <5>1. zval'[c].refs >= zval[c].refs - 1 /\ zval[c].refs \in Nat /\ zval'[c].refs \in Int
          <6>1. CASE zval' = zval
            BY <4>1, <6>1 DEF Zval
          <6>2. CASE zval' = [zval EXCEPT ![d].refs = @ - 1]
            <7>1. zval'[c] = [zval[c] EXCEPT !.refs = @ - 1]
              BY <4>4, <6>2 DEF Inv, ZvalsTyped
            <7> QED BY <4>1, <7>1 DEF Zval
          <6>3. CASE zval' = [zval EXCEPT ![d].value = <<"long", AsLong(@)>>]
            <7>1. zval'[c] = [zval[c] EXCEPT !.value = <<"long", AsLong(@)>>]
              BY <4>4, <6>3 DEF Inv, ZvalsTyped
            <7> QED BY <4>1, <7>1 DEF Zval
          <6> QED BY <3>5, <6>1, <6>2, <6>3
        <5> QED BY <4>1, <4>2, <4>4, <5>1
      <4> QED BY <4>3, <4>4
    <3>8. ASSUME NEW j \in DOMAIN call.args, j >= call.at + 1
          PROVE  LET z == zval'[call.args[j]].value
                 IN z[1] = call.given[j][1] /\ z[2] = call.given[j][2]
      <4> DEFINE c == call.args[j]
      <4>1. c \in Cells /\ j >= call.at /\ j # call.at
        BY <1>0, <2>2, <3>8
      <4>2. /\ zval[c].value[1] = call.given[j][1]
            /\ zval[c].value[2] = call.given[j][2]
        BY <1>0, <4>1 DEF Arriving
      <4>3. CASE c # d
        <5>1. zval'[c] = zval[c]
          BY <3>6, <4>1, <4>3
        <5> QED BY <4>2, <5>1
      <4>4. CASE c = d
        <5>1. zval[d].refs > 1
          <6>1. call.at \in Left(d) /\ j \in Left(d) \ {call.at}
            BY <1>0, <3>2, <4>1, <4>4 DEF Left
          <6>2. IsFiniteSet(Left(d)) /\ IsFiniteSet(Left(d) \ {call.at})
            BY <1>0, LeftCounts, FS_RemoveElement
          <6>3. Cardinality(Left(d) \ {call.at}) = Cardinality(Left(d)) - 1
            BY <6>1, <6>2, FS_RemoveElement
          <6>4. Cardinality(Left(d) \ {call.at}) # 0
            BY <6>1, <6>2, FS_EmptySet
          <6>5. Cardinality(Left(d) \ {call.at}) \in Nat /\ Cardinality(Left(d)) \in Nat
            BY <6>2, FS_CardinalityType
          <6>6. Cardinality(Left(d)) <= zval[d].refs /\ zval[d].refs \in Nat
            BY <1>0, <3>3 DEF Arriving, Zval
          <6> QED BY <6>3, <6>4, <6>5, <6>6
        <5>2. CASE zval' = zval
          BY <4>2, <5>2
        <5>3. CASE zval' = [zval EXCEPT ![d].refs = @ - 1]
          <6>1. zval'[d] = [zval[d] EXCEPT !.refs = @ - 1]
            BY <3>3, <5>3 DEF Inv, ZvalsTyped
          <6>2. zval'[d].value = zval[d].value
            BY <3>3, <6>1 DEF Zval
          <6> QED BY <4>2, <4>4, <6>2
        <5>4. CASE /\ zval[d].value[1] = "long"
                   /\ zval' = [zval EXCEPT ![d].value = <<"long", AsLong(@)>>]
          <6>1. zval'[d] = [zval[d] EXCEPT !.value = <<"long", AsLong(@)>>]
            BY <3>3, <5>4 DEF Inv, ZvalsTyped
          <6>2. AsLong(zval[d].value) = zval[d].value[2]
            BY <5>4 DEF AsLong
          <6>3. zval'[d].value = <<"long", zval[d].value[2]>>
            BY <3>3, <6>1, <6>2 DEF Zval
          <6> QED BY <4>2, <4>4, <5>4, <6>3
        <5> QED BY <3>3, <3>5, <5>1, <5>2, <5>3, <5>4 DEF Zval
      <4> QED BY <4>3, <4>4
    <3>9. Arrived(call.f, call.at, call.given[call.at], r)
      <4> DEFINE z == zval[d].value
                 g == call.given[call.at]
                 t == Param.tag
      <4>1. z[1] = g[1] /\ z[2] = g[2]
        BY <1>0, <3>2 DEF Arriving
      <4>2. ASSUME t \in Integers, g[1] = "long"
            PROVE  r = Cast(t, g[2]) /\ (g[2] \in Numbers(t) => r = g[2])
        <5>1. g[2] \in Int
          <6>1. z \in Values \cup ({"long"} \X Int)
            BY <3>3 DEF Zval
          <6>2. z[2] \in Int
            BY <4>1, <4>2, <6>1, InvocationAssumption
          <6> QED BY <4>1, <6>2
        <5>2. Converted(t, z) = {Cast(t, AsLong(z))}
          BY <4>2 DEF Converted, Integers
        <5>3. r = Cast(t, g[2])
          BY <3>1, <4>1, <4>2, <5>2 DEF AsLong
        <5>4. t \in Integral
          BY <4>2 DEF Integers, Integral, Signed
        <5> QED BY <5>1, <5>3, <5>4, CastInRange
      <4>3. ASSUME t = "utf8", g[1] = "string"
            PROVE  r = g[2]
        <5>1. Converted(t, z) = {z[2]}
          BY <4>1, <4>3 DEF Converted, Integers
        <5> QED BY <3>1, <4>1, <5>1
      <4> HIDE DEF z, g
      <4>4. call.f.params[call.at].tag = t
        BY DEF Param
      <4> QED BY <4>2, <4>3, <4>4 DEF Arrived, g
    <3>10. ASSUME NEW i \in Params(call.f), i < call.at + 1, ~call.f.params[i].out
           PROVE  Arrived(call.f, i, call.given[i], call'.slot[i])
      <4>1. CASE i = call.at
        BY <3>4, <3>9, <4>1
      <4>2. CASE i # call.at
        <5>1. i < call.at /\ call'.slot[i] = call.slot[i]
          BY <2>4, <3>4, <3>10, <4>2
        <5> QED BY <1>0, <3>10, <5>1 DEF Arriving
      <4> QED BY <4>1, <4>2
    <3> HIDE DEF d
    <3> QED BY <2>1, <3>7, <3>8, <3>10 DEF Arriving
  <2> QED BY <2>5, <2>6
<1> QED BY <1>1, <1>2

\* What a call is given arrives after every step.
LEMMA ArriveStep == Inv /\ Arriving /\ [Next]_vars => Arriving'
<1> SUFFICES ASSUME Inv, Arriving, [Next]_vars PROVE Arriving'
  OBVIOUS
<1>1. CASE call' = NoCall
  BY <1>1 DEF Arriving
<1>2. CASE Convert
  BY <1>2, ConvertArrives
<1>3. CASE \E f \in Functions : \E n \in 0 .. MaxArgs : \E a \in [1 .. n -> Vars] :
             \E T \in SUBSET {a[i] : i \in 1 .. n} : Begin(f, a, T)
  BY <1>3, BeginArrives
<1>4. CASE ReadBeyond \/ CallNative
  <2>1. call' = NoCall
    BY <1>4 DEF ReadBeyond, CallNative, End, Die
  <2> QED BY <1>1, <2>1
<1>5. CASE Declare \/ UNCHANGED vars
  <2>1. UNCHANGED <<zval, call>>
    BY <1>5 DEF Declare, invocationVars, vars
  <2> QED BY <2>1 DEF Arriving, Left, Alive
<1>6. CASE \E v \in Vars : Drop(v) \/ (\E z \in Values : Assign(v, z)) \/ \E w \in Vars : Share(v, w)
  <2>1. call' = NoCall
    BY <1>6 DEF Drop, Assign, Share, Idle, Die
  <2> QED BY <1>1, <2>1
<1> QED BY <1>2, <1>3, <1>4, <1>5, <1>6 DEF Next, Halted

\* A function of any signature gets each number and text in the parameter it is
\* for, whatever of its arguments are the same zval: the argument that
\* convert_to_long_ex changes in place (gobject_helpers.c:337) has no other use.
THEOREM ArgumentsReachFunctions == Spec => []ArgumentsArrive
<1>1. Init => Arriving
  BY DEF Init, Arriving
<1>2. Inv /\ Arriving => ArgumentsArrive
  <2> SUFFICES ASSUME Inv, Arriving, call # NoCall, call.at > Len(call.f.params),
                      NEW i \in Params(call.f), ~call.f.params[i].out
               PROVE  Arrived(call.f, i, call.given[i], call.slot[i])
    BY DEF ArgumentsArrive, Arrived
  <2>1. Len(call.f.params) \in Nat /\ Params(call.f) = 1 .. Len(call.f.params)
        /\ call.at \in Nat
    <3>1. call.f \in Functions /\ call.at \in 1 .. Len(call.f.params) + 1
      BY DEF Inv, CallSound
    <3> QED BY <3>1, InvocationAssumption DEF Params
  <2>2. i < call.at
    BY <2>1
  <2> QED BY <2>2 DEF Arriving
<1> QED BY <1>1, <1>2, InvHolds, ArriveStep, PTL DEF Spec

-----------------------------------------------------------------------------
(* What a class stands for *)

\* What holds at the end of a sequence, and at each place if at the next, holds
\* everywhere.
LEMMA Backwards ==
    ASSUME NEW n \in Nat, NEW K, n + 1 \in K,
           \A i \in 1 .. n : (\A j \in i + 1 .. n + 1 : j \in K) => i \in K
    PROVE  1 .. n + 1 \subseteq K
<1> DEFINE T == {d \in Nat : d <= n /\ n + 1 - d \notin K}
<1>1. SUFFICES ASSUME T # {} PROVE FALSE
  <2> SUFFICES ASSUME NEW i \in 1 .. n + 1, i \notin K PROVE FALSE
    OBVIOUS
  <2>1. n + 1 - i \in T
    <3>1. n + 1 - i \in Nat /\ n + 1 - i <= n /\ n + 1 - (n + 1 - i) = i
      OBVIOUS
    <3> QED BY <3>1
  <2> QED BY <2>1, <1>1
<1>2. PICK d \in T : \A e \in T : ~(<<e, d>> \in OpToRel(<, Nat))
  <2>1. T \subseteq Nat
    OBVIOUS
  <2> HIDE DEF T
  <2> QED BY <1>1, <2>1, NatLessThanWellFounded, WFMin
<1>3. \A e \in T : ~(e < d)
  BY <1>2 DEF OpToRel
<1> DEFINE i == n + 1 - d
<1>4. d # 0 /\ i \in 1 .. n
  OBVIOUS
<1>5. ASSUME NEW j \in i + 1 .. n + 1 PROVE j \in K
  <2>1. n + 1 - j \in Nat /\ n + 1 - j < d /\ n + 1 - j <= n /\ n + 1 - (n + 1 - j) = j
    OBVIOUS
  <2> QED BY <2>1, <1>3
<1> QED BY <1>4, <1>5

\* A loop that goes on at a later place each time and puts what it makes in front.
Turn(n, w, next, f, i) == IF i > n THEN <<>> ELSE w[i] \o f[next[i]]

\* A function with what such a loop makes from each place exists.
LEMMA LoopEnds ==
    ASSUME NEW n \in Nat, NEW w, NEW next, \A i \in 1 .. n : next[i] \in i + 1 .. n + 1
    PROVE  \E f : f = [i \in 1 .. n + 1 |-> Turn(n, w, next, f, i)]
<1> DEFINE From(k, f) == f = [i \in k .. n + 1 |-> Turn(n, w, next, f, i)]
           K == {k \in 1 .. n + 1 : \E f : From(k, f)}
<1>1. n + 1 \in K
  <2> DEFINE f == [i \in n + 1 .. n + 1 |-> <<>>]
  <2>1. \A i \in n + 1 .. n + 1 : Turn(n, w, next, f, i) = <<>>
    BY DEF Turn
  <2>2. \E h : From(n + 1, h)
    <3>1. From(n + 1, f)
      BY <2>1
    <3> QED BY <3>1
  <2> HIDE DEF From
  <2> QED BY <2>2
<1>2. ASSUME NEW k \in 1 .. n, \A j \in k + 1 .. n + 1 : j \in K
      PROVE  k \in K
  <2>1. PICK f : From(k + 1, f)
    <3>1. k + 1 \in K
      BY <1>2
    <3> HIDE DEF From
    <3> QED BY <3>1
  <2> DEFINE g == [i \in k .. n + 1 |-> IF i = k THEN Turn(n, w, next, f, k) ELSE f[i]]
  <2>2. \A i \in k + 1 .. n + 1 : i \in k .. n + 1 /\ g[i] = f[i]
    OBVIOUS
  <2>3. ASSUME NEW i \in k .. n + 1 PROVE Turn(n, w, next, g, i) = Turn(n, w, next, f, i)
    <3>1. CASE i > n
      BY <3>1 DEF Turn
    <3>2. CASE ~(i > n)
      <4>1. next[i] \in k + 1 .. n + 1
        BY <3>2
      <4>2. g[next[i]] = f[next[i]]
        BY <4>1, <2>2
      <4> HIDE DEF g
      <4> QED BY <4>2, <3>2 DEF Turn
    <3> QED BY <3>1, <3>2
  <2>4. \A i \in k .. n + 1 : g[i] = Turn(n, w, next, f, i)
    BY <2>1
  <2>5. From(k, g)
    <3>1. g = [i \in k .. n + 1 |-> g[i]]
      OBVIOUS
    <3>2. \A i \in k .. n + 1 : g[i] = Turn(n, w, next, g, i)
      BY <2>3, <2>4
    <3> HIDE DEF g
    <3> QED BY <3>1, <3>2
  <2>6. \E h : From(k, h)
    BY <2>5
  <2> HIDE DEF From
  <2> QED BY <2>6
<1>3. 1 \in K
  <2>1. 1 .. n + 1 \subseteq K
    <3> HIDE DEF K
    <3> QED BY <1>1, <1>2, Backwards
  <2> HIDE DEF K
  <2> QED BY <2>1
<1> QED BY <1>3

\* The loop of phpname_from_gtype
ScanStep(s, f, i) ==
    IF i > Len(s) THEN <<>>
    ELSE IF s[i] = "_" /\ i < Len(s) /\ s[i + 1] = "_"
         THEN <<Separator>> \o f[i + 2]
         ELSE <<s[i]>> \o f[i + 1]

\* What the loop makes of the name from each place on.
ScanFrom(s) == CHOOSE f : f = [i \in 1 .. Len(s) + 1 |-> ScanStep(s, f, i)]

\* The name is what it makes from the first place.
LEMMA ScannedIs == \A s : Scanned(s) = ScanFrom(s)[1]
BY DEF Scanned, ScanFrom, ScanStep

\* What g_strjoinv puts in the place of a character that g_strsplit saw.
Piece(c) == IF c = Separator THEN <<"_", "_">> ELSE <<c>>

\* A name is split and joined from each place on.
JoinStep(s, f, i) == IF i > Len(s) THEN <<>> ELSE Piece(s[i]) \o f[i + 1]

JoinFrom(s) == CHOOSE f : f = [i \in 1 .. Len(s) + 1 |-> JoinStep(s, f, i)]

\* The name of the type is what is joined from the first place.
LEMMA JoinedIs == \A s : Joined(s) = JoinFrom(s)[1]
BY DEF Joined, JoinFrom, JoinStep, Piece


\* What is left of the name at each place.
LEMMA ScanFacts ==
    ASSUME NEW S, NEW s \in Seq(S)
    PROVE  LET F == ScanFrom(s)
           IN  \A i \in 1 .. Len(s) + 1 : F[i] = ScanStep(s, F, i)
<1> DEFINE n == Len(s)
           pair(i) == s[i] = "_" /\ i < n /\ s[i + 1] = "_"
           w == [i \in 1 .. n |-> IF pair(i) THEN <<Separator>> ELSE <<s[i]>>]
           next == [i \in 1 .. n |-> IF pair(i) THEN i + 2 ELSE i + 1]
           F == ScanFrom(s)
<1>1. n \in Nat
  OBVIOUS
<1>2. ASSUME NEW i \in 1 .. n PROVE next[i] \in i + 1 .. n + 1
  <2>1. /\ i + 1 \in i + 1 .. n + 1
        /\ i < n => i + 2 \in i + 1 .. n + 1
    BY <1>1
  <2>2. next[i] = IF pair(i) THEN i + 2 ELSE i + 1
    BY Zenon
  <2>3. CASE pair(i)
    BY <2>1, <2>2, <2>3, Zenon
  <2>4. CASE ~pair(i)
    BY <2>1, <2>2, <2>4, Zenon
  <2> QED BY <2>3, <2>4
<1>3. ASSUME NEW f, NEW i \in 1 .. n + 1 PROVE ScanStep(s, f, i) = Turn(n, w, next, f, i)
  <2>1. CASE i > n
    BY <2>1, Zenon DEF ScanStep, Turn
  <2>2. CASE ~(i > n)
    <3>1. i \in 1 .. n
      BY <2>2, <1>1
    <3>2. CASE pair(i)
      <4>1. w[i] = <<Separator>> /\ next[i] = i + 2
        BY <3>1, <3>2, Zenon
      <4>2. Turn(n, w, next, f, i) = w[i] \o f[next[i]]
        BY <2>2, Zenon DEF Turn
      <4>3. ScanStep(s, f, i) = <<Separator>> \o f[i + 2]
        BY <2>2, <3>2, Zenon DEF ScanStep
      <4> QED BY <4>1, <4>2, <4>3, Zenon
    <3>3. CASE ~pair(i)
      <4>1. w[i] = <<s[i]>> /\ next[i] = i + 1
        BY <3>1, <3>3, Zenon
      <4>2. Turn(n, w, next, f, i) = w[i] \o f[next[i]]
        BY <2>2, Zenon DEF Turn
      <4>3. ScanStep(s, f, i) = <<s[i]>> \o f[i + 1]
        BY <2>2, <3>3, Zenon DEF ScanStep
      <4> QED BY <4>1, <4>2, <4>3, Zenon
    <3> QED BY <3>2, <3>3
  <2> QED BY <2>1, <2>2
<1>4. \E f : f = [i \in 1 .. n + 1 |-> ScanStep(s, f, i)]
  <2>1. PICK f : f = [i \in 1 .. n + 1 |-> Turn(n, w, next, f, i)]
    <3> HIDE DEF n, w, next
    <3> QED BY <1>1, <1>2, LoopEnds
  <2>2. f = [i \in 1 .. n + 1 |-> ScanStep(s, f, i)]
    <3> HIDE DEF w, next, n
    <3> QED BY <1>3, <2>1
  <2> QED BY <2>2
<1>5. F = [i \in 1 .. n + 1 |-> ScanStep(s, F, i)]
  BY <1>4 DEF ScanFrom
<1> HIDE DEF F
<1> QED BY <1>5 DEF F

\* What is joined at each place.
LEMMA JoinFacts ==
    ASSUME NEW S, NEW s \in Seq(S)
    PROVE  LET F == JoinFrom(s)
           IN  \A i \in 1 .. Len(s) + 1 : F[i] = JoinStep(s, F, i)
<1> DEFINE n == Len(s)
           w == [i \in 1 .. n |-> Piece(s[i])]
           next == [i \in 1 .. n |-> i + 1]
           F == JoinFrom(s)
<1>1. n \in Nat
  OBVIOUS
<1>2. \A i \in 1 .. n : next[i] \in i + 1 .. n + 1
  BY <1>1
<1>3. ASSUME NEW f, NEW i \in 1 .. n + 1 PROVE JoinStep(s, f, i) = Turn(n, w, next, f, i)
  <2>1. CASE i > n
    BY <2>1, Zenon DEF JoinStep, Turn
  <2>2. CASE ~(i > n)
    <3>1. i \in 1 .. n
      BY <2>2, <1>1
    <3>2. w[i] = Piece(s[i]) /\ next[i] = i + 1
      BY <3>1, Zenon
    <3>3. Turn(n, w, next, f, i) = w[i] \o f[next[i]]
      BY <2>2, Zenon DEF Turn
    <3>4. JoinStep(s, f, i) = Piece(s[i]) \o f[i + 1]
      BY <2>2, Zenon DEF JoinStep
    <3> QED BY <3>2, <3>3, <3>4, Zenon
  <2> QED BY <2>1, <2>2
<1>4. \E f : f = [i \in 1 .. n + 1 |-> JoinStep(s, f, i)]
  <2>1. PICK f : f = [i \in 1 .. n + 1 |-> Turn(n, w, next, f, i)]
    <3> HIDE DEF n, w, next
    <3> QED BY <1>1, <1>2, LoopEnds
  <2>2. f = [i \in 1 .. n + 1 |-> JoinStep(s, f, i)]
    <3> HIDE DEF w, next, n
    <3> QED BY <1>3, <2>1
  <2> QED BY <2>2
<1>5. F = [i \in 1 .. n + 1 |-> JoinStep(s, F, i)]
  BY <1>4 DEF JoinFrom
<1> HIDE DEF F
<1> QED BY <1>5 DEF F

\* At a place before the end the piece of the character comes in front.
LEMMA JoinPlaces ==
    ASSUME NEW S, NEW s \in Seq(S)
    PROVE  /\ JoinFrom(s)[Len(s) + 1] = <<>>
           /\ \A i \in 1 .. Len(s) : JoinFrom(s)[i] = Piece(s[i]) \o JoinFrom(s)[i + 1]
<1> DEFINE n == Len(s)
           F == JoinFrom(s)
<1>1. n \in Nat
  OBVIOUS
<1>2. \A i \in 1 .. n + 1 : F[i] = JoinStep(s, F, i)
  BY JoinFacts
<1>3. n + 1 \in 1 .. n + 1 /\ n + 1 > n
  BY <1>1
<1>4. \A i \in 1 .. n : i \in 1 .. n + 1 /\ ~(i > n)
  BY <1>1
<1> HIDE DEF F
<1>5. F[n + 1] = <<>>
  BY <1>2, <1>3, Zenon DEF JoinStep
<1>6. \A i \in 1 .. n : F[i] = Piece(s[i]) \o F[i + 1]
  BY <1>2, <1>4, Zenon DEF JoinStep
<1> QED BY <1>5, <1>6, Zenon DEF F

\* Two underscores in a row.
Pair(s, i) == s[i] = "_" /\ i < Len(s) /\ s[i + 1] = "_"

\* At a place before the end a pair becomes a separator, and any other character stays.
LEMMA ScanPlaces ==
    ASSUME NEW S, NEW s \in Seq(S)
    PROVE  /\ ScanFrom(s)[Len(s) + 1] = <<>>
           /\ \A i \in 1 .. Len(s) : Pair(s, i) =>
                 ScanFrom(s)[i] = <<Separator>> \o ScanFrom(s)[i + 2]
           /\ \A i \in 1 .. Len(s) : ~Pair(s, i) =>
                 ScanFrom(s)[i] = <<s[i]>> \o ScanFrom(s)[i + 1]
<1> DEFINE n == Len(s)
           F == ScanFrom(s)
<1>1. n \in Nat
  OBVIOUS
<1>2. \A i \in 1 .. n + 1 : F[i] = ScanStep(s, F, i)
  BY ScanFacts
<1>3. n + 1 \in 1 .. n + 1 /\ n + 1 > n
  BY <1>1
<1>4. \A i \in 1 .. n : i \in 1 .. n + 1 /\ ~(i > n)
  BY <1>1
<1> HIDE DEF F
<1>5. F[n + 1] = <<>>
  BY <1>2, <1>3, Zenon DEF ScanStep
<1>6. ASSUME NEW i \in 1 .. n, Pair(s, i) PROVE F[i] = <<Separator>> \o F[i + 2]
  BY <1>2, <1>4, <1>6, Zenon DEF ScanStep, Pair
<1>7. ASSUME NEW i \in 1 .. n, ~Pair(s, i) PROVE F[i] = <<s[i]>> \o F[i + 1]
  BY <1>2, <1>4, <1>7, Zenon DEF ScanStep, Pair
<1> QED BY <1>5, <1>6, <1>7, Zenon DEF F

\* Nothing joined is nothing.
LEMMA JoinedEmpty == Joined(<<>>) = <<>>
<1>1. <<>> \in Seq({}) /\ Len(<<>>) = 0 /\ Len(<<>>) + 1 = 1
  OBVIOUS
<1>2. JoinFrom(<<>>)[Len(<<>>) + 1] = <<>>
  BY <1>1, JoinPlaces
<1> QED BY <1>1, <1>2, JoinedIs

\* g_strjoinv of one more character is what it makes, in front of the rest.
LEMMA JoinedPush ==
    ASSUME NEW S, NEW s \in Seq(S), NEW c \in S
    PROVE  Joined(<<c>> \o s) = Piece(c) \o Joined(s)
<1> DEFINE t == <<c>> \o s
           n == Len(s)
           F == JoinFrom(s)
           G == JoinFrom(t)
           K == {i \in 1 .. n + 1 : G[i + 1] = F[i]}
<1>1. /\ n \in Nat /\ t \in Seq(S) /\ Len(t) = n + 1
      /\ t[1] = c /\ \A i \in 1 .. n : t[i + 1] = s[i]
  OBVIOUS
<1>2. F[n + 1] = <<>> /\ \A i \in 1 .. n : F[i] = Piece(s[i]) \o F[i + 1]
  BY JoinPlaces
<1>3. G[(n + 1) + 1] = <<>> /\ \A i \in 1 .. n + 1 : G[i] = Piece(t[i]) \o G[i + 1]
  <2>1. t \in Seq(S) /\ Len(t) = n + 1
    BY <1>1
  <2> HIDE DEF t, n
  <2>2. G[Len(t) + 1] = <<>> /\ \A i \in 1 .. Len(t) : G[i] = Piece(t[i]) \o G[i + 1]
    BY <2>1, JoinPlaces
  <2> QED BY <2>1, <2>2
<1> HIDE DEF t, F, G, n
<1>4. n + 1 \in K
  <2>1. n + 1 \in 1 .. n + 1
    BY <1>1
  <2> QED BY <2>1, <1>2, <1>3, Zenon
<1>5. ASSUME NEW i \in 1 .. n, \A j \in i + 1 .. n + 1 : j \in K PROVE i \in K
  <2>0. i + 1 \in i + 1 .. n + 1 /\ i + 1 \in 1 .. n + 1 /\ i \in 1 .. n + 1
    BY <1>1
  <2>1. G[(i + 1) + 1] = F[i + 1]
    BY <1>5, <2>0, Zenon
  <2>2. G[i + 1] = Piece(t[i + 1]) \o G[(i + 1) + 1]
    BY <2>0, <1>3, Zenon
  <2>3. F[i] = Piece(s[i]) \o F[i + 1]
    BY <1>2, Zenon
  <2>4. t[i + 1] = s[i]
    BY <1>1
  <2>5. G[i + 1] = F[i]
    BY <2>1, <2>2, <2>3, <2>4, Zenon
  <2> QED BY <2>5, <2>0, Zenon
<1>6. 1 \in K
  <2>1. 1 .. n + 1 \subseteq K
    <3> HIDE DEF K
    <3> QED BY <1>1, <1>4, <1>5, Backwards
  <2>2. 1 \in 1 .. n + 1
    BY <1>1
  <2> HIDE DEF K
  <2> QED BY <2>1, <2>2
<1>7. G[1 + 1] = F[1]
  BY <1>6, Zenon
<1>8. G[1] = Piece(t[1]) \o G[1 + 1]
  <2>1. 1 \in 1 .. n + 1
    BY <1>1
  <2> QED BY <2>1, <1>3, Zenon
<1>9. G[1] = Piece(c) \o F[1]
  BY <1>1, <1>7, <1>8, Zenon
<1>10. Joined(t) = G[1] /\ Joined(s) = F[1]
  BY JoinedIs, Zenon DEF F, G
<1>11. Joined(t) = Piece(c) \o Joined(s)
  BY <1>9, <1>10, Zenon
<1> QED BY <1>11, Zenon DEF t

\* A sequence with one more element in front.
LEMMA InFront ==
    ASSUME NEW S, NEW u \in Seq(S), NEW a \in S
    PROVE  <<a>> \o u \in Seq(S)
OBVIOUS

\* A sequence with an element in front twice.
LEMMA TwoInFront ==
    ASSUME NEW S, NEW u \in Seq(S), NEW a \in S
    PROVE  <<a>> \o (<<a>> \o u) = <<a, a>> \o u
<1>1. <<a>> \in Seq(S) /\ <<a, a>> \in Seq(S)
  OBVIOUS
<1> QED OBVIOUS

\* A name without separators comes back from the class that is named by it: the
\* pairs of underscores become separators, and the separators pairs.
LEMMA RoundTripOfNames ==
    ASSUME NEW S, NEW s \in Seq(S), \A i \in DOMAIN s : s[i] # Separator
    PROVE  Joined(Scanned(s)) = s
<1> DEFINE C == S \cup {Separator}
           n == Len(s)
           F == ScanFrom(s)
           K == {i \in 1 .. n + 1 : F[i] \in Seq(C) /\ Joined(F[i]) = SubSeq(s, i, n)}
<1>1. n \in Nat /\ DOMAIN s = 1 .. n
  OBVIOUS
<1>2. /\ F[n + 1] = <<>>
      /\ \A i \in 1 .. n : Pair(s, i) => F[i] = <<Separator>> \o F[i + 2]
      /\ \A i \in 1 .. n : ~Pair(s, i) => F[i] = <<s[i]>> \o F[i + 1]
  BY ScanPlaces
<1> HIDE DEF F
<1>3. /\ SubSeq(s, n + 1, n) = <<>> /\ SubSeq(s, 1, n) = s
      /\ \A i \in 1 .. n : SubSeq(s, i, n) = <<s[i]>> \o SubSeq(s, i + 1, n)
      /\ \A i \in 1 .. n + 1 : SubSeq(s, i, n) \in Seq(C)
  <2>1. SubSeq(s, n + 1, n) = <<>> /\ SubSeq(s, 1, n) = s
    OBVIOUS
  <2>2. ASSUME NEW i \in 1 .. n PROVE SubSeq(s, i, n) = <<s[i]>> \o SubSeq(s, i + 1, n)
    OBVIOUS
  <2>3. \A i \in 1 .. n + 1 : SubSeq(s, i, n) \in Seq(C)
    <3>1. s \in Seq(C)
      OBVIOUS
    <3> HIDE DEF C
    <3> QED BY <3>1
  <2> QED BY <2>1, <2>2, <2>3
<1>4. n + 1 \in K
  <2>1. n + 1 \in 1 .. n + 1 /\ <<>> \in Seq(C)
    BY <1>1
  <2>2. F[n + 1] \in Seq(C)
    BY <2>1, <1>2, Zenon
  <2>3. Joined(F[n + 1]) = SubSeq(s, n + 1, n)
    BY <1>2, <1>3, JoinedEmpty, Zenon
  <2> QED BY <2>1, <2>2, <2>3, Zenon
<1>5. ASSUME NEW i \in 1 .. n, \A j \in i + 1 .. n + 1 : j \in K PROVE i \in K
  <2>0. i \in 1 .. n + 1 /\ i + 1 \in i + 1 .. n + 1 /\ i + 1 \in 1 .. n + 1
    BY <1>1
  <2>4. s[i] \in C /\ s[i] # Separator
    BY <1>1
  <2>5. SubSeq(s, i, n) = <<s[i]>> \o SubSeq(s, i + 1, n)
    BY <1>3, Zenon
  <2>6. Separator \in C
    OBVIOUS
  <2>1. CASE Pair(s, i)
    <3> DEFINE q == F[i + 2]
               u == SubSeq(s, i + 2, n)
    <3>10. s[i] = "_" /\ i < n /\ s[i + 1] = "_"
      BY <2>1, Zenon DEF Pair
    <3>11. /\ i + 2 \in i + 1 .. n + 1
          /\ i + 1 \in 1 .. n /\ (i + 1) + 1 = i + 2 /\ i + 2 \in 1 .. n + 1
      <4>1. i < n
        BY <3>10
      <4> QED BY <4>1, <1>1
    <3>0. /\ s[i] = "_" /\ s[i + 1] = "_" /\ i + 2 \in i + 1 .. n + 1
          /\ i + 1 \in 1 .. n /\ (i + 1) + 1 = i + 2 /\ i + 2 \in 1 .. n + 1
      BY <3>10, <3>11, Zenon
    <3>1. F[i] = <<Separator>> \o q
      BY <1>2, <2>1, Zenon
    <3>2. q \in Seq(C) /\ Joined(q) = u
      BY <1>5, <3>0, Zenon
    <3>3. SubSeq(s, i, n) = <<"_">> \o (<<"_">> \o u)
      BY <3>0, <2>5, <1>3, Zenon
    <3>4. u \in Seq(C)
      BY <1>3, <3>0, Zenon
    <3> HIDE DEF q, u, n, C
    <3>5. Joined(<<Separator>> \o q) = Piece(Separator) \o Joined(q)
      BY <3>2, <2>6, JoinedPush
    <3>6. Piece(Separator) = <<"_", "_">>
      BY Zenon DEF Piece
    <3>7. <<"_">> \o (<<"_">> \o u) = <<"_", "_">> \o u
      BY <3>0, <3>4, <2>4, TwoInFront
    <3>8. Joined(F[i]) = SubSeq(s, i, n)
      BY <3>1, <3>2, <3>3, <3>5, <3>6, <3>7, Zenon
    <3>9. <<Separator>> \o q \in Seq(C)
      BY <3>2, <2>6, InFront
    <3> QED BY <3>8, <3>9, <3>1, <2>0, Zenon
  <2>2. CASE ~Pair(s, i)
    <3> DEFINE r == F[i + 1]
    <3>1. F[i] = <<s[i]>> \o r
      BY <1>2, <2>2, Zenon
    <3>2. r \in Seq(C) /\ Joined(r) = SubSeq(s, i + 1, n)
      BY <1>5, <2>0, Zenon
    <3> HIDE DEF r, n, C
    <3>3. Joined(<<s[i]>> \o r) = Piece(s[i]) \o Joined(r)
      BY <3>2, <2>4, JoinedPush
    <3>4. Piece(s[i]) = <<s[i]>>
      BY <2>4, Zenon DEF Piece
    <3>5. Joined(F[i]) = SubSeq(s, i, n)
      BY <3>1, <3>2, <3>3, <3>4, <2>5, Zenon
    <3>6. <<s[i]>> \o r \in Seq(C)
      BY <3>2, <2>4
    <3> QED BY <3>5, <3>6, <3>1, <2>0, Zenon
  <2> QED BY <2>1, <2>2
<1>6. 1 \in K
  <2>1. 1 .. n + 1 \subseteq K
    <3> HIDE DEF K, n
    <3> QED BY <1>1, <1>4, <1>5, Backwards
  <2>2. 1 \in 1 .. n + 1
    BY <1>1
  <2> HIDE DEF K
  <2> QED BY <2>1, <2>2
<1>7. Joined(F[1]) = SubSeq(s, 1, n)
  BY <1>6, Zenon
<1>8. Scanned(s) = F[1]
  BY ScannedIs, Zenon DEF F
<1> QED BY <1>3, <1>7, <1>8, Zenon

\* The name of a class of a typelib tells which class it is: a namespace has no
\* separator.
LEMMA NamespacedTells ==
    ASSUME NEW i \in Infos, NEW j \in Infos, Namespaced(i) = Namespaced(j)
    PROVE  i = j
<1>1. ASSUME NEW a \in Infos, NEW b \in Infos, Namespaced(a) = Namespaced(b)
      PROVE  ~(Len(a.ns) < Len(b.ns))
  <2> SUFFICES ASSUME Len(a.ns) < Len(b.ns) PROVE FALSE
    OBVIOUS
  <2> DEFINE n == Len(a.ns) + 1
             s == a.ns
             t == b.ns
             u == a.name
             v == b.name
  <2>1. s \in Seq(STRING) /\ t \in Seq(STRING) /\ u \in Seq(STRING) /\ v \in Seq(STRING)
    BY NamesAssumption
  <2>2. t[n] # Separator
    <3>1. n \in DOMAIN t
      BY <2>1
    <3>2. Separator \notin {t[k] : k \in DOMAIN t}
      BY NamesAssumption
    <3> HIDE DEF n, t
    <3> QED BY <3>1, <3>2
  <2> HIDE DEF s, t, u, v
  <2>3. s \o <<Separator>> \o u = t \o <<Separator>> \o v
    BY <1>1, Zenon DEF Namespaced, s, t, u, v
  <2>4. n = Len(s) + 1 /\ n <= Len(t) /\ n \in Nat
    BY <2>1 DEF s, t
  <2> HIDE DEF n
  <2>5. (s \o <<Separator>> \o u)[n] = Separator
    BY <2>1, <2>4
  <2>6. (t \o <<Separator>> \o v)[n] = t[n]
    BY <2>1, <2>4
  <2> QED BY <2>2, <2>3, <2>5, <2>6
<1>2. Len(i.ns) = Len(j.ns)
  <2>1. Len(i.ns) \in Nat /\ Len(j.ns) \in Nat
    BY NamesAssumption
  <2>2. ~(Len(i.ns) < Len(j.ns)) /\ ~(Len(j.ns) < Len(i.ns))
    BY <1>1
  <2> QED BY <2>1, <2>2
<1>3. i.ns = j.ns /\ i.name = j.name
  <2>1. /\ i.ns \in Seq(STRING) /\ i.name \in Seq(STRING)
        /\ j.ns \in Seq(STRING) /\ j.name \in Seq(STRING)
    BY NamesAssumption
  <2>2. i.ns \o <<Separator>> \o i.name = j.ns \o <<Separator>> \o j.name
    BY Zenon DEF Namespaced
  <2> DEFINE s == i.ns
             t == j.ns
             u == i.name
             v == j.name
  <2>3. s \in Seq(STRING) /\ t \in Seq(STRING) /\ u \in Seq(STRING) /\ v \in Seq(STRING)
    BY <2>1
  <2>4. Len(s) = Len(t) /\ s \o <<Separator>> \o u = t \o <<Separator>> \o v
    BY <1>2, <2>2, Zenon
  <2> HIDE DEF s, t, u, v
  <2>5. s = t /\ u = v
    <3> DEFINE x == s \o <<Separator>> \o u
               y == t \o <<Separator>> \o v
    <3>1. s = SubSeq(x, 1, Len(s)) /\ t = SubSeq(y, 1, Len(t))
      BY <2>3
    <3>2. u = SubSeq(x, Len(s) + 2, Len(x)) /\ v = SubSeq(y, Len(t) + 2, Len(y))
      BY <2>3
    <3>3. x = y /\ Len(s) = Len(t)
      BY <2>4, Zenon
    <3> HIDE DEF x, y
    <3> QED BY <3>1, <3>2, <3>3, Zenon
  <2> QED BY <2>5 DEF s, t, u, v
<1> QED BY <1>3, NamesAssumption

\* What a class stands for, from what the class table may contain.
LEMMA TypesOfClasses == NamesTypeOK => ClassMeansType
<1> SUFFICES ASSUME NamesTypeOK, NEW k \in ClassNames, class[k] # NoType
             PROVE  \/ TypeOf(PhpName(class[k])) = class[k]
                    \/ class[k] \in types /\ \E i \in Loaded : Namespaced(i) = Scanned(class[k])
  BY DEF ClassMeansType
<1> DEFINE type == class[k]
<1>1. type \in types \/ \E i \in Loaded : i.gtype = type
  <2>1. class[k] \in types \cup {i.gtype : i \in Loaded} \cup {NoType}
    BY DEF NamesTypeOK
  <2> QED BY <2>1
<1> HIDE DEF type
<1>2. CASE \E i \in Loaded : i.gtype = type
  <2> DEFINE j == CHOOSE i \in Loaded : i.gtype = type
             h == CHOOSE i \in Loaded : Namespaced(i) = Namespaced(j)
  <2>1. j \in Loaded /\ j.gtype = type
    BY <1>2, Zenon
  <2>2. PhpName(type) = Namespaced(j)
    BY <1>2, Zenon DEF PhpName
  <2> HIDE DEF j
  <2>3. h \in Loaded /\ Namespaced(h) = Namespaced(j)
    BY <2>1, Zenon
  <2>4. TypeOf(Namespaced(j)) = h.gtype
    BY <2>1, Zenon DEF TypeOf
  <2> HIDE DEF h
  <2>5. h = j
    BY <2>1, <2>3, NamespacedTells DEF Loaded
  <2> QED BY <2>1, <2>2, <2>4, <2>5, Zenon DEF type
<1>3. CASE type \in types /\ ~\E i \in Loaded : i.gtype = type
  <2>1. PhpName(type) = Scanned(type)
    BY <1>3, Zenon DEF PhpName
  <2>2. Joined(Scanned(type)) = type
    <3>1. type \in TypeNames
      BY <1>3 DEF NamesTypeOK
    <3>2. type \in Seq(STRING) /\ Separator \notin {type[i] : i \in DOMAIN type}
      BY <3>1, NamesAssumption
    <3> QED BY <3>2, RoundTripOfNames
  <2>3. CASE \E i \in Loaded : Namespaced(i) = Scanned(type)
    BY <1>3, <2>3, Zenon DEF type
  <2>4. CASE ~\E i \in Loaded : Namespaced(i) = Scanned(type)
    <3>1. TypeOf(Scanned(type)) = type
      BY <1>3, <2>2, <2>4, Zenon DEF TypeOf
    <3> QED BY <2>1, <3>1, Zenon DEF type
  <2> QED BY <2>3, <2>4
<1> QED BY <1>1, <1>2, <1>3, Zenon

\* For every name of a type, every typelib and every way of folding the case: the
\* constructor of a class makes an instance of the GType that the class was
\* registered for, as phpname_from_gtype and g_type_from_phpname undo each other,
\* unless a class of a typelib hides the name.
THEOREM ClassesMeanTypes == Spec => []ClassMeansType
<1>1. Inv => ClassMeansType
  BY TypesOfClasses DEF Inv
<1> QED BY <1>1, InvHolds, PTL
=============================================================================
