------------------------- MODULE PropertyStoreProofs -------------------------
(***************************************************************************)
(* Proofs about PropertyStore: what is in a table is a value that GLib     *)
(* accepted for the property it was written to, for every hierarchy of     *)
(* classes, every width and every number of objects and of requests.       *)
(***************************************************************************)
EXTENDS PropertyStore, ConversionProofs, FiniteSetTheorems,
        WellFoundedInduction

\* What a GParamSpec says fits its type.
SpecData(s) ==
    /\ DOMAIN s = {"name", "type", "default", "flags", "min", "max", "owner", "id"}
    /\ s.type \in PropertyTypes
    /\ s.type \in Integral \cup Real =>
          s.min \in Int /\ s.max \in Int /\ s.min <= s.max /\ s.default[2] \in Int
    /\ s.type \in Integral => s.min \in Numbers(s.type) /\ s.max \in Numbers(s.type)
    /\ s.default[1] = ValueType(s.type)

SpecsSound ==
    /\ pspec = [p \in ParamSpecs |-> pspec[p]]
    /\ \A p \in ParamSpecs : IsSpec(p) =>
          /\ SpecData(pspec[p])
          /\ pspec[p].owner \in generated \cup {Null}
          /\ pspec[p].owner # Null => pspec[p].id \in Ids

\* A value of the type of s, within its bounds.
InBounds(s, g) ==
    /\ g[1] = ValueType(s.type)
    /\ s.type \in Integral \cup Real => g[2] \in s.min .. s.max
    /\ s.type = "unichar" => g[2] \in Unichars

\* What was accepted reads as what it was written from if that fits.
WrittenSound(s, place) ==
    /\ InBounds(s, place.gvalue)
    /\ Fits(s, place.from) => ToZval(s.type, place.gvalue) = place.from

\* Place i of object o has what its property p accepted.
PlaceSound(o, i, p) ==
    /\ object[o].place[i].by = p /\ Installed(p) /\ pspec[p].id = i
    /\ WrittenSound(pspec[p], object[o].place[i])

ObjectSound(o) ==
    Exists(o) =>
        /\ DOMAIN object[o] = {"class", "wrapped", "native", "table", "place"}
        /\ object[o].class \in generated
        /\ object[o].table \in 1 .. request
        /\ object[o].place = [i \in Ids |-> object[o].place[i]]
        /\ \A i \in Ids : object[o].place[i].by # Null =>
              \E p \in ParamSpecs : PlaceSound(o, i, p)

ObjectsSound ==
    /\ object = [o \in Objs |-> object[o]]
    /\ \A o \in Objs : ObjectSound(o)

Inv ==
    /\ request \in 1 .. MaxRequests /\ phase \in {"running", "dead"}
    /\ generated \subseteq Classes
    /\ SpecsSound /\ ObjectsSound

-----------------------------------------------------------------------------
(* Classes *)

\* There is a smallest in every set of numbers.
LEMMA Smallest ==
    ASSUME NEW T \in SUBSET Nat, T # {}
    PROVE  \E x \in T : \A y \in T : x <= y
<1>1. PICK x \in T : \A y \in T : ~(<<y, x>> \in OpToRel(<, Nat))
  BY NatLessThanWellFounded, WFMin
<1>2. \A y \in T : ~(y < x)
  BY <1>1 DEF OpToRel
<1> QED BY <1>2

\* Ancestors of a class are a line, so of several there is one below the others.
LEMMA Nearest ==
    ASSUME NEW c \in Classes, NEW S \in SUBSET Ancestors[c], S # {}
    PROVE  \E a \in S : \A b \in S : b \in Ancestors[a]
<1> DEFINE n(a) == Cardinality(Ancestors[c]) - Cardinality(Ancestors[a])
           T == {n(a) : a \in S}
<1>1. ASSUME NEW a \in S
      PROVE  /\ a \in Classes /\ IsFiniteSet(Ancestors[a]) /\ a \in Ancestors[a]
             /\ Cardinality(Ancestors[a]) \in Nat /\ n(a) \in Nat
  <2>1. a \in Classes /\ Ancestors[a] \subseteq Ancestors[c]
    BY StoreAssumption
  <2>2. IsFiniteSet(Ancestors[a]) /\ IsFiniteSet(Ancestors[c]) /\ a \in Ancestors[a]
    BY <2>1, StoreAssumption
  <2>3. Cardinality(Ancestors[a]) <= Cardinality(Ancestors[c])
    BY <2>1, <2>2, FS_Subset
  <2> QED BY <2>1, <2>2, <2>3, FS_CardinalityType
<1>2. T \in SUBSET Nat /\ T # {}
  BY <1>1
<1>3. PICK x \in T : \A y \in T : x <= y
  BY <1>2, Smallest
<1>4. PICK a \in S : x = n(a)
  BY <1>3
<1>5. ASSUME NEW b \in S PROVE b \in Ancestors[a]
  <2>1. n(a) <= n(b)
    BY <1>3, <1>4
  <2>2. Cardinality(Ancestors[b]) <= Cardinality(Ancestors[a])
    <3>1. IsFiniteSet(Ancestors[c])
      BY StoreAssumption
    <3> QED BY <1>1, <2>1, <3>1, FS_CardinalityType
  <2>3. CASE a \in Ancestors[b]
    <3>1. Ancestors[a] \subseteq Ancestors[b]
      BY <1>1, <2>3, StoreAssumption
    <3>2. Cardinality(Ancestors[a]) <= Cardinality(Ancestors[b])
      BY <1>1, <3>1, FS_Subset
    <3>3. Cardinality(Ancestors[a]) = Cardinality(Ancestors[b])
      BY <1>1, <2>2, <3>2
    <3>4. Ancestors[b] = Ancestors[a]
      BY <1>1, <3>1, <3>3, FS_Subset
    <3> QED BY <1>1, <3>4
  <2>4. a \in Ancestors[b] \/ b \in Ancestors[a]
    BY StoreAssumption
  <2> QED BY <2>3, <2>4
<1> QED BY <1>4, <1>5

\* g_object_class_find_property finds what there is.
LEMMA FindNearest ==
    ASSUME NEW c \in Classes, NEW name
    PROVE  \/ Find(c, name) = Null
           \/ Find(c, name) \in {p \in PropertiesOf(c) : pspec[p].name = name}
<1> DEFINE named == {p \in PropertiesOf(c) : pspec[p].name = name}
<1>1. CASE named = {}
  BY <1>1 DEF Find
<1>2. CASE named # {}
  <2> DEFINE S == {pspec[p].owner : p \in named}
  <2>1. S \in SUBSET Ancestors[c] /\ S # {}
    BY <1>2 DEF PropertiesOf
  <2>2. PICK a \in S : \A b \in S : b \in Ancestors[a]
    <3> HIDE DEF S
    <3> QED BY <2>1, Nearest
  <2>3. \E p \in named : \A q \in named : pspec[q].owner \in Ancestors[pspec[p].owner]
    BY <2>2
  <2> QED BY <1>2, <2>3 DEF Find
<1> QED BY <1>1, <1>2

-----------------------------------------------------------------------------
(* Values *)

\* Every numeric type has a value type of its own.
LEMMA ValueTypes ==
    \A t \in PropertyTypes :
        /\ t \in Integral \cup Real => ValueType(t) = t
        /\ t \in {"string", "boolean"} => ValueType(t) = t
        /\ t = "unichar" => ValueType(t) = "uint"
        /\ t \in Integral \/ t \in Real \/ t \in {"string", "boolean", "unichar"}
BY DEF ValueType, PropertyTypes, Integral, Real, Signed

\* What GLib accepts for a property is of its type and within its bounds.
LEMMA AcceptedInBounds ==
    ASSUME NEW s, SpecData(s), NEW g, NEW v \in Accepted(s, g)
    PROVE  InBounds(s, v)
<1>0. PICK u \in Transformed(g, ValueType(s.type)) :
          \E w \in Validated(s, u) : v = <<ValueType(s.type), w>>
  BY DEF Accepted
<1>1. PICK w \in Validated(s, u) : v = <<ValueType(s.type), w>>
  BY <1>0
<1>2. CASE s.type \in Integral \cup Real
  <2>1. s.min \in Int /\ s.max \in Int /\ s.min <= s.max /\ s.type # "unichar"
    BY <1>2 DEF SpecData, Integral, Real, Signed
  <2>2. w \in s.min .. s.max
    BY <1>1, <1>2, <2>1 DEF Validated
  <2> QED BY <1>1, <2>1, <2>2 DEF InBounds
<1>3. CASE s.type = "unichar"
  <2>1. s.type \notin Integral \cup Real
    BY <1>3 DEF Integral, Real, Signed
  <2>2. w \in Unichars
    BY <1>1, <1>3, <2>1, CodesAssumption DEF Validated
  <2> QED BY <1>1, <2>1, <2>2 DEF InBounds
<1>4. CASE s.type \notin Integral \cup Real \cup {"unichar"}
  BY <1>1, <1>4 DEF InBounds
<1> QED BY <1>2, <1>3, <1>4

\* What fits is accepted as it is, and reads back.
LEMMA AcceptedFits ==
    ASSUME NEW s, SpecData(s), NEW z, Fits(s, z), NEW v \in Accepted(s, ToGValue(s.type, z))
    PROVE  ToZval(s.type, v) = <<z[1], z[2]>>
<1> DEFINE g == ToGValue(s.type, z)
           t == ValueType(s.type)
<1>0. PICK u \in Transformed(g, t) : \E w \in Validated(s, u) : v = <<t, w>>
  BY DEF Accepted
<1>1. PICK w \in Validated(s, u) : v = <<t, w>>
  BY <1>0
<1>2. CASE s.type \in Integral
  <2>1. /\ z[1] = "long" /\ z[2] \in s.min .. s.max /\ t = s.type
        /\ s.min \in Int /\ s.max \in Int
        /\ s.min \in Numbers(s.type) /\ s.max \in Numbers(s.type)
        /\ s.type \notin {"unichar", "string", "boolean"} \cup Real
    BY <1>2, ValueTypes DEF Fits, SpecData, Integral, Signed, Real
  <2>2. z[2] \in Numbers(s.type) /\ z[2] \in Int
    BY <1>2, <2>1, WidthType DEF Numbers
  <2>3. g = z
    BY <2>1 DEF ToGValue
  <2>4. u = z[2]
    <3>1. CASE s.type = "long"
      BY <1>1, <2>1, <2>3, <3>1 DEF Transformed
    <3>2. CASE s.type # "long"
      <4>a. /\ g[1] = "long" /\ g[2] = z[2] /\ t = s.type
            /\ t \in Integral /\ t # "long" /\ t \notin {"boolean", "double", "float", "string"}
        BY <1>2, <2>1, <2>3, <3>2 DEF Real
      <4> HIDE DEF g, t
      <4>1. Transformed(g, t) = {Cast(s.type, z[2])}
        BY <4>a DEF Transformed
      <4> QED BY <1>1, <1>2, <2>2, <4>1, CastInRange
    <3> QED BY <3>1, <3>2
  <2>5. w = z[2]
    BY <1>1, <1>2, <2>1, <2>4 DEF Validated
  <2> QED BY <1>1, <1>2, <2>1, <2>5 DEF ToZval, Real
<1>3. CASE s.type \in Real
  <2>1. /\ z[1] = "double" /\ z[2] = Single(z[2]) /\ z[2] \in s.min .. s.max /\ t = s.type
        /\ s.type \notin {"unichar", "string", "boolean"} \cup Integral
    BY <1>3, ValueTypes DEF Fits, SpecData, Integral, Signed, Real
  <2>2. g = <<"double", z[2]>>
    BY <2>1 DEF ToGValue
  <2>3. u = z[2]
    BY <1>1, <1>3, <2>1, <2>2 DEF Transformed, Real, Integral, Signed
  <2>4. w = z[2]
    BY <1>1, <1>3, <2>1, <2>3 DEF Validated
  <2> QED BY <1>1, <1>3, <2>1, <2>4 DEF ToZval
<1>4. CASE s.type = "boolean"
  <2>1. z[1] = "bool" /\ s.type \notin Integral \cup Real /\ t = "boolean"
    BY <1>4 DEF Fits, Integral, Signed, Real, ValueType
  <2>2. g = <<"boolean", z[2]>>
    BY <2>1 DEF ToGValue
  <2>3. w = z[2]
    BY <1>1, <1>4, <2>1, <2>2 DEF Transformed, Validated
  <2> QED BY <1>1, <1>4, <2>1, <2>3 DEF ToZval
<1>5. CASE s.type = "string"
  <2>1. z[1] = "string" /\ s.type \notin Integral \cup Real /\ t = "string"
    BY <1>5 DEF Fits, Integral, Signed, Real, ValueType
  <2>2. g = z
    BY <1>5, <2>1 DEF ToGValue
  <2>3. w = z[2]
    BY <1>1, <1>5, <2>1, <2>2 DEF Transformed, Validated
  <2> QED BY <1>1, <1>5, <2>1, <2>3 DEF ToZval
<1>6. CASE s.type = "unichar"
  <2>1. /\ z[1] = "string" /\ FirstChar(z[2]) \in Unichars /\ z[2] = Utf8(FirstChar(z[2]))
        /\ s.type \notin Integral \cup Real /\ t = "uint"
    BY <1>6 DEF Fits, Integral, Signed, Real, ValueType
  <2>2. g = <<"uint", FirstChar(z[2])>>
    BY <1>6, <2>1 DEF ToGValue
  <2>3. w = FirstChar(z[2])
    BY <1>1, <1>6, <2>1, <2>2 DEF Transformed, Validated
  <2> QED BY <1>1, <1>6, <2>1, <2>3 DEF ToZval
<1> QED BY <1>2, <1>3, <1>4, <1>5, <1>6, ValueTypes DEF SpecData

\* A constructor of GObject\ParamSpec makes bounds of the width of the type.
LEMMA BoundedSound ==
    ASSUME NEW a \in Arguments, NEW s, HasDefault(Bounded(a)),
           s = [name |-> Bounded(a).name, type |-> Bounded(a).type,
                default |-> Bounded(a).default, flags |-> Bounded(a).flags,
                min |-> Bounded(a).min, max |-> Bounded(a).max, owner |-> Null, id |-> 0]
    PROVE  SpecData(s) /\ s.owner = Null
<1> DEFINE b == Bounded(a)
<1>1. /\ DOMAIN a = {"name", "type", "default", "min", "max", "flags"}
      /\ a.type \in PropertyTypes
      /\ a.default[1] = IF a.type = "unichar" THEN "string" ELSE a.type
      /\ a.type \in Integral \cup Real => a.min \in Int /\ a.max \in Int /\ a.default[2] \in Int
  BY ArgumentsAssumption
<1>2. b.type = a.type
  BY <1>1 DEF Bounded
<1>3. CASE a.type \in Integral
  <2>1. /\ b.min = Cast(a.type, a.min) /\ b.max = Cast(a.type, a.max)
        /\ b.default = <<a.type, Cast(a.type, a.default[2])>>
    <3>1. a.type \notin {"float", "unichar"}
      BY <1>3 DEF Integral, Signed
    <3>2. b = [a EXCEPT !.min = Cast(a.type, @), !.max = Cast(a.type, @),
                        !.default = <<a.type, Cast(a.type, @[2])>>]
      BY <1>3, <3>1 DEF Bounded
    <3> HIDE DEF b
    <3> QED BY <1>1, <3>2
  <2>2. /\ b.min \in Numbers(a.type) /\ b.max \in Numbers(a.type)
        /\ b.default[2] \in Numbers(a.type)
    BY <1>1, <1>3, <2>1, CastInRange
  <2>3. Numbers(a.type) \subseteq Int
    BY <1>3, WidthType DEF Numbers
  <2>4. b.default[2] \in b.min .. b.max
    BY <1>2, <1>3 DEF HasDefault
  <2>5. ValueType(a.type) = a.type
    BY <1>1, <1>3, ValueTypes
  <2> HIDE DEF b
  <2> QED BY <1>1, <1>2, <1>3, <2>1, <2>2, <2>3, <2>4, <2>5 DEF SpecData, b
<1>4. CASE a.type \in Real
  <2>1. a.type \notin Integral /\ a.type # "unichar"
    BY <1>4 DEF Integral, Real, Signed
  <2>2. \A n \in Int : Single(n) \in Int
    BY DEF Single
  <2>3. /\ b.min \in Int /\ b.max \in Int /\ b.default[2] \in Int
        /\ b.default[1] = a.type
    <3>1. CASE a.type = "float"
      BY <1>1, <1>4, <2>1, <2>2, <3>1 DEF Bounded
    <3>2. CASE a.type # "float"
      BY <1>1, <1>4, <2>1, <3>2 DEF Bounded
    <3> QED BY <3>1, <3>2
  <2>4. b.default[2] \in b.min .. b.max
    BY <1>2, <1>4 DEF HasDefault
  <2>5. ValueType(a.type) = a.type
    BY <1>1, <1>4, ValueTypes
  <2> HIDE DEF b
  <2> QED BY <1>1, <1>2, <1>4, <2>1, <2>3, <2>4, <2>5 DEF SpecData, b
<1>5. CASE a.type \notin Integral \cup Real
  <2>1. b.default[1] = ValueType(a.type)
    <3>1. CASE a.type = "unichar"
      BY <1>1, <1>5, <3>1 DEF Bounded, ValueType
    <3>2. CASE a.type # "unichar"
      BY <1>1, <1>5, <3>2 DEF Bounded, ValueType, Real
    <3> QED BY <3>1, <3>2
  <2> HIDE DEF b
  <2> QED BY <1>1, <1>2, <1>5, <2>1 DEF SpecData, b
<1> QED BY <1>3, <1>4, <1>5

-----------------------------------------------------------------------------
(* Steps *)

\* At first there are no GParamSpecs and no objects.
LEMMA InitInv == Init => Inv
<1> SUFFICES ASSUME Init PROVE Inv
  OBVIOUS
<1>1. SpecsSound /\ ObjectsSound
  BY DEF Init, SpecsSound, ObjectsSound, ObjectSound, IsSpec, Exists, Absent
<1>2. 1 \in 1 .. MaxRequests
  BY StoreAssumption
<1> QED BY <1>1, <1>2 DEF Inv, Init

\* A memory error leaves none either.
LEMMA DieInv == Inv /\ Die => Inv'
BY DEF Inv, Die, SpecsSound, ObjectsSound, ObjectSound, IsSpec, Exists, Absent

\* Objects keep what they have, as long as installed GParamSpecs stay.
LEMMA ObjectsKept ==
    ASSUME Inv, generated \subseteq generated', request' \in Nat, request <= request',
           \A p \in ParamSpecs : Installed(p) => pspec'[p] = pspec[p],
           object' = [o \in Objs |-> object'[o]],
           \A o \in Objs : object'[o].class # Null =>
               /\ Exists(o) /\ DOMAIN object'[o] = DOMAIN object[o]
               /\ object'[o].class = object[o].class /\ object'[o].table = object[o].table
               /\ object'[o].place = object[o].place
    PROVE  ObjectsSound'
<1>1. \A p \in ParamSpecs : Installed(p) => Installed(p)' /\ pspec'[p] = pspec[p]
  BY DEF Installed, IsSpec
<1> SUFFICES ASSUME NEW o \in Objs, object'[o].class # Null PROVE ObjectSound(o)'
  BY DEF ObjectsSound, ObjectSound, Exists
<1>2. Exists(o) /\ ObjectSound(o) /\ request \in Nat
  BY DEF Inv, ObjectsSound
<1>3. object'[o].table \in 1 .. request'
  BY <1>2 DEF ObjectSound
<1>4. ASSUME NEW i \in Ids, object'[o].place[i].by # Null
      PROVE  \E p \in ParamSpecs : PlaceSound(o, i, p)'
  <2>1. PICK p \in ParamSpecs : PlaceSound(o, i, p)
    BY <1>2, <1>4 DEF ObjectSound
  <2>2. object'[o].place[i] = object[o].place[i] /\ pspec'[p] = pspec[p] /\ Installed(p)'
    BY <1>1, <2>1 DEF PlaceSound
  <2> QED BY <2>1, <2>2 DEF PlaceSound
<1> QED BY <1>2, <1>3, <1>4 DEF ObjectSound

\* GParamSpecs stay sound when they change one by one.
LEMMA SpecsKept ==
    ASSUME Inv, generated \subseteq generated', pspec' = [p \in ParamSpecs |-> pspec'[p]],
           \A p \in ParamSpecs :
               \/ pspec'[p] = pspec[p] \/ pspec'[p] \in {Null, Invalid}
               \/ /\ SpecData(pspec'[p]) /\ pspec'[p].owner \in generated' \cup {Null}
                  /\ pspec'[p].owner # Null => pspec'[p].id \in Ids
    PROVE  SpecsSound'
BY DEF Inv, SpecsSound, IsSpec

\* Parameters are made, freed and installed.
LEMMA SpecsInv ==
    ASSUME Inv,
           \/ \E p \in ParamSpecs : FreeParamSpec(p) \/ \E a \in Arguments : NewParamSpec(p, a)
           \/ \E c \in Classes : Generate(c)
    PROVE  Inv'
<1>0. /\ request \in Nat /\ request <= request
      /\ object = [o \in Objs |-> object[o]] /\ pspec = [p \in ParamSpecs |-> pspec[p]]
  BY DEF Inv, ObjectsSound, SpecsSound
<1>1. ASSUME NEW p \in ParamSpecs, FreeParamSpec(p) PROVE Inv'
  <2>1. /\ pspec' = [pspec EXCEPT ![p] = Null] /\ ~Installed(p)
        /\ UNCHANGED <<request, phase, generated, object, tables>>
    BY <1>1 DEF FreeParamSpec
  <2>2. ObjectsSound'
    BY <1>0, <2>1, ObjectsKept DEF Exists, Absent
  <2>3. SpecsSound'
    BY <1>0, <2>1, SpecsKept
  <2> QED BY <2>1, <2>2, <2>3 DEF Inv
<1>2. ASSUME NEW p \in ParamSpecs, NEW a \in Arguments, NewParamSpec(p, a), ~Die PROVE Inv'
  <2> DEFINE s == Bounded(a)
             r == [name |-> s.name, type |-> s.type, default |-> s.default, flags |-> s.flags,
                   min |-> s.min, max |-> s.max, owner |-> Null, id |-> 0]
  <2>1. /\ pspec' = [pspec EXCEPT ![p] = IF HasDefault(s) THEN r ELSE Invalid]
        /\ pspec[p] = Null
        /\ UNCHANGED <<request, phase, generated, object, tables>>
    BY <1>2 DEF NewParamSpec
  <2>2. HasDefault(s) => SpecData(r) /\ r.owner = Null
    BY BoundedSound
  <2> HIDE DEF r, s
  <2>3. ~Installed(p)
    BY <2>1 DEF Installed, IsSpec
  <2>4. ObjectsSound'
    BY <1>0, <2>1, <2>3, ObjectsKept DEF Exists, Absent
  <2>5. SpecsSound'
    BY <1>0, <2>1, <2>2, SpecsKept
  <2> QED BY <2>1, <2>4, <2>5 DEF Inv
<1>3. ASSUME NEW c \in Classes, Generate(c) PROVE Inv'
  <2>1. PICK S \in SUBSET {p \in ParamSpecs : IsSpec(p) /\ ~Installed(p)} :
             \E id \in [S -> Ids] :
                pspec' = [p \in ParamSpecs |->
                    IF p \in S THEN [pspec[p] EXCEPT !.owner = c, !.id = id[p]] ELSE pspec[p]]
    BY <1>3, Zenon DEF Generate
  <2>2. PICK id \in [S -> Ids] :
             pspec' = [p \in ParamSpecs |->
                 IF p \in S THEN [pspec[p] EXCEPT !.owner = c, !.id = id[p]] ELSE pspec[p]]
    BY <2>1
  <2>3. generated' = generated \cup {c} /\ UNCHANGED <<request, phase, object, tables>>
    BY <1>3 DEF Generate
  <2>4. ObjectsSound'
    BY <1>0, <2>2, <2>3, ObjectsKept DEF Exists, Absent
  <2>5. ASSUME NEW p \in S
        PROVE  SpecData(pspec'[p]) /\ pspec'[p].owner = c /\ pspec'[p].id \in Ids
    BY <2>2 DEF Inv, SpecsSound, SpecData
  <2>6. \A p \in ParamSpecs :
            \/ pspec'[p] = pspec[p]
            \/ /\ SpecData(pspec'[p]) /\ pspec'[p].owner \in generated'
               /\ pspec'[p].id \in Ids
    <3>1. \A p \in ParamSpecs \ S : pspec'[p] = pspec[p]
      BY <2>2
    <3>2. c \in generated'
      BY <2>3
    <3> QED BY <2>5, <3>1, <3>2, Zenon
  <2>7. pspec' = [p \in ParamSpecs |-> pspec'[p]] /\ generated \subseteq generated'
    BY <2>2, <2>3
  <2>8. SpecsSound'
    BY <2>6, <2>7, SpecsKept
  <2> QED BY <2>3, <2>4, <2>8 DEF Inv
<1> QED BY <1>1, <1>2, <1>3, DieInv

\* What g_object_new puts into a table comes from the defaults.
LEMMA DefaultSound ==
    ASSUME Inv, NEW c \in generated, NEW i \in Ids, NEW d \in Defaults(c, i)
    PROVE  d.by \in ParamSpecs /\ Installed(d.by) /\ pspec[d.by].id = i
           /\ WrittenSound(pspec[d.by], d)
<1>0. PICK p \in PropertiesOf(c) : \E g \in Accepted(pspec[p], pspec[p].default) :
          pspec[p].id = i /\ d = Place(p, ToZval(pspec[p].type, g), g)
  BY DEF Defaults
<1>1. PICK g \in Accepted(pspec[p], pspec[p].default) :
          pspec[p].id = i /\ d = Place(p, ToZval(pspec[p].type, g), g)
  BY <1>0
<1>2. p \in ParamSpecs /\ Installed(p) /\ SpecData(pspec[p])
  BY DEF PropertiesOf, Installed, Inv, SpecsSound
<1>3. InBounds(pspec[p], g)
  BY <1>2, AcceptedInBounds
<1>4. d.by = p /\ d.gvalue = g /\ d.from = ToZval(pspec[p].type, g)
  BY <1>1 DEF Place
<1> QED BY <1>1, <1>2, <1>3, <1>4 DEF WrittenSound

\* A new object has a table of this request.
LEMMA NewInv ==
    ASSUME Inv, NEW o \in Objs, NEW c \in Classes, New(o, c) PROVE Inv'
<1>1. PICK f \in InitialPlaces(c) :
          object' = [object EXCEPT ![o] =
            [class |-> c, wrapped |-> TRUE, native |-> FALSE, table |-> request, place |-> f]]
  BY DEF New
<1>2. /\ c \in generated /\ tables' = tables + TablesMade(c)
      /\ UNCHANGED <<request, phase, pspec, generated>>
  BY DEF New
<1>4. f = [i \in Ids |-> f[i]] /\ \A i \in Ids : f[i] # NoPlace => f[i] \in Defaults(c, i)
  BY DEF InitialPlaces
<1>5. ObjectsSound'
  <2>1. \A p : Installed(p)' <=> Installed(p)
    BY <1>2 DEF Installed, IsSpec
  <2> SUFFICES ASSUME NEW b \in Objs PROVE ObjectSound(b)'
    BY <1>1 DEF Inv, ObjectsSound
  <2>2. CASE b # o
    <3>1. object'[b] = object[b] /\ ObjectSound(b)
      BY <1>1, <2>2 DEF Inv, ObjectsSound
    <3> QED BY <1>2, <2>1, <3>1 DEF ObjectSound, Exists, PlaceSound
  <2>3. CASE b = o
    <3>1. object'[b] = [class |-> c, wrapped |-> TRUE, native |-> FALSE, table |-> request,
                        place |-> f]
      BY <1>1, <2>3 DEF Inv, ObjectsSound
    <3>2. \A i \in Ids : f[i] # NoPlace =>
              /\ f[i].by \in ParamSpecs /\ Installed(f[i].by) /\ pspec[f[i].by].id = i
              /\ WrittenSound(pspec[f[i].by], f[i])
      BY <1>2, <1>4, DefaultSound
    <3>3. request \in 1 .. request
      BY DEF Inv
    <3>4. ASSUME NEW i \in Ids, object'[b].place[i].by # Null
          PROVE  \E p \in ParamSpecs : PlaceSound(b, i, p)'
      <4>1. f[i] # NoPlace
        BY <3>1, <3>4 DEF NoPlace
      <4>2. PICK p \in ParamSpecs : f[i].by = p
        BY <3>2, <4>1
      <4> QED BY <1>2, <2>1, <3>1, <3>2, <4>1, <4>2 DEF PlaceSound
    <3> QED BY <1>2, <1>4, <3>1, <3>3, <3>4 DEF ObjectSound
  <2> QED BY <2>2, <2>3
<1>6. SpecsSound'
  BY <1>2 DEF Inv, SpecsSound, IsSpec
<1> QED BY <1>2, <1>5, <1>6 DEF Inv

\* A write puts what its property accepted into the place of that property.
LEMMA WriteInv ==
    ASSUME Inv, NEW o \in Objs, NEW name \in Names, NEW z \in Zvals, Write(o, name, z), ~Die
    PROVE  Inv'
<1> DEFINE f == Find(object[o].class, name)
<1>1. /\ f # Null /\ Exists(o)
      /\ \E v \in Accepted(pspec[f], ToGValue(pspec[f].type, z)) :
            object' = [object EXCEPT ![o].place = Stored(o, f, z, v)]
      /\ UNCHANGED <<request, phase, pspec, generated, tables>>
  BY DEF Write
<1>2. f \in PropertiesOf(object[o].class)
  <2>1. object[o].class \in Classes
    BY <1>1 DEF Inv, ObjectsSound, ObjectSound
  <2>2. \A c \in Classes :
            \/ Find(c, name) = Null
            \/ Find(c, name) \in {q \in PropertiesOf(c) : pspec[q].name = name}
    BY FindNearest, Zenon
  <2> QED BY <1>1, <2>1, <2>2
<1>3. PICK p \in ParamSpecs : p = f
  BY <1>2 DEF PropertiesOf
<1> HIDE DEF f
<1> DEFINE g == ToGValue(pspec[p].type, z)
<1>4. PICK v \in Accepted(pspec[p], g) : object' = [object EXCEPT ![o].place = Stored(o, p, z, v)]
  BY <1>1, <1>3
<1>5. p \in ParamSpecs /\ Installed(p) /\ SpecData(pspec[p]) /\ pspec[p].id \in Ids
  BY <1>2, <1>3 DEF PropertiesOf, Installed, Inv, SpecsSound
<1>6. WrittenSound(pspec[p], Place(p, z, v))
  <2>1. InBounds(pspec[p], v)
    BY <1>4, <1>5, AcceptedInBounds
  <2>2. Fits(pspec[p], z) => ToZval(pspec[p].type, v) = z
    BY <1>4, <1>5, AcceptedFits, ArgumentsAssumption
  <2> QED BY <2>1, <2>2 DEF WrittenSound, Place
<1> HIDE DEF g
<1>7. ObjectsSound'
  <2>0. ObjectSound(o) /\ object = [b \in Objs |-> object[b]]
    BY DEF Inv, ObjectsSound
  <2>1. object' = [b \in Objs |-> object'[b]] /\ \A b \in Objs \ {o} : object'[b] = object[b]
    BY <1>4, <2>0
  <2>2. /\ DOMAIN object'[o] = DOMAIN object[o] /\ object'[o].class = object[o].class
        /\ object'[o].table = object[o].table
        /\ object'[o].place = [object[o].place EXCEPT ![pspec[p].id] = Place(p, z, v)]
    BY <1>1, <1>4, <2>0 DEF ObjectSound, Stored, Entry
  <2> SUFFICES ASSUME NEW b \in Objs PROVE ObjectSound(b)'
    BY <2>1 DEF ObjectsSound
  <2>3. CASE b # o
    <3>1. object'[b] = object[b] /\ ObjectSound(b)
      BY <2>1, <2>3 DEF Inv, ObjectsSound
    <3> QED BY <1>1, <3>1 DEF ObjectSound, Exists, PlaceSound, Installed, IsSpec
  <2>4. CASE b = o
    <3>1. ASSUME NEW i \in Ids, object'[o].place[i].by # Null
          PROVE  \E q \in ParamSpecs : PlaceSound(o, i, q)'
      <4>1. CASE i = pspec[p].id
        <5>1. object'[o].place[i] = Place(p, z, v)
          BY <1>1, <2>0, <2>2, <4>1 DEF ObjectSound
        <5>2. PlaceSound(o, i, p)'
          BY <1>1, <1>5, <1>6, <4>1, <5>1 DEF PlaceSound, Installed, IsSpec, Place
        <5> QED BY <1>5, <5>2
      <4>2. CASE i # pspec[p].id
        <5>1. object'[o].place[i] = object[o].place[i]
          BY <1>1, <2>0, <2>2, <4>2 DEF ObjectSound
        <5>2. \A j \in Ids : object[o].place[j].by # Null =>
                  \E q \in ParamSpecs : PlaceSound(o, j, q)
          BY <1>1, <2>0, Zenon DEF ObjectSound
        <5>3. PICK q \in ParamSpecs : PlaceSound(o, i, q)
          BY <3>1, <5>1, <5>2
        <5>4. PlaceSound(o, i, q)'
          BY <1>1, <5>1, <5>3 DEF PlaceSound, Installed, IsSpec
        <5> QED BY <5>3, <5>4
      <4> QED BY <4>1, <4>2
    <3>2. object'[o].place = [i \in Ids |-> object'[o].place[i]]
      BY <1>1, <2>0, <2>2 DEF ObjectSound
    <3> QED BY <1>1, <2>0, <2>2, <2>4, <3>1, <3>2 DEF ObjectSound
  <2> QED BY <2>3, <2>4
<1>8. SpecsSound'
  BY <1>1 DEF Inv, SpecsSound, IsSpec
<1> QED BY <1>1, <1>7, <1>8 DEF Inv

\* References are taken and dropped, and requests end.
LEMMA ReferencesInv ==
    ASSUME Inv, ~Die,
           \/ \E o \in Objs : NativeRef(o) \/ Wrap(o) \/ DropWrapper(o) \/ NativeUnref(o)
           \/ RequestEnd
    PROVE  Inv'
<1>0. /\ request \in Nat /\ request <= request /\ request + 1 \in Nat /\ request <= request + 1
      /\ object = [o \in Objs |-> object[o]] /\ pspec = [p \in ParamSpecs |-> pspec[p]]
  BY DEF Inv, ObjectsSound, SpecsSound
<1>1. ASSUME UNCHANGED <<request, phase, pspec, generated>>,
             object' = [o \in Objs |-> object'[o]],
             \A o \in Objs : object'[o].class # Null =>
                 /\ Exists(o) /\ DOMAIN object'[o] = DOMAIN object[o]
                 /\ object'[o].class = object[o].class /\ object'[o].table = object[o].table
                 /\ object'[o].place = object[o].place
      PROVE  Inv'
  <2>1. ObjectsSound'
    BY <1>0, <1>1, ObjectsKept
  <2>2. SpecsSound'
    BY <1>1 DEF Inv, SpecsSound, IsSpec
  <2> QED BY <1>1, <2>1, <2>2 DEF Inv
<1>2. \A o \in Objs : Exists(o) =>
          DOMAIN object[o] = {"class", "wrapped", "native", "table", "place"}
  BY DEF Inv, ObjectsSound, ObjectSound
<1>3. ASSUME NEW o \in Objs, Exists(o), UNCHANGED <<request, phase, pspec, generated>>,
             \/ \E x \in BOOLEAN : object' = [object EXCEPT ![o].native = x]
             \/ \E x \in BOOLEAN : object' = [object EXCEPT ![o].wrapped = x]
             \/ object' = [object EXCEPT ![o] = Absent]
      PROVE  Inv'
  <2>1. CASE object' = [object EXCEPT ![o] = Absent]
    <3>1. object' = [b \in Objs |-> object'[b]]
      BY <1>0, <2>1
    <3>2. \A b \in Objs : object'[b].class # Null => object'[b] = object[b]
      BY <1>0, <2>1 DEF Absent
    <3> QED BY <1>1, <1>3, <3>1, <3>2 DEF Exists, Absent
  <2>2. ASSUME NEW x \in BOOLEAN,
               \/ object' = [object EXCEPT ![o].native = x]
               \/ object' = [object EXCEPT ![o].wrapped = x]
        PROVE  Inv'
    <3>1. object' = [b \in Objs |-> object'[b]] /\ \A b \in Objs \ {o} : object'[b] = object[b]
      BY <1>0, <2>2
    <3>2. /\ DOMAIN object'[o] = DOMAIN object[o] /\ object'[o].class = object[o].class
          /\ object'[o].table = object[o].table /\ object'[o].place = object[o].place
      BY <1>0, <1>2, <1>3, <2>2
    <3>3. \A b \in Objs : object'[b].class # Null =>
              /\ Exists(b) /\ DOMAIN object'[b] = DOMAIN object[b]
              /\ object'[b].class = object[b].class /\ object'[b].table = object[b].table
              /\ object'[b].place = object[b].place
      BY <1>3, <3>1, <3>2 DEF Exists, Absent
    <3> QED BY <1>1, <1>3, <3>1, <3>3
  <2> QED BY <1>3, <2>1, <2>2
<1>4. ASSUME NEW o \in Objs, NativeRef(o) \/ Wrap(o) \/ DropWrapper(o) \/ NativeUnref(o)
      PROVE  Inv'
  <2>1. CASE NativeRef(o)
    BY <1>3, <2>1 DEF NativeRef
  <2>2. CASE Wrap(o)
    BY <1>3, <2>2 DEF Wrap
  <2>3. CASE DropWrapper(o)
    BY <1>3, <2>3 DEF DropWrapper, Finalize
  <2>4. CASE NativeUnref(o)
    BY <1>3, <2>4 DEF NativeUnref, Finalize
  <2> QED BY <1>4, <2>1, <2>2, <2>3, <2>4
<1>5. ASSUME RequestEnd PROVE Inv'
  <2>1. /\ object' = [o \in Objs |-> IF ~Exists(o) \/ Ending(o) THEN Absent
                                    ELSE [object[o] EXCEPT !.wrapped = FALSE]]
        /\ pspec' = [p \in ParamSpecs |-> IF Installed(p) THEN pspec[p] ELSE Null]
        /\ request < MaxRequests /\ request' = request + 1
        /\ UNCHANGED <<phase, generated>>
    BY <1>5 DEF RequestEnd
  <2>2. \A o \in Objs : object'[o].class # Null =>
            /\ Exists(o) /\ DOMAIN object'[o] = DOMAIN object[o]
            /\ object'[o].class = object[o].class /\ object'[o].table = object[o].table
            /\ object'[o].place = object[o].place
    <3> SUFFICES ASSUME NEW o \in Objs, object'[o].class # Null
                 PROVE  /\ Exists(o) /\ object'[o] = [object[o] EXCEPT !.wrapped = FALSE]
      BY <1>2
    <3> QED BY <2>1 DEF Absent
  <2>3. ObjectsSound'
    <3>1. object' = [o \in Objs |-> object'[o]]
      BY <2>1
    <3>2. \A p \in ParamSpecs : Installed(p) => pspec'[p] = pspec[p]
      BY <2>1
    <3> QED BY <1>0, <2>1, <2>2, <3>1, <3>2, ObjectsKept
  <2>4. SpecsSound'
    <3>1. pspec' = [p \in ParamSpecs |-> pspec'[p]]
      BY <2>1
    <3>2. \A p \in ParamSpecs : pspec'[p] = pspec[p] \/ pspec'[p] = Null
      BY <2>1
    <3> QED BY <2>1, <3>1, <3>2, SpecsKept
  <2>5. request' \in 1 .. MaxRequests
    BY <2>1, StoreAssumption DEF Inv
  <2> QED BY <2>1, <2>3, <2>4, <2>5 DEF Inv
<1> QED BY <1>4, <1>5

\* Every step keeps the invariant.
LEMMA InvStep == Inv /\ [Next]_vars => Inv'
<1> SUFFICES ASSUME Inv, [Next]_vars PROVE Inv'
  OBVIOUS
<1>1. CASE Die
  BY <1>1, DieInv
<1>2. ASSUME UNCHANGED vars PROVE Inv'
  BY <1>2 DEF Inv, SpecsSound, ObjectsSound, ObjectSound, PlaceSound, Installed, IsSpec, Exists,
              vars
<1>3. ASSUME NEW o \in Objs, NEW name \in Names, Read(o, name) PROVE Inv'
  BY <1>3, DieInv DEF Read
<1>4. ASSUME NEW o \in Objs, Dump(o) PROVE Inv'
  BY <1>4, DieInv DEF Dump
<1>5. ASSUME ~Die, Next PROVE Inv'
  BY <1>2, <1>3, <1>4, <1>5, SpecsInv, NewInv, WriteInv, ReferencesInv, Zenon DEF Next, Halted
<1> QED BY <1>1, <1>2, <1>5

\* The invariant holds in every reachable state.
LEMMA InvHolds == Spec => []Inv
BY InitInv, InvStep, PTL DEF Spec

-----------------------------------------------------------------------------
(* Tables *)

CurrentObjects == {o \in Objs : Current(o)}

\* There is a table for every object of the request, and for no other if no
\* class has generated ancestors.
Balanced ==
    /\ tables \in Nat /\ Cardinality(CurrentObjects) <= tables
    /\ TablesExact

\* Objects and tables stay as they are.
LEMMA TablesKept ==
    ASSUME Balanced, generated \subseteq generated', tables' = tables, request' = request,
           \A o \in Objs : Exists(o)' = Exists(o) /\ (Exists(o) => object'[o].table = object[o].table)
    PROVE  Balanced'
<1>1. CurrentObjects' = CurrentObjects
  BY DEF CurrentObjects, Current
<1>2. TablesExact'
  BY <1>1 DEF TablesExact, CurrentObjects, Balanced
<1> QED BY <1>1, <1>2 DEF Balanced

\* The end of an object takes one table.
LEMMA TablesFinalize ==
    ASSUME Inv, Balanced, NEW o \in Objs, Finalize(o), ~Die PROVE Balanced'
<1>1. /\ Current(o) /\ object' = [object EXCEPT ![o] = Absent] /\ tables' = tables - 1
      /\ UNCHANGED <<request, phase, pspec, generated>>
  BY DEF Finalize
<1>2. CurrentObjects' = CurrentObjects \ {o} /\ o \in CurrentObjects
  BY <1>1 DEF CurrentObjects, Current, Exists, Absent, Inv, ObjectsSound
<1>3. IsFiniteSet(CurrentObjects)
  BY StoreAssumption, FS_Subset DEF CurrentObjects
<1>4. /\ Cardinality(CurrentObjects') = Cardinality(CurrentObjects) - 1
      /\ Cardinality(CurrentObjects) \in Nat /\ Cardinality(CurrentObjects') \in Nat
  BY <1>2, <1>3, FS_RemoveElement, FS_CardinalityType
<1>5. tables' \in Nat /\ Cardinality(CurrentObjects') <= tables'
  BY <1>1, <1>4 DEF Balanced
<1>6. TablesExact'
  BY <1>1, <1>4 DEF TablesExact, CurrentObjects, Balanced
<1> QED BY <1>5, <1>6 DEF Balanced

\* A new object brings one, and one more for each of its generated ancestors.
LEMMA TablesNew ==
    ASSUME Inv, Balanced, NEW o \in Objs, NEW c \in Classes, New(o, c) PROVE Balanced'
<1>1. /\ ~Exists(o) /\ c \in generated /\ tables' = tables + TablesMade(c)
      /\ UNCHANGED <<request, phase, pspec, generated>>
  BY DEF New
<1>2. PICK f \in InitialPlaces(c) :
          object' = [object EXCEPT ![o] =
            [class |-> c, wrapped |-> TRUE, native |-> FALSE, table |-> request, place |-> f]]
  BY DEF New
<1>3. CurrentObjects' = CurrentObjects \cup {o} /\ o \notin CurrentObjects
  <2>1. Current(o)'
    BY <1>1, <1>2, StoreAssumption DEF Current, Exists, Inv, ObjectsSound
  <2>2. \A b \in Objs \ {o} : object'[b] = object[b]
    BY <1>2 DEF Inv, ObjectsSound
  <2> QED BY <1>1, <2>1, <2>2 DEF CurrentObjects, Current, Exists
<1>4. IsFiniteSet(CurrentObjects) /\ Cardinality(CurrentObjects) \in Nat
  BY StoreAssumption, FS_Subset, FS_CardinalityType DEF CurrentObjects
<1>5. Cardinality(CurrentObjects') = Cardinality(CurrentObjects) + 1
  BY <1>3, <1>4, FS_AddElement
<1>6. TablesMade(c) \in Nat \ {0} /\ (Ancestors[c] = {c} => TablesMade(c) = 1)
  <2>1. IsFiniteSet(Ancestors[c]) /\ c \in Ancestors[c]
    BY StoreAssumption
  <2>2. TablesMade(c) \in Nat /\ TablesMade(c) # 0
    BY <2>1, FS_CardinalityType, FS_EmptySet DEF TablesMade
  <2> QED BY <2>2, FS_Singleton DEF TablesMade
<1>7. tables' \in Nat /\ Cardinality(CurrentObjects') <= tables'
  BY <1>1, <1>4, <1>5, <1>6 DEF Balanced
<1>8. TablesExact'
  BY <1>1, <1>4, <1>5, <1>6 DEF TablesExact, CurrentObjects, Balanced
<1> QED BY <1>7, <1>8 DEF Balanced

\* Every step keeps the balance.
LEMMA BalancedStep == Inv /\ Balanced /\ [Next]_vars => Balanced'
<1> SUFFICES ASSUME Inv, Balanced, [Next]_vars PROVE Balanced'
  OBVIOUS
<1>1. CASE Die
  <2>1. CurrentObjects' = {} /\ tables' = 0
    BY <1>1 DEF Die, CurrentObjects, Current, Exists, Absent
  <2>2. Cardinality(CurrentObjects') = 0
    BY <2>1, FS_EmptySet
  <2> QED BY <2>1, <2>2 DEF Balanced, TablesExact, CurrentObjects
<1>2. CASE UNCHANGED vars
  <2>1. CurrentObjects' = CurrentObjects /\ tables' = tables /\ generated' = generated
    BY <1>2 DEF vars, CurrentObjects, Current, Exists
  <2> QED BY <2>1 DEF Balanced, TablesExact, CurrentObjects
<1>3. ASSUME NEW p \in ParamSpecs, FreeParamSpec(p) PROVE Balanced'
  BY <1>3, TablesKept DEF FreeParamSpec, Exists
<1>4. ASSUME NEW p \in ParamSpecs, NEW a \in Arguments, NewParamSpec(p, a), ~Die PROVE Balanced'
  BY <1>4, TablesKept DEF NewParamSpec, Exists
<1>5. ASSUME NEW c \in Classes, Generate(c) PROVE Balanced'
  BY <1>5, TablesKept DEF Generate, Exists
<1>6. ASSUME NEW o \in Objs, NEW x, Exists(o), UNCHANGED <<request, generated, tables>>,
             \/ object' = [object EXCEPT ![o].native = x]
             \/ object' = [object EXCEPT ![o].wrapped = x]
             \/ object' = [object EXCEPT ![o].place = x]
      PROVE  Balanced'
  <2>1. \A b \in Objs : Exists(b)' = Exists(b) /\ (Exists(b) => object'[b].table = object[b].table)
    <3>1. /\ DOMAIN object[o] = {"class", "wrapped", "native", "table", "place"}
          /\ object = [b \in Objs |-> object[b]]
      BY <1>6 DEF Inv, ObjectsSound, ObjectSound
    <3>2. object'[o].class = object[o].class /\ object'[o].table = object[o].table
      BY <1>6, <3>1
    <3>3. \A b \in Objs \ {o} : object'[b] = object[b]
      BY <1>6, <3>1
    <3> QED BY <3>2, <3>3 DEF Exists
  <2> QED BY <1>6, <2>1, TablesKept
<1>7. ASSUME NEW o \in Objs, ~Die,
             \/ NativeRef(o) \/ Wrap(o) \/ DropWrapper(o) \/ NativeUnref(o)
             \/ \E n \in Names, z \in Zvals : Write(o, n, z)
      PROVE  Balanced'
  <2>1. CASE NativeRef(o)
    BY <1>6, <2>1 DEF NativeRef
  <2>2. CASE Wrap(o)
    BY <1>6, <2>2 DEF Wrap
  <2>3. CASE DropWrapper(o)
    BY <1>6, <1>7, <2>3, TablesFinalize DEF DropWrapper
  <2>4. CASE NativeUnref(o)
    BY <1>6, <1>7, <2>4, TablesFinalize DEF NativeUnref
  <2>5. CASE \E n \in Names, z \in Zvals : Write(o, n, z)
    <3>1. Exists(o) /\ UNCHANGED <<request, generated, tables>>
      BY <1>7, <2>5 DEF Write
    <3>2. \E x : object' = [object EXCEPT ![o].place = x]
      BY <1>7, <2>5 DEF Write
    <3> QED BY <1>6, <3>1, <3>2
  <2> QED BY <1>7, <2>1, <2>2, <2>3, <2>4, <2>5
<1>8. ASSUME RequestEnd, ~Die PROVE Balanced'
  <2>1. /\ tables' = 0 /\ request' = request + 1
        /\ object' = [o \in Objs |-> IF ~Exists(o) \/ Ending(o) THEN Absent
                                    ELSE [object[o] EXCEPT !.wrapped = FALSE]]
    BY <1>8 DEF RequestEnd
  <2>2. ASSUME NEW o \in Objs PROVE ~Current(o)'
    <3>1. Exists(o)' => Exists(o) /\ object'[o] = [object[o] EXCEPT !.wrapped = FALSE]
      BY <2>1 DEF Exists, Absent
    <3>2. Exists(o)' => object'[o].table \in 1 .. request
      BY <3>1 DEF Inv, ObjectsSound, ObjectSound
    <3> QED BY <2>1, <3>2 DEF Current, Inv
  <2>3. CurrentObjects' = {}
    BY <2>2 DEF CurrentObjects
  <2>4. Cardinality(CurrentObjects') = 0
    BY <2>3, FS_EmptySet
  <2>5. TablesExact'
    BY <2>1, <2>4 DEF TablesExact, CurrentObjects
  <2> QED BY <2>1, <2>4, <2>5 DEF Balanced
<1>9. ASSUME ~Die, Next PROVE Balanced'
  <2>1. ASSUME NEW o \in Objs, NEW n \in Names, Read(o, n) PROVE FALSE
    BY <1>9, <2>1 DEF Read
  <2>2. ASSUME NEW o \in Objs, Dump(o) PROVE FALSE
    BY <1>9, <2>2 DEF Dump
  <2>3. ASSUME Halted PROVE UNCHANGED vars
    BY <2>3 DEF Halted
  <2> QED BY <1>2, <1>3, <1>4, <1>5, <1>7, <1>8, <1>9, <2>1, <2>2, <2>3, TablesNew, Zenon DEF Next
<1> QED BY <1>1, <1>2, <1>9

\* Tables are balanced in every reachable state.
LEMMA BalancedHolds == Spec => []Balanced
<1>1. Init => Balanced
  <2> SUFFICES ASSUME Init PROVE Balanced
    OBVIOUS
  <2>1. CurrentObjects = {} /\ tables = 0
    BY DEF Init, CurrentObjects, Current, Exists, Absent
  <2>2. Cardinality(CurrentObjects) = 0
    BY <2>1, FS_EmptySet
  <2> QED BY <2>1, <2>2 DEF Balanced, TablesExact, CurrentObjects
<1> QED BY <1>1, InvHolds, BalancedStep, PTL DEF Spec

-----------------------------------------------------------------------------
(* Theorems *)

\* Every variable has its type (all of PropertyStore).
THEOREM PropertiesTyped == Spec => []TypeOK
<1>1. Inv /\ Balanced => TypeOK
  <2> SUFFICES ASSUME Inv, Balanced PROVE TypeOK
    OBVIOUS
  <2>1. \A p \in ParamSpecs : IsSpec(p) =>
            /\ pspec[p].type \in PropertyTypes
            /\ pspec[p].owner \in generated \cup {Null}
            /\ pspec[p].owner # Null => pspec[p].id \in Ids
    BY DEF Inv, SpecsSound, SpecData
  <2>2. ASSUME NEW o \in Objs, Exists(o), NEW i \in Ids, object[o].place[i].by # Null
        PROVE  LET place == object[o].place[i]
               IN  /\ Installed(place.by) /\ pspec[place.by].id = i
                   /\ place.gvalue[1] = ValueType(pspec[place.by].type)
    <3>1. PICK p \in ParamSpecs : PlaceSound(o, i, p)
      BY <2>2 DEF Inv, ObjectsSound, ObjectSound
    <3> QED BY <3>1 DEF PlaceSound, WrittenSound, InBounds
  <2>3. \A o \in Objs : Exists(o) => object[o].class \in generated /\ object[o].table \in 1 .. request
    BY DEF Inv, ObjectsSound, ObjectSound
  <2> QED BY <2>1, <2>2, <2>3 DEF TypeOK, Inv, Balanced
<1> QED BY <1>1, InvHolds, BalancedHolds, PTL

\* No property holds a number outside its bounds, whatever was written, read
\* or given to its constructor (write_property, zval_with_gtype_to_gvalue).
THEOREM BoundsAreKept == Spec => []WithinBounds
<1>1. Inv => WithinBounds
  <2> SUFFICES ASSUME Inv, NEW o \in Objs, Exists(o), NEW i \in Ids, object[o].place[i].by # Null
               PROVE  LET place == object[o].place[i]
                          s     == pspec[place.by]
                      IN  /\ s.type \in Integral \cup Real => place.gvalue[2] \in s.min .. s.max
                          /\ s.type = "unichar" => place.gvalue[2] \in Unichars
    BY DEF WithinBounds
  <2>1. PICK p \in ParamSpecs : PlaceSound(o, i, p)
    BY DEF Inv, ObjectsSound, ObjectSound
  <2> QED BY <2>1 DEF PlaceSound, WrittenSound, InBounds
<1> QED BY <1>1, InvHolds, PTL

\* What fits a property and was written to it is read from it as it was
\* (read_property, write_property and the conversions between them).
THEOREM WrittenIsRead == Spec => []RoundTrip
<1>1. Inv => RoundTrip
  <2> SUFFICES ASSUME Inv, NEW o \in Objs, Exists(o), NEW i \in Ids, object[o].place[i].by # Null
               PROVE  LET place == object[o].place[i]
                      IN  Fits(pspec[place.by], place.from) /\ "readable" \in pspec[place.by].flags
                             => ReadAs(o, place.by) = place.from
    BY DEF RoundTrip
  <2>1. PICK p \in ParamSpecs : PlaceSound(o, i, p)
    BY DEF Inv, ObjectsSound, ObjectSound
  <2> QED BY <2>1 DEF PlaceSound, WrittenSound, InBounds, ReadAs
<1> QED BY <1>1, InvHolds, PTL

\* A property reads as a value of its type even where another property of the
\* object has the same place (read_property, get_glib_property).
THEOREM ReadsHaveTheirType == Spec => []ReadsAreTyped
<1>1. Inv => ReadsAreTyped
  <2> SUFFICES ASSUME Inv, NEW o \in Objs, Exists(o), NEW p \in PropertiesOf(object[o].class)
               PROVE  LET z == ReadAs(o, p)
                      IN  /\ z[1] = PhpType(pspec[p].type)
                          /\ z[1] = "long" => z[2] \in Numbers(pspec[p].type)
    BY DEF ReadsAreTyped
  <2> DEFINE t == pspec[p].type
             i == pspec[p].id
             place == object[o].place[i]
  <2>1. /\ p \in ParamSpecs /\ t \in PropertyTypes /\ i \in Ids
    BY DEF PropertiesOf, Installed, Inv, SpecsSound, SpecData
  <2>2. ASSUME NEW g PROVE ToZval(t, g)[1] = PhpType(t) /\ (t \in Integral => ToZval(t, g)[2] = g[2])
    BY <2>1 DEF ToZval, PhpType, PropertyTypes, Integral, Signed, Real
  <2>3. PhpType(t) = "long" => t \in Integral
    BY <2>1 DEF PhpType, PropertyTypes
  <2>4. Zero(t)[2] \in Numbers(t) \/ t \notin Integral
    BY WidthType DEF Zero, Integral, Signed
  <2>5. ASSUME place.by # Null, place.gvalue[1] = ValueType(t), t \in Integral
        PROVE  place.gvalue[2] \in Numbers(t)
    <3>1. PICK q \in ParamSpecs : PlaceSound(o, i, q)
      BY <2>1, <2>5 DEF Inv, ObjectsSound, ObjectSound
    <3>2. InBounds(pspec[q], place.gvalue) /\ SpecData(pspec[q])
      BY <3>1 DEF PlaceSound, WrittenSound, Installed, Inv, SpecsSound
    <3> DEFINE u == pspec[q].type
    <3>3. ValueType(u) = t /\ u \in PropertyTypes
      BY <2>1, <2>5, <3>2, ValueTypes DEF InBounds, SpecData
    <3>4. CASE u = t
      <4>1. /\ place.gvalue[2] \in pspec[q].min .. pspec[q].max
            /\ pspec[q].min \in Numbers(t) /\ pspec[q].max \in Numbers(t)
        BY <2>5, <3>2, <3>4 DEF InBounds, SpecData
      <4>2. Lowest(t) \in Int /\ Lowest(t) + Width(t) - 1 \in Int
        BY <2>5, WidthType
      <4> QED BY <4>1, <4>2 DEF Numbers
    <3>5. CASE u # t
      <4>1. u = "unichar" /\ t = "uint"
        BY <3>3, <3>5, ValueTypes DEF ValueType
      <4>2. place.gvalue[2] \in Unichars
        BY <3>2, <4>1 DEF InBounds
      <4>3. Numbers(t) = 0 .. Span["int"] - 1
        BY <4>1, SpanAssumption DEF Numbers, Lowest, Width, Signed
      <4> QED BY <4>2, <4>3, CodesAssumption
    <3> QED BY <3>4, <3>5
  <2>6. \/ ReadAs(o, p) = ToZval(t, Zero(t))
        \/ /\ ReadAs(o, p) = ToZval(t, place.gvalue)
           /\ place.by # Null /\ place.gvalue[1] = ValueType(t)
    BY DEF ReadAs
  <2> HIDE DEF t, i, place
  <2>7. ReadAs(o, p)[1] = PhpType(t)
    BY <2>2, <2>6
  <2>8. t \in Integral => ReadAs(o, p)[2] \in Numbers(t)
    BY <2>2, <2>4, <2>5, <2>6
  <2> QED BY <2>3, <2>7, <2>8 DEF t
<1> QED BY <1>1, InvHolds, PTL

\* One table for each object of the request while no class has generated
\* ancestors (gobject_init and finalize).
THEOREM TablesAreExact == Spec => []TablesExact
BY BalancedHolds, PTL DEF Balanced

-----------------------------------------------------------------------------
(* What outlives a request *)

\* No step but the end of a request makes another one, and of the objects it
\* leaves those that native code holds: gobject_gobject_free_storage
\* (gobject_gobject_class.c:68) gives one reference back, and no more.
THEOREM NativeObjectsOutlive == Spec => HeldOutlives
<1>1. Inv /\ [Next]_vars =>
        [\A o \in Objs : Exists(o) /\ request' # request =>
            (object'[o].class # Null <=> object[o].native)]_vars
  <2> SUFFICES ASSUME Inv, Next, NEW o \in Objs, Exists(o), request' # request
               PROVE  object'[o].class # Null <=> object[o].native
    BY Zenon
  <2>1. RequestEnd /\ ~Die
    BY DEF Next, FreeParamSpec, NewParamSpec, Generate, New, Read, Write, Dump, NativeRef, Wrap,
           DropWrapper, NativeUnref, Finalize, Halted, Die, vars, RequestEnd
  <2>2. object'[o] = IF Ending(o) THEN Absent ELSE [object[o] EXCEPT !.wrapped = FALSE]
    BY <2>1 DEF RequestEnd
  <2>3. CASE object[o].native
    <3>1. object'[o].class = object[o].class
      BY <2>2, <2>3 DEF Ending, Inv, ObjectsSound, ObjectSound
    <3> QED BY <2>3, <3>1 DEF Exists
  <2>4. CASE ~object[o].native
    BY <2>2, <2>4 DEF Ending, Absent
  <2> QED BY <2>3, <2>4
<1> QED BY <1>1, InvHolds, PTL DEF Spec, HeldOutlives

-----------------------------------------------------------------------------
(* Properties are variables of their own *)

\* A class is registered after its ancestors.
Closed == \A c \in generated : Ancestors[c] \subseteq generated

LEMMA ClosedHolds == Spec => []Closed
<1>1. Init => Closed
  BY DEF Init, Closed
<1>2. Inv /\ Closed /\ [Next]_vars => Closed'
  <2> SUFFICES ASSUME Inv, Closed, [Next]_vars PROVE Closed'
    OBVIOUS
  <2>1. CASE generated' \in {{}, generated}
    BY <2>1 DEF Closed
  <2>2. ASSUME NEW c \in Classes, Generate(c) PROVE Closed'
    BY <2>2 DEF Closed, Generate
  <2>3. CASE Next /\ ~(\E c \in Classes : Generate(c))
    <3>1. generated' \in {{}, generated}
      BY <2>3 DEF Next, FreeParamSpec, NewParamSpec, New, Read, Write, Dump, NativeRef, Wrap,
                  DropWrapper, NativeUnref, Finalize, RequestEnd, Halted, Die, vars
    <3> QED BY <2>1, <3>1
  <2>4. CASE UNCHANGED vars
    BY <2>1, <2>4 DEF vars
  <2> QED BY <2>2, <2>3, <2>4
<1> QED BY <1>1, <1>2, InvHolds, PTL DEF Spec

Blank == [p \in ParamSpecs |-> NoValue]

\* An object that is not there, or not of this request, has no values.
LEMMA ValueBlank ==
    ASSUME NEW o \in Objs
    PROVE  /\ ~Current(o) => Value[o] = Blank
           /\ ~Current(o)' => Value'[o] = Blank
BY DEF Value, Blank

\* An object has the values it had, if it is as it was and what was installed
\* since belongs to classes that did not exist.
LEMMA ValueKept ==
    ASSUME Inv, Closed, NEW o \in Objs, request' = request, Exists(o)' <=> Exists(o),
           Exists(o) => /\ object'[o].class = object[o].class
                        /\ object'[o].table = object[o].table
                        /\ object'[o].place = object[o].place,
           \A p \in ParamSpecs : Installed(p) => pspec'[p] = pspec[p],
           \A p \in ParamSpecs : Installed(p)' /\ ~Installed(p) => pspec'[p].owner \notin generated
    PROVE  Value'[o] = Value[o]
<1>1. Current(o)' <=> Current(o)
  BY DEF Current
<1>2. CASE ~Current(o)
  BY <1>1, <1>2, ValueBlank
<1>3. CASE Current(o)
  <2> DEFINE c == object[o].class
  <2>1. Exists(o) /\ c \in generated /\ object'[o].class = c /\ object'[o].place = object[o].place
    BY <1>3 DEF Current, Inv, ObjectsSound, ObjectSound
  <2>2. \A p \in ParamSpecs : Installed(p) => Installed(p)'
    BY DEF Installed, IsSpec
  <2>3. Ancestors[c] \subseteq generated
    BY <2>1 DEF Closed
  <2>4. PropertiesOf(object[o].class)' = PropertiesOf(c)
    <3>1. ASSUME NEW p \in ParamSpecs
          PROVE  (Installed(p)' /\ pspec'[p].owner \in Ancestors[c])
                     <=> (Installed(p) /\ pspec[p].owner \in Ancestors[c])
      <4>1. CASE Installed(p)
        BY <2>2, <4>1
      <4>2. CASE ~Installed(p)
        BY <2>3, <4>2
      <4> QED BY <4>1, <4>2
    <3> QED BY <2>1, <3>1 DEF PropertiesOf
  <2>5. \A p \in PropertiesOf(c) : p \in ParamSpecs /\ pspec'[p] = pspec[p]
    BY DEF PropertiesOf
  <2>6. ASSUME NEW p \in ParamSpecs PROVE Value'[o][p] = Value[o][p]
    <3>1. CASE p \notin PropertiesOf(c)
      BY <2>4, <3>1 DEF Value
    <3>2. CASE p \in PropertiesOf(c)
      <4>1. Unshared(object[o].class, p)' <=> Unshared(c, p)
        BY <2>4, <2>5, <3>2 DEF Unshared
      <4>2. pspec'[p] = pspec[p]
        BY <2>5, <3>2
      <4> QED BY <1>1, <2>1, <2>4, <3>2, <4>1, <4>2 DEF Value
    <3> QED BY <3>1, <3>2
  <2> QED BY <2>6 DEF Value
<1> QED BY <1>2, <1>3

\* Nothing a step can lead to but values of properties of objects.
LEMMA ValueShape ==
    /\ DOMAIN Value' = Objs /\ \A o \in Objs : DOMAIN Value'[o] = ParamSpecs
    /\ (\A o \in Objs : Value'[o] = Value[o]) => Value' = Value
BY DEF Value

\* Where every object keeps its values or loses them all, objects were destroyed.
LEMMA DestroyStep ==
    ASSUME \A o \in Objs : Value'[o] \in {Value[o], Blank} PROVE PM!Next
BY ValueShape DEF PM!Next, PM!Destroy, Blank

\* The parameters and classes a script makes change no object.
LEMMA SpecsMap ==
    ASSUME Inv, Closed, ~Die,
           \/ \E p \in ParamSpecs : FreeParamSpec(p) \/ \E a \in Arguments : NewParamSpec(p, a)
           \/ \E c \in Classes : Generate(c)
    PROVE  Value' = Value
<1>0. pspec = [p \in ParamSpecs |-> pspec[p]]
  BY DEF Inv, SpecsSound
<1>1. UNCHANGED <<request, object>>
  BY DEF FreeParamSpec, NewParamSpec, Generate
<1>2. /\ \A p \in ParamSpecs : Installed(p) => pspec'[p] = pspec[p]
      /\ \A p \in ParamSpecs : Installed(p)' /\ ~Installed(p) => pspec'[p].owner \notin generated
  <2>1. ASSUME NEW p \in ParamSpecs, FreeParamSpec(p)
        PROVE  /\ \A q \in ParamSpecs : Installed(q) => pspec'[q] = pspec[q]
               /\ \A q \in ParamSpecs : Installed(q)' => Installed(q)
    BY <1>0, <2>1 DEF FreeParamSpec, Installed, IsSpec
  <2>2. ASSUME NEW p \in ParamSpecs, NEW a \in Arguments, NewParamSpec(p, a)
        PROVE  /\ \A q \in ParamSpecs : Installed(q) => pspec'[q] = pspec[q]
               /\ \A q \in ParamSpecs : Installed(q)' => Installed(q)
    <3>1. /\ pspec[p] = Null
          /\ pspec' = [pspec EXCEPT ![p] = pspec'[p]]
          /\ pspec'[p] = Invalid \/ pspec'[p].owner = Null
      BY <1>0, <2>2 DEF NewParamSpec
    <3> QED BY <1>0, <3>1 DEF Installed, IsSpec
  <2>3. ASSUME NEW c \in Classes, Generate(c)
        PROVE  /\ \A q \in ParamSpecs : Installed(q) => pspec'[q] = pspec[q]
               /\ \A q \in ParamSpecs : Installed(q)' /\ ~Installed(q) =>
                     pspec'[q].owner \notin generated
    <3>1. PICK S \in SUBSET {q \in ParamSpecs : IsSpec(q) /\ ~Installed(q)} :
               \E id \in [S -> Ids] : pspec' = [q \in ParamSpecs |->
                  IF q \in S THEN [pspec[q] EXCEPT !.owner = c, !.id = id[q]] ELSE pspec[q]]
      BY <2>3 DEF Generate
    <3>2. c \notin generated
      BY <2>3 DEF Generate
    <3>3. ASSUME NEW q \in ParamSpecs, Installed(q)', ~Installed(q)
          PROVE  pspec'[q].owner \notin generated
      <4>1. q \in S
        BY <3>1, <3>3 DEF Installed, IsSpec
      <4>2. "owner" \in DOMAIN pspec[q]
        BY <4>1 DEF Inv, SpecsSound, SpecData
      <4> QED BY <3>1, <3>2, <4>1, <4>2
    <3>4. \A q \in ParamSpecs : Installed(q) => pspec'[q] = pspec[q]
      BY <3>1
    <3> QED BY <3>3, <3>4
  <2> QED BY <2>1, <2>2, <2>3
<1>3. \A o \in Objs : Value'[o] = Value[o]
  BY <1>1, <1>2, ValueKept DEF Exists
<1> QED BY <1>3, ValueShape

\* References to objects are no values, and an object goes with all it has.
LEMMA ReferencesMap ==
    ASSUME Inv, Closed, ~Die, NEW o \in Objs,
           NativeRef(o) \/ Wrap(o) \/ DropWrapper(o) \/ NativeUnref(o)
    PROVE  PM!Next
<1>0. UNCHANGED <<request, pspec>> /\ object = [b \in Objs |-> object[b]] /\ ObjectSound(o)
      /\ Exists(o)
  BY DEF NativeRef, Wrap, DropWrapper, NativeUnref, Finalize, Inv, ObjectsSound
<1>1. \/ object' = [object EXCEPT ![o] = Absent]
      \/ \E x : object' = [object EXCEPT ![o].native = x] \/ object' = [object EXCEPT ![o].wrapped = x]
  BY DEF NativeRef, Wrap, DropWrapper, NativeUnref, Finalize
<1>2. ASSUME NEW b \in Objs PROVE Value'[b] \in {Value[b], Blank}
  <2>1. CASE b # o
    <3>1. object'[b] = object[b]
      BY <1>0, <1>1, <2>1
    <3> QED BY <1>0, <3>1, ValueKept DEF Exists, Installed, IsSpec
  <2>2. CASE b = o /\ object' = [object EXCEPT ![o] = Absent]
    <3>1. ~Current(o)'
      BY <1>0, <2>2 DEF Current, Exists, Absent
    <3> QED BY <2>2, <3>1, ValueBlank
  <2>3. CASE b = o /\ object' # [object EXCEPT ![o] = Absent]
    <3>1. /\ object'[o].class = object[o].class
          /\ object'[o].table = object[o].table /\ object'[o].place = object[o].place
      BY <1>0, <1>1, <2>3 DEF ObjectSound
    <3> QED BY <1>0, <2>3, <3>1, ValueKept DEF Exists, Installed, IsSpec
  <2> QED BY <2>1, <2>2, <2>3
<1> QED BY <1>2, DestroyStep

\* A write changes one property of one object, or none that has a place of its own.
LEMMA WriteMap ==
    ASSUME Inv, Closed, ~Die, NEW o \in Objs, NEW name \in Names, NEW z \in Zvals,
           Write(o, name, z)
    PROVE  [PM!Next]_Value
<1> DEFINE c == object[o].class
           f == Find(c, name)
<1>1. /\ f # Null /\ Current(o) /\ Exists(o)
      /\ \E v \in Accepted(pspec[f], ToGValue(pspec[f].type, z)) :
            object' = [object EXCEPT ![o].place = Stored(o, f, z, v)]
      /\ UNCHANGED <<request, phase, pspec, generated, tables>>
  BY DEF Write
<1>2. f \in PropertiesOf(c)
  <2>1. c \in Classes
    BY <1>1 DEF Inv, ObjectsSound, ObjectSound
  <2>2. \A k \in Classes :
            \/ Find(k, name) = Null
            \/ Find(k, name) \in {q \in PropertiesOf(k) : pspec[q].name = name}
    BY FindNearest, Zenon
  <2> QED BY <1>1, <2>1, <2>2
<1>3. PICK p \in ParamSpecs : p = f
  BY <1>2 DEF PropertiesOf
<1> HIDE DEF f
<1>4. PICK v \in Accepted(pspec[p], ToGValue(pspec[p].type, z)) :
          object' = [object EXCEPT ![o].place = Stored(o, p, z, v)]
  BY <1>1, <1>3
<1>5. p \in PropertiesOf(c) /\ Installed(p) /\ SpecData(pspec[p]) /\ pspec[p].id \in Ids
  BY <1>2, <1>3 DEF PropertiesOf, Installed, Inv, SpecsSound
<1>6. v # NoValue
  <2>1. v[1] = ValueType(pspec[p].type)
    BY <1>4, <1>5, AcceptedInBounds DEF InBounds
  <2>2. ValueType(pspec[p].type) # "none"
    BY <1>5 DEF SpecData, ValueType, PropertyTypes, Integral, Real, Signed
  <2> QED BY <2>1, <2>2 DEF NoValue
<1>7. object = [b \in Objs |-> object[b]] /\ ObjectSound(o)
  BY DEF Inv, ObjectsSound
<1>8. \A b \in Objs \ {o} : object'[b] = object[b]
  BY <1>4, <1>7
<1>9. /\ object'[o].class = c /\ object'[o].table = object[o].table
      /\ object'[o].place = [object[o].place EXCEPT ![pspec[p].id] = Place(p, z, v)]
  BY <1>1, <1>4, <1>7 DEF ObjectSound, Stored, Entry
<1>10. \A b \in Objs \ {o} : Value'[b] = Value[b]
  <2> SUFFICES ASSUME NEW b \in Objs \ {o} PROVE Value'[b] = Value[b]
    OBVIOUS
  <2>1. object'[b] = object[b]
    BY <1>8
  <2> QED BY <1>1, <2>1, ValueKept DEF Exists, Installed, IsSpec
<1>11. /\ Current(o)' /\ object[o].place = [i \in Ids |-> object[o].place[i]]
       /\ PropertiesOf(object[o].class)' = PropertiesOf(c)
       /\ \A q \in ParamSpecs : Unshared(object[o].class, q)' <=> Unshared(c, q)
  BY <1>1, <1>7, <1>9 DEF Current, Exists, ObjectSound, PropertiesOf, Installed, IsSpec, Unshared
<1>12. ASSUME NEW q \in ParamSpecs, q # p \/ ~Unshared(c, p)
       PROVE  Value'[o][q] = Value[o][q]
  <2>1. CASE q \notin PropertiesOf(c) \/ ~Unshared(c, q)
    BY <1>9, <1>11, <2>1 DEF Value
  <2>2. CASE q \in PropertiesOf(c) /\ Unshared(c, q)
    <3>1. pspec[q].id # pspec[p].id
      BY <1>5, <1>12, <2>2 DEF Unshared
    <3>2. pspec[q].id \in Ids
      BY <2>2 DEF PropertiesOf, Installed, Inv, SpecsSound
    <3>3. object'[o].place[pspec[q].id] = object[o].place[pspec[q].id]
      BY <1>9, <1>11, <3>1, <3>2
    <3>4. pspec'[q] = pspec[q]
      BY <1>1
    <3> QED BY <1>1, <1>11, <2>2, <3>3, <3>4 DEF Value
  <2> QED BY <2>1, <2>2
<1>13. CASE Unshared(c, p)
  <2>1. Value'[o][p] = v
    <3>1. object'[o].place[pspec[p].id] = Place(p, z, v)
      BY <1>5, <1>9, <1>11
    <3>2. p # Null
      BY StoreAssumption
    <3>3. pspec'[p] = pspec[p]
      BY <1>1
    <3> QED BY <1>5, <1>11, <1>13, <3>1, <3>2, <3>3 DEF Value, Place
  <2>2. PM!Write(o, p)
    BY <1>6, <1>10, <1>12, <2>1 DEF PM!Write
  <2> QED BY <2>2, ValueShape DEF PM!Next
<1>14. CASE ~Unshared(c, p)
  <2>1. \A q \in ParamSpecs : Value'[o][q] = Value[o][q]
    BY <1>12, <1>14
  <2>2. Value'[o] = Value[o]
    BY <2>1 DEF Value
  <2> QED BY <1>10, <2>2, ValueShape
<1> QED BY <1>13, <1>14

\* Every step is one of a map of properties, or none.
LEMMA MapStep == Inv /\ Inv' /\ Closed /\ [Next]_vars => [PM!Next]_Value
<1> SUFFICES ASSUME Inv, Inv', Closed, [Next]_vars PROVE [PM!Next]_Value
  OBVIOUS
<1>1. CASE Die
  <2>1. \A o \in Objs : ~Current(o)'
    BY <1>1 DEF Die, Current, Exists, Absent
  <2> QED BY <2>1, ValueBlank, DestroyStep
<1>2. CASE UNCHANGED vars
  <2>1. \A o \in Objs : Value'[o] = Value[o]
    BY <1>2, ValueKept DEF vars, Exists, Installed, IsSpec
  <2> QED BY <2>1, ValueShape
<1>3. ASSUME NEW o \in Objs, NEW c \in Classes, New(o, c) PROVE PM!Next
  <2>1. /\ ~Exists(o) /\ UNCHANGED <<request, pspec>>
        /\ \A b \in Objs \ {o} : object'[b] = object[b]
    BY <1>3 DEF New, Inv, ObjectsSound
  <2>2. Value[o] = Blank
    BY <2>1, ValueBlank DEF Current
  <2>3. ASSUME NEW b \in Objs \ {o} PROVE Value'[b] = Value[b]
    <3>1. object'[b] = object[b]
      BY <2>1
    <3> QED BY <2>1, <3>1, ValueKept DEF Exists, Installed, IsSpec
  <2> QED BY <2>2, <2>3, ValueShape DEF PM!Next, PM!Create, Blank
<1>4. ASSUME RequestEnd, ~Die PROVE PM!Next
  <2>1. ASSUME NEW o \in Objs PROVE ~Current(o)'
    <3>1. request' = request + 1 /\ request \in Nat
      BY <1>4 DEF RequestEnd, Inv
    <3>2. object'[o] = IF ~Exists(o) \/ Ending(o) THEN Absent
                       ELSE [object[o] EXCEPT !.wrapped = FALSE]
      BY <1>4 DEF RequestEnd
    <3>3. Exists(o)' => Exists(o) /\ object'[o].table = object[o].table
      BY <3>2 DEF Exists, Absent, Inv, ObjectsSound, ObjectSound
    <3>4. Exists(o) => object[o].table \in 1 .. request
      BY DEF Inv, ObjectsSound, ObjectSound
    <3> QED BY <3>1, <3>3, <3>4 DEF Current
  <2> QED BY <2>1, ValueBlank, DestroyStep
<1>5. ASSUME ~Die, Next PROVE [PM!Next]_Value
  <2>1. ASSUME NEW o \in Objs, NEW n \in Names, Read(o, n) PROVE FALSE
    BY <1>5, <2>1 DEF Read
  <2>2. ASSUME NEW o \in Objs, Dump(o) PROVE FALSE
    BY <1>5, <2>2 DEF Dump
  <2>3. ASSUME Halted PROVE UNCHANGED vars
    BY <2>3 DEF Halted
  <2>4. ASSUME \/ \E p \in ParamSpecs : FreeParamSpec(p) \/ \E a \in Arguments : NewParamSpec(p, a)
               \/ \E c \in Classes : Generate(c)
        PROVE  Value' = Value
    BY <1>5, <2>4, SpecsMap
  <2>5. ASSUME NEW o \in Objs, NativeRef(o) \/ Wrap(o) \/ DropWrapper(o) \/ NativeUnref(o)
        PROVE  PM!Next
    BY <1>5, <2>5, ReferencesMap
  <2>6. ASSUME NEW o \in Objs, NEW n \in Names, NEW z \in Zvals, Write(o, n, z)
        PROVE  [PM!Next]_Value
    BY <1>5, <2>6, WriteMap
  <2> QED BY <1>2, <1>3, <1>4, <1>5, <2>1, <2>2, <2>3, <2>4, <2>5, <2>6, Zenon DEF Next
<1> QED BY <1>1, <1>2, <1>5

\* Properties of an object with places of their own are variables of their own:
\* conversion, validation and the shared table (gobject_gobject_class.c:140-253)
\* leave each as it is while another is written, whatever classes come and go.
THEOREM PropertiesAreVariables == Spec => ImplementsPropertyMap
<1>1. Init => PM!Init
  <2> SUFFICES ASSUME Init, NEW o \in Objs PROVE Value[o] = Blank
    BY DEF PM!Init, Value, Blank
  <2>1. ~Current(o)
    BY DEF Init, Current, Exists, Absent
  <2> QED BY <2>1, ValueBlank
<1> QED BY <1>1, InvHolds, ClosedHolds, MapStep, PTL DEF Spec, ImplementsPropertyMap, PM!Spec
=============================================================================
