---------------------------- MODULE PropertyStore ----------------------------
(* GLib properties of classes that Type::generate registered: the           *)
(* GParamSpecs (gobject_paramspec_class.c), their installation               *)
(* (gobject_type_class.c), and for each instance the table glib_properties    *)
(* with the handlers around it (gobject_gobject_class.c:140-253).             *)
(*                                                                            *)
(* The table is in the memory of a request; a GObject may outlive it.         *)
EXTENDS Conversion, FiniteSets

CONSTANTS
    Null, Invalid,  \* nothing, and a ParamSpec object without a GParamSpec
    ParamSpecs,     \* GParamSpecs a process can make
    Arguments,      \* calls of the constructors of GObject\ParamSpec
    Classes,        \* classes for Type::generate
    Ancestors,      \* Ancestors[c]: c and the generated classes above it
    Keys,           \* integer keys of the array "properties" of a Type
    StringKey,      \* stands for every other key
    MaxId,          \* bound of the property ids an uninitialised key leads to
    Objs,           \* GObjects
    Zvals,          \* values a script writes
    MaxRequests,
    MaxTables       \* bound of the tables a request makes and loses

VARIABLES
    request,        \* number of the request
    phase,          \* "running", or "dead" of a memory error
    pspec,          \* GParamSpecs: Null, Invalid, or what they say
    generated,      \* registered classes
    object,         \* GObjects: Absent, or class, references and table
    tables          \* tables in the memory of the request

vars == <<request, phase, pspec, generated, object, tables>>

Ids == 1 .. MaxId
Names == {a.name : a \in Arguments}

ASSUME StoreAssumption ==
    /\ Ancestors \in [Classes -> SUBSET Classes]
    /\ \A c \in Classes : c \in Ancestors[c] /\ IsFiniteSet(Ancestors[c])
    /\ \A c \in Classes : \A a \in Ancestors[c] : Ancestors[a] \subseteq Ancestors[c]
    /\ \A c \in Classes : \A a, b \in Ancestors[c] : a \in Ancestors[b] \/ b \in Ancestors[a]
    /\ \A c \in Classes : \A a \in Ancestors[c] : c \in Ancestors[a] => a = c
    /\ Keys \subseteq Nat /\ StringKey \notin Keys
    /\ MaxId \in Nat /\ \A k \in Keys : k + 1 <= MaxId
    /\ Null \notin Classes \cup ParamSpecs /\ IsFiniteSet(Objs)
    /\ MaxRequests \in Nat \ {0} /\ MaxTables \in Nat
    /\ Invalid # Null

ASSUME ArgumentsAssumption ==
    /\ \A a \in Arguments :
          /\ DOMAIN a = {"name", "type", "default", "min", "max", "flags"}
          /\ a.type \in PropertyTypes
          /\ a.default[1] = IF a.type = "unichar" THEN "string" ELSE a.type
          /\ a.type \in Integral \cup Real =>
                {a.min, a.max, a.default[2]} \subseteq Int
    /\ \A z \in Zvals : z = <<z[1], z[2]>> /\ (z[1] \in {"long", "double"} => z[2] \in Int)

-----------------------------------------------------------------------------
(* Properties of a class *)

IsSpec(p) == pspec[p] # Null /\ pspec[p] # Invalid
Installed(p) == IsSpec(p) /\ pspec[p].owner # Null
PropertiesOf(c) == {p \in ParamSpecs : Installed(p) /\ pspec[p].owner \in Ancestors[c]}

\* g_object_class_find_property: of several of one name, the one of the class
\* that is nearest to c; Null if there is none.
Find(c, name) ==
    LET named == {p \in PropertiesOf(c) : pspec[p].name = name}
    IN IF named = {} THEN Null
       ELSE CHOOSE p \in named : \A q \in named : pspec[q].owner \in Ancestors[pspec[p].owner]

Reachable(c, p) == p \in PropertiesOf(c) /\ Find(c, pspec[p].name) = p

\* The property has its place in the table for itself.
Unshared(c, p) == \A q \in PropertiesOf(c) : pspec[q].id = pspec[p].id => q = p

-----------------------------------------------------------------------------
(* Instances *)

Absent == [class |-> Null]
Exists(o) == object[o].class # Null
Current(o) == Exists(o) /\ object[o].table = request

\* A place of a table: which property was written there, the zval it was
\* written from, and the GValue.
Place(p, z, g) == [by |-> p, from |-> z, gvalue |-> g]
NoPlace == [by |-> Null]

\* Mutant: the value is copied whatever its type.
ReadAsAny(o, p) ==
    LET place == object[o].place[pspec[p].id]
    IN IF place.by # Null THEN ToZval(pspec[p].type, place.gvalue)
       ELSE ToZval(pspec[p].type, Zero(pspec[p].type))

\* Reading p of o, as php_gobject_gobject_read_property does: what is in the
\* place of its id, if it is of the type of the property, or else what
\* g_value_init left.
ReadAs(o, p) ==
    LET place == object[o].place[pspec[p].id]
        type  == pspec[p].type
    IN IF /\ "readable" \in pspec[p].flags
          /\ place.by # Null
          /\ place.gvalue[1] = ValueType(type)
       THEN ToZval(type, place.gvalue)
       ELSE ToZval(type, Zero(type))

\* php_gobject_gobject_init, once for every generated class of the hierarchy;
\* g_object_new then sets the properties that want it to their defaults, as
\* far as GLib accepts them and in an order that matters where two have one id.
TablesMade(c) == Cardinality(Ancestors[c])

Defaults(c, i) ==
    UNION {{Place(p, ToZval(pspec[p].type, g), g) : g \in Accepted(pspec[p], pspec[p].default)} :
              p \in {q \in PropertiesOf(c) : /\ Reachable(c, q) /\ pspec[q].id = i
                                              /\ "construct" \in pspec[q].flags}}

InitialPlaces(c) ==
    {f \in [Ids -> {NoPlace} \cup UNION {Defaults(c, i) : i \in Ids}] :
        \A i \in Ids : IF Defaults(c, i) = {} THEN f[i] = NoPlace ELSE f[i] \in Defaults(c, i)}

-----------------------------------------------------------------------------
(* Parameters and classes *)

Init ==
    /\ request = 1 /\ phase = "running"
    /\ pspec = [p \in ParamSpecs |-> Null]
    /\ generated = {}
    /\ object = [o \in Objs |-> Absent]
    /\ tables = 0

\* A memory error ends the process, and with it everything it held.
Die ==
    /\ phase' = "dead"
    /\ pspec' = [p \in ParamSpecs |-> Null] /\ generated' = {}
    /\ object' = [o \in Objs |-> Absent] /\ tables' = 0
    /\ UNCHANGED request

\* ParamSpec::string() to ParamSpec::unichar().
NewParamSpec(p, a) ==
    /\ phase = "running" /\ pspec[p] = Null
    /\ LET s == Bounded(a) IN
       \/ /\ s.default # <<"uint", NotUtf8>>
          /\ pspec' = [pspec EXCEPT ![p] =
                IF HasDefault(s)
                THEN [name |-> s.name, type |-> s.type, default |-> s.default, flags |-> s.flags,
                      min |-> s.min, max |-> s.max, owner |-> Null, id |-> 0]
                ELSE Invalid]
          /\ UNCHANGED <<request, phase, generated, object, tables>>
       \/ s.default = <<"uint", NotUtf8>> /\ Die

\* gobject_paramspec_free_storage; a class keeps the GParamSpec it installed.
FreeParamSpec(p) ==
    /\ phase = "running" /\ pspec[p] # Null /\ ~Installed(p)
    /\ pspec' = [pspec EXCEPT ![p] = Null]
    /\ UNCHANGED <<request, phase, generated, object, tables>>

\* The ids that g_object_class_install_property gets for a key: the key is not
\* read when it is a string, and the variable for it has no value.
IdsFor(key) == IF key = StringKey THEN 0 .. MaxId ELSE {key + 1}

\* The part of generate() that registers properties, those of S.  What GLib
\* refuses is as if it had not been in the array: a pointer that is NULL, the
\* id 0, a GParamSpec that is installed already, the second of a name.
Generate(c) ==
    /\ phase = "running" /\ c \notin generated
    /\ Ancestors[c] \ {c} \subseteq generated
    /\ \E S \in SUBSET {p \in ParamSpecs : IsSpec(p) /\ ~Installed(p)} :
       \E key \in [S -> Keys \cup {StringKey}], id \in [S -> Ids] :
          /\ \A p \in S : id[p] \in IdsFor(key[p])
          /\ \A p, q \in S : p # q =>
                (key[p] # key[q] \/ key[p] = StringKey) /\ pspec[p].name # pspec[q].name
          /\ pspec' = [p \in ParamSpecs |->
                IF p \in S THEN [pspec[p] EXCEPT !.owner = c, !.id = id[p]] ELSE pspec[p]]
    /\ generated' = generated \cup {c}
    /\ UNCHANGED <<request, phase, object, tables>>

-----------------------------------------------------------------------------
(* Objects *)

New(o, c) ==
    /\ phase = "running" /\ ~Exists(o) /\ c \in generated
    /\ tables + TablesMade(c) <= MaxTables
    /\ \E f \in InitialPlaces(c) :
          object' = [object EXCEPT ![o] =
            [class |-> c, wrapped |-> TRUE, native |-> FALSE, table |-> request, place |-> f]]
    /\ tables' = tables + TablesMade(c)
    /\ UNCHANGED <<request, phase, pspec, generated>>

\* Mutant: the id less one is the place, with places counted from 1.
EntryBelow(p) == pspec[p].id - 1

\* The entry of set_glib_property in the table: its key is the id less one,
\* and places are named after the ids here.
Entry(p) == pspec[p].id

\* Mutant: the table is made when there is something to write.
StoredAlone(o, p, z, v) ==
    [i \in Ids |-> IF i = Entry(p) THEN Place(p, z, v) ELSE NoPlace]

Stored(o, p, z, v) == [object[o].place EXCEPT ![Entry(p)] = Place(p, z, v)]

\* php_gobject_gobject_write_property and set_glib_property.  A name that is
\* not known, a property that is not writable and a value GLib refuses are
\* reported and change nothing; a text that is not UTF-8 is read through NULL.
Write(o, name, z) ==
    /\ phase = "running" /\ Exists(o) /\ object[o].wrapped
    /\ Find(object[o].class, name) # Null
    /\ LET p == Find(object[o].class, name)
           g == ToGValue(pspec[p].type, z)
       IN \/ g = <<"uint", NotUtf8>> /\ Die
          \/ /\ g # <<"uint", NotUtf8>>
             /\ "writable" \in pspec[p].flags
             /\ \E v \in Accepted(pspec[p], g) :
                \/ /\ Current(o)
                   /\ object' = [object EXCEPT ![o].place = Stored(o, p, z, v)]
                   /\ UNCHANGED <<request, phase, pspec, generated, tables>>
                \/ ~Current(o) /\ Die

\* php_gobject_gobject_read_property: a name that is not known and a table
\* that is gone are followed all the same.
Read(o, name) ==
    /\ phase = "running" /\ Exists(o) /\ object[o].wrapped
    /\ LET p == Find(object[o].class, name)
       IN p # Null => ~Current(o) /\ "readable" \in pspec[p].flags
    /\ Die

\* php_gobject_gobject_get_properties initialises a table at NULL.
Dump(o) ==
    /\ phase = "running" /\ Exists(o) /\ object[o].wrapped
    /\ Die

NativeRef(o) ==
    /\ phase = "running" /\ Exists(o) /\ ~object[o].native
    /\ object' = [object EXCEPT ![o].native = TRUE]
    /\ UNCHANGED <<request, phase, pspec, generated, tables>>

\* A value that native code returns gets a wrapper.
Wrap(o) ==
    /\ phase = "running" /\ Exists(o) /\ object[o].native /\ ~object[o].wrapped
    /\ object' = [object EXCEPT ![o].wrapped = TRUE]
    /\ UNCHANGED <<request, phase, pspec, generated, tables>>

\* Mutant: the table is left when its object goes.
FinalizeKeepsTable(o) ==
    /\ object' = [object EXCEPT ![o] = Absent]
    /\ UNCHANGED <<request, phase, pspec, generated, tables>>

\* php_gobject_gobject_finalize destroys the table, of whatever request it is.
Finalize(o) ==
    \/ /\ Current(o)
       /\ object' = [object EXCEPT ![o] = Absent]
       /\ tables' = tables - 1
       /\ UNCHANGED <<request, phase, pspec, generated>>
    \/ ~Current(o) /\ Die

DropWrapper(o) ==
    /\ phase = "running" /\ Exists(o) /\ object[o].wrapped
    /\ \/ /\ object[o].native
          /\ object' = [object EXCEPT ![o].wrapped = FALSE]
          /\ UNCHANGED <<request, phase, pspec, generated, tables>>
       \/ ~object[o].native /\ Finalize(o)

NativeUnref(o) ==
    /\ phase = "running" /\ Exists(o) /\ object[o].native
    /\ \/ /\ object[o].wrapped
          /\ object' = [object EXCEPT ![o].native = FALSE]
          /\ UNCHANGED <<request, phase, pspec, generated, tables>>
       \/ ~object[o].wrapped /\ Finalize(o)

\* Mutant: objects stay when their wrappers go.
EndingNone(o) == FALSE

\* The objects that go with their wrappers when a request ends.
Ending(o) == Exists(o) /\ ~object[o].native

\* Wrappers and ParamSpec objects go with the request, then its memory.
RequestEnd ==
    /\ phase = "running"
    /\ \/ /\ \A o \in Objs : Ending(o) => Current(o)
          /\ object' = [o \in Objs |-> IF ~Exists(o) \/ Ending(o) THEN Absent
                                       ELSE [object[o] EXCEPT !.wrapped = FALSE]]
          /\ pspec' = [p \in ParamSpecs |-> IF Installed(p) THEN pspec[p] ELSE Null]
          /\ tables' = 0
          /\ request < MaxRequests /\ request' = request + 1
          /\ UNCHANGED <<phase, generated>>
       \/ (\E o \in Objs : Ending(o) /\ ~Current(o)) /\ Die

Halted == (phase = "dead" \/ request = MaxRequests) /\ UNCHANGED vars

Next ==
    \/ \E p \in ParamSpecs : FreeParamSpec(p) \/ \E a \in Arguments : NewParamSpec(p, a)
    \/ \E c \in Classes : Generate(c) \/ \E o \in Objs : New(o, c)
    \/ \E o \in Objs, n \in Names : Read(o, n) \/ \E z \in Zvals : Write(o, n, z)
    \/ \E o \in Objs : Dump(o) \/ NativeRef(o) \/ Wrap(o) \/ DropWrapper(o) \/ NativeUnref(o)
    \/ RequestEnd
    \/ Halted

Spec == Init /\ [][Next]_vars

-----------------------------------------------------------------------------
(* Properties *)

\* Every variable has its type: GParamSpecs are well-formed, objects are of
\* registered classes, and what a table holds is of the type of its writer.
TypeOK ==
    /\ request \in 1 .. MaxRequests /\ phase \in {"running", "dead"}
    /\ generated \subseteq Classes /\ tables \in Nat
    /\ \A p \in ParamSpecs : IsSpec(p) =>
          /\ pspec[p].type \in PropertyTypes
          /\ pspec[p].owner \in generated \cup {Null}
          /\ pspec[p].owner # Null => pspec[p].id \in Ids
    /\ \A o \in Objs : Exists(o) =>
          /\ object[o].class \in generated /\ object[o].table \in 1 .. request
          /\ \A i \in Ids : object[o].place[i].by # Null =>
                LET place == object[o].place[i]
                IN /\ Installed(place.by) /\ pspec[place.by].id = i
                   /\ place.gvalue[1] = ValueType(pspec[place.by].type)

\* A zval that the property can hold: what a user expects to read back.
Fits(s, z) ==
    CASE s.type \in Integral -> z[1] = "long" /\ z[2] \in s.min .. s.max
      [] s.type = "boolean" -> z[1] = "bool"
      [] s.type = "string" -> z[1] = "string"
      [] s.type \in Real -> z[1] = "double" /\ z[2] = Single(z[2]) /\ z[2] \in s.min .. s.max
      [] OTHER -> z[1] = "string" /\ FirstChar(z[2]) \in Unichars /\ z[2] = Utf8(FirstChar(z[2]))

\* What was written and fits is what is read, through conversion to a GValue,
\* transformation and validation by GLib, the table, and conversion back, for
\* as long as no other property wrote to its place.
RoundTrip ==
    \A o \in Objs : Exists(o) =>
        \A i \in Ids : object[o].place[i].by # Null =>
            LET place == object[o].place[i]
            IN Fits(pspec[place.by], place.from) /\ "readable" \in pspec[place.by].flags
                   => ReadAs(o, place.by) = place.from

\* No write leaves a number outside the bounds of the property it was for:
\* values that are cut to the width of the type are cut before they are checked.
WithinBounds ==
    \A o \in Objs : Exists(o) =>
        \A i \in Ids : object[o].place[i].by # Null =>
            LET place == object[o].place[i]
                s     == pspec[place.by]
            IN /\ s.type \in Integral \cup Real => place.gvalue[2] \in s.min .. s.max
               /\ s.type = "unichar" => place.gvalue[2] \in Unichars

\* A property reads as a value of its own type, whichever property wrote to
\* the place last: two classes of one object may give out the same id.
ReadsAreTyped ==
    \A o \in Objs : Exists(o) =>
        \A p \in PropertiesOf(object[o].class) :
            LET z == ReadAs(o, p)
            IN /\ z[1] = PhpType(pspec[p].type)
               /\ z[1] = "long" => z[2] \in Numbers(pspec[p].type)

\* Only an object that native code holds outlives its request, and with it a
\* table whose memory is gone; a script alone cannot come to one.
HeldOutlives ==
    [][\A o \in Objs : Exists(o) /\ request' # request =>
            (object'[o].class # Null <=> object[o].native)]_vars

\* While no class has generated ancestors, there is one table for each object
\* of the request; a subclass makes more than it gives back.
TablesExact ==
    (\A c \in generated : Ancestors[c] = {c})
        => tables = Cardinality({o \in Objs : Current(o)})

\* What the properties of an object come to, where they do not share a place
\* and the table is there.
Value ==
    [o \in Objs |-> [p \in ParamSpecs |->
        IF /\ Current(o) /\ p \in PropertiesOf(object[o].class)
           /\ Unshared(object[o].class, p)
           /\ object[o].place[pspec[p].id].by # Null
        THEN object[o].place[pspec[p].id].gvalue
        ELSE NoValue]]

PM == INSTANCE PropertyMap
        WITH Objects <- Objs, Properties <- ParamSpecs, Unset <- NoValue, value <- Value

\* Properties with ids of their own behave as variables of their own: a step
\* writes at most one of them, and only the end of an object unsets them.
ImplementsPropertyMap == PM!Spec
=============================================================================
