------------------------------- MODULE Names -------------------------------
(* Names of types and of classes (gobject_helpers.c:541-646) and what classes *)
(* stand for them: a GType that a script registers is named with "__" where   *)
(* its class has a namespace separator, a type of a typelib is named by the   *)
(* typelib.  Names are sequences of characters; PHP does not tell the case of *)
(* a class, GLib does.                                                        *)
EXTENDS Integers, Sequences, FiniteSets

CONSTANTS
    NoType,     \* GType 0, and no class
    TypeNames,  \* names for Type::generate
    Infos,      \* classes of typelibs: namespace, name and GType
    Folded(_),  \* a character as the class table has it
    MaxTypes    \* bound of the types a script generates

VARIABLES
    types,      \* GTypes that generate() registered
    namespaces, \* namespaces that are loaded
    class       \* class table: which GType each name has a class of

namesVars == <<types, namespaces, class>>

Separator == "\\"

ASSUME NamesAssumption ==
    /\ \A t \in TypeNames : t \in Seq(STRING) /\ Separator \notin {t[i] : i \in DOMAIN t}
    /\ \A i \in Infos : i.ns \in Seq(STRING) /\ i.name \in Seq(STRING)
    /\ \A i \in Infos : Separator \notin {i.ns[k] : k \in DOMAIN i.ns}
    /\ \A i \in Infos : Separator \notin {i.name[k] : k \in DOMAIN i.name}
    /\ \A i, j \in Infos : i.gtype = j.gtype \/ (i.ns = j.ns /\ i.name = j.name) => i = j
    /\ \A i \in Infos : i.gtype \notin TypeNames
    /\ NoType \notin TypeNames \cup {i.gtype : i \in Infos}

-----------------------------------------------------------------------------
(* Operators *)

Fold(s) == [i \in DOMAIN s |-> Folded(s[i])]

\* namespaced_name
Namespaced(info) == info.ns \o <<Separator>> \o info.name

Loaded == {i \in Infos : i.ns \in namespaces}

\* Mutant: a pair of underscores is stepped over one by one.
ScannedByOne(s) ==
    LET from[i \in 1 .. Len(s) + 1] ==
            IF i > Len(s) THEN <<>>
            ELSE IF s[i] = "_" /\ i < Len(s) /\ s[i + 1] = "_"
                 THEN <<Separator>> \o from[i + 1]
                 ELSE <<s[i]>> \o from[i + 1]
    IN from[1]

\* The loop of phpname_from_gtype.
Scanned(s) ==
    LET from[i \in 1 .. Len(s) + 1] ==
            IF i > Len(s) THEN <<>>
            ELSE IF s[i] = "_" /\ i < Len(s) /\ s[i + 1] = "_"
                 THEN <<Separator>> \o from[i + 2]
                 ELSE <<s[i]>> \o from[i + 1]
    IN from[1]

PhpName(type) ==
    IF \E i \in Loaded : i.gtype = type
    THEN Namespaced(CHOOSE i \in Loaded : i.gtype = type)
    ELSE Scanned(type)

\* g_strsplit at the separators and g_strjoinv with "__".
Joined(s) ==
    LET from[i \in 1 .. Len(s) + 1] ==
            IF i > Len(s) THEN <<>>
            ELSE (IF s[i] = Separator THEN <<"_", "_">> ELSE <<s[i]>>) \o from[i + 1]
    IN from[1]

\* g_type_from_phpname: a typelib comes before the types of the script.
TypeOf(name) ==
    IF \E i \in Loaded : Namespaced(i) = name
    THEN (CHOOSE i \in Loaded : Namespaced(i) = name).gtype
    ELSE IF Joined(name) \in types THEN Joined(name) ELSE NoType

ClassNames ==
    {Fold(Scanned(t)) : t \in TypeNames} \cup {Fold(Namespaced(i)) : i \in Infos}

-----------------------------------------------------------------------------

NamesInit ==
    /\ types = {} /\ namespaces = {}
    /\ class = [k \in ClassNames |-> NoType]

\* The name that Type::generate registers a class by.  A class that has it
\* already, in whatever case, is replaced.
Generate(t) ==
    /\ t \notin types /\ Cardinality(types) < MaxTypes
    /\ types' = types \cup {t}
    /\ class' = [class EXCEPT ![Fold(PhpName(t))] = t]
    /\ UNCHANGED namespaces

\* GIRepository\load_ns: a class that is there is taken to be the one wanted.
Load(ns) ==
    /\ ns \notin namespaces
    /\ namespaces' = namespaces \cup {ns}
    /\ class' = [k \in ClassNames |->
          IF class[k] = NoType /\ \E i \in Infos : i.ns = ns /\ Fold(Namespaced(i)) = k
          THEN (CHOOSE i \in Infos : i.ns = ns /\ Fold(Namespaced(i)) = k).gtype
          ELSE class[k]]
    /\ UNCHANGED types

NamesNext ==
    \/ \E t \in TypeNames : Generate(t)
    \/ \E ns \in {i.ns : i \in Infos} : Load(ns)

NamesTypeOK ==
    /\ types \subseteq TypeNames
    /\ namespaces \subseteq {i.ns : i \in Infos}
    /\ class \in [ClassNames -> types \cup {i.gtype : i \in Loaded} \cup {NoType}]

\* The constructor of a class makes an instance of the GType the class was
\* registered for, whatever underscores its name has: the two conversions
\* undo each other.  The exception is a type of the script whose class has
\* the name of a class of a typelib, which hides it.
ClassMeansType ==
    \A k \in ClassNames :
        LET type == class[k]
        IN type # NoType =>
            \/ TypeOf(PhpName(type)) = type
            \/ type \in types /\ \E i \in Loaded : Namespaced(i) = Scanned(type)
=============================================================================
