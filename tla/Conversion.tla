----------------------------- MODULE Conversion -----------------------------
(* What gobject_helpers.c and gobject_paramspec_class.c do to a value on its *)
(* way from PHP to GLib and back.  A zval and a GValue are pairs of a type   *)
(* and a value; a type of GObject\ParamSpec is named after its constructor.  *)
(* Widths are scaled: Span[t] stands for 2^8, 2^32 and 2^64.  A float keeps   *)
(* the integers below SinglePrecision and only even ones above (2^24 in C).  *)
EXTENDS Integers

CONSTANTS
    Span,             \* number of values of a char, an int and a long
    SinglePrecision,  \* the first integer whose successor is no float
    Unichars,         \* code points g_unichar_validate accepts
    FirstChar(_),     \* code of the first character of a text, or NotUtf8
    Utf8(_),          \* the text of one code point
    Text(_)           \* the text GLib makes of a GValue

NotUtf8 == -1

ASSUME SpanAssumption ==
    /\ Span \in [{"char", "int", "long"} -> Nat]
    /\ \A t \in {"char", "int", "long"} : Span[t] > 1 /\ Span[t] % 2 = 0
    /\ Span["char"] <= Span["int"] /\ Span["int"] <= Span["long"]

ASSUME CodesAssumption ==
    /\ SinglePrecision \in Nat \ {0} /\ SinglePrecision % 2 = 0
    /\ Unichars \subseteq 0 .. Span["int"] - 1 /\ 0 \in Unichars

-----------------------------------------------------------------------------
(* Types *)

Signed   == {"char", "int", "long"}
Integral == Signed \cup {"uchar", "uint"}
Real     == {"double", "float"}
PropertyTypes == Integral \cup Real \cup {"string", "boolean", "unichar"}

Width(t) == Span[IF t = "uchar" THEN "char" ELSE IF t = "uint" THEN "int" ELSE t]
Lowest(t) == IF t \in Signed THEN -(Width(t) \div 2) ELSE 0
Numbers(t) == Lowest(t) .. Lowest(t) + Width(t) - 1

\* A C cast to the integral type t.
Cast(t, n) == ((n - Lowest(t)) % Width(t)) + Lowest(t)

\* A C cast to gfloat, rounded to the nearest, ties to the even mantissa.
Single(n) ==
    IF n % 2 = 0 \/ n \in -SinglePrecision .. SinglePrecision THEN n
    ELSE 4 * ((n + 1) \div 4)

ValueType(t) == IF t = "unichar" THEN "uint" ELSE t

-----------------------------------------------------------------------------
(* From PHP to GLib *)

NoValue == <<"none", 0>>

\* zval_with_gtype_to_gvalue, called with init TRUE and the GType of a
\* GParamSpec, of which it knows only unichar.  A GValue cannot be of type
\* void, which is what NULL asks for; a GObject and an array arrive.
ToGValue(t, z) ==
    CASE z[1] = "bool" -> <<"boolean", z[2]>>
      [] z[1] = "long" -> z
      [] z[1] = "double" -> <<"double", Single(z[2])>>
      [] z[1] = "string" /\ t = "unichar" -> <<"uint", FirstChar(z[2])>>
      [] z[1] = "string" /\ t # "unichar" -> z
      [] z[1] \in {"object", "array"} -> z
      [] OTHER -> NoValue

\* g_value_transform: what the GValue g may become as a value of type t;
\* nothing if there is no transformation, anything where a number out of the
\* range of an integer is cast from a double.
Transformed(g, t) ==
    CASE g[1] = t -> {g[2]}
      [] g[1] = "boolean" /\ t \in Integral -> {IF g[2] THEN 1 ELSE 0}
      [] g[1] = "long" /\ t = "boolean" -> {g[2] # 0}
      [] g[1] = "long" /\ t \in Integral \ {"long"} -> {Cast(t, g[2])}
      [] g[1] = "double" /\ t \in Integral ->
            IF g[2] \in Numbers(t) THEN {g[2]} ELSE Numbers(t)
      [] g[1] = "long" /\ t = "double" -> {g[2]}
      [] g[1] \in {"long", "double"} /\ t = "float" -> {Single(g[2])}
      [] g[1] \in {"boolean", "long", "double"} /\ t = "string" -> {Text(g)}
      [] OTHER -> {}

\* The GParamSpec that a constructor of GObject\ParamSpec makes of arguments
\* that zend_parse_parameters took as longs: the g_param_spec_... functions
\* take the bounds in the width of their type.
Bounded(a) ==
    CASE a.type \in Integral ->
            [a EXCEPT !.min = Cast(a.type, @), !.max = Cast(a.type, @),
                      !.default = <<a.type, Cast(a.type, @[2])>>]
      [] a.type = "float" ->
            [a EXCEPT !.min = Single(@), !.max = Single(@), !.default = <<"float", Single(@[2])>>]
      [] a.type = "unichar" -> [a EXCEPT !.default = <<"uint", FirstChar(@[2])>>]
      [] OTHER -> a

\* g_param_spec_... return NULL when the default is out of bounds.
HasDefault(s) == s.type \in Integral \cup Real => s.default[2] \in s.min .. s.max

\* Mutant: bounds are compared with the value that was given to the cast.
ValidatedNot(s, v) == {v}

\* g_param_value_validate: the value of a property, or nothing if it would
\* have to be changed and the property is not lax.
Validated(s, v) ==
    LET unchanged == CASE s.type \in Integral \cup Real -> v \in s.min .. s.max
                       [] s.type = "unichar" -> v \in Unichars
                       [] OTHER -> TRUE
        changed   == CASE s.type = "unichar" -> 0
                       [] s.type # "unichar" /\ v < s.min -> s.min
                       [] OTHER -> s.max
    IN IF unchanged THEN {v} ELSE IF "lax" \in s.flags THEN {changed} ELSE {}

\* g_object_set_property: the GValues it may hand to the class.
Accepted(s, g) ==
    {<<ValueType(s.type), w>> :
        w \in UNION {Validated(s, v) : v \in Transformed(g, ValueType(s.type))}}

-----------------------------------------------------------------------------
(* From GLib to PHP *)

\* What g_value_init leaves in a GValue.
Zero(t) ==
    <<ValueType(t), CASE t = "string" -> "" [] t = "boolean" -> FALSE [] OTHER -> 0>>

\* The PHP type of what a property of type t reads as.
PhpType(t) ==
    CASE t \in {"string", "unichar"} -> "string"
      [] t = "boolean" -> "bool"
      [] t \in Real -> "double"
      [] OTHER -> "long"

\* Mutant: every integer is read as a char.
ToZvalChar(t, g) ==
    <<PhpType(t), CASE t = "unichar" -> Utf8(g[2])
                    [] t \in Integral -> Cast("char", g[2])
                    [] OTHER -> g[2]>>

\* gvalue_with_gtype_to_zval with the GType of a GParamSpec.
ToZval(t, g) ==
    CASE t = "string" -> <<"string", g[2]>>
      [] t = "boolean" -> <<"bool", g[2]>>
      [] t = "unichar" -> <<"string", Utf8(g[2])>>
      [] t \in Real -> <<"double", g[2]>>
      [] OTHER -> <<"long", g[2]>>
=============================================================================
