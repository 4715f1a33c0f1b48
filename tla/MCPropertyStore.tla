-------------------------- MODULE MCPropertyStore --------------------------
(* Small instances of PropertyStore for TLC: a char has 4 values, an int 8   *)
(* and a long 32; floats are exact up to 4.                                  *)
EXTENDS PropertyStore, TLC

CONSTANTS A, B

MCSpan == [char |-> 4, int |-> 8, long |-> 32]
MCUnichars == {0, 1, 2}

\* "" has an end only, "y" is code 1, "half" the code of half a character,
\* "bad" is no UTF-8.
MCFirstChar(s) ==
    CASE s = "" -> 0 [] s = "y" -> 1 [] s = "bad" -> NotUtf8 [] OTHER -> 5
MCUtf8(n) == CASE n = 0 -> "\\0" [] n = 1 -> "y" [] OTHER -> "half"
MCText(g) == ToString(g[2])

MCAncestors == [c \in {A, B} |-> IF c = A THEN {A} ELSE {A, B}]

ReadWrite == {"readable", "writable"}
Arg(name, type, default, min, max, flags) ==
    [name |-> name, type |-> type, default |-> default, min |-> min, max |-> max,
     flags |-> flags]

MCArguments ==
    { Arg("x", "char",  <<"char", 0>>,  -2, 1, ReadWrite),
      Arg("y", "int",   <<"int", 1>>,   -1, 2, ReadWrite \cup {"lax"}),
      Arg("x", "uchar", <<"uchar", 3>>,  0, 2, ReadWrite),
      Arg("y", "unichar", <<"string", "y">>, 0, 0, ReadWrite \cup {"construct"}),
      Arg("y", "unichar", <<"string", "bad">>, 0, 0, {}),
      Arg("y", "string", <<"string", "">>, 0, 0, ReadWrite \ {"readable"}),
      Arg("x", "float", <<"float", 0>>, -64, 5, ReadWrite) }

MCZvals ==
    { <<"long", 2>>, <<"long", 6>>, <<"double", 2>>, <<"double", 7>>,
      <<"string", "y">>, <<"string", "half">>, <<"string", "bad">> }

Symmetry == Permutations(ParamSpecs)
=============================================================================
