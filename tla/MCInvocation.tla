---------------------------- MODULE MCInvocation ----------------------------
(* Small instances of Invocation and Names for TLC: a char has 4 values, a    *)
(* long 16.  The typelib A has one class, A\a, of the GType Aa.               *)
EXTENDS Invocation, TLC

MCSpan == [char |-> 4, int |-> 8, long |-> 16]
MCFirstChar(s) == 0
MCUtf8(n) == ""
MCText(g) == ""
MCNumber(s) == IF s = "5" THEN 5 ELSE 0

Info == [ns |-> <<"A">>, name |-> <<"a">>, gtype |-> <<"A", "a">>]
MCInfos == {Info}

MCTypeNames ==
    { <<"a", "_", "_", "a">>, <<"A", "_", "_", "a">>, <<"a", "_", "_", "_", "a">>,
      <<"a", "_", "_", "_", "_">>, <<"_", "_", "_", "a">>, <<"a", "_", "a">> }
MCFolded(c) == IF c = "A" THEN "a" ELSE c

In(tag)  == [out |-> FALSE, optional |-> FALSE, tag |-> tag]
Out(opt) == [out |-> TRUE, optional |-> opt, tag |-> "char"]
Function(params) ==
    [owner |-> Info, method |-> FALSE, throws |-> FALSE, text |-> FALSE, params |-> params]

MCFunctions ==
    { Function(<<In("char"), In("uchar")>>),
      [Function(<<In("utf8"), In("char")>>) EXCEPT !.text = TRUE],
      Function(<<In("char"), In("utf8")>>),
      Function(<<Out(TRUE), In("char")>>),
      Function(<<Out(FALSE), In("boolean")>>),
      Function(<<In("object"), In("char")>>),
      Function(<<In("other")>>),
      [Function(<<In("enum")>>) EXCEPT !.method = TRUE, !.throws = TRUE] }

MCValues ==
    {<<"long", 3>>, <<"string", "5">>, <<"null", 0>>, <<"object", 0>>}

Symmetry == Permutations(Vars) \cup Permutations(Cells)
=============================================================================
