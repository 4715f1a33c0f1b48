-------------------------- MODULE ConversionProofs --------------------------
(***************************************************************************)
(* Proofs about Conversion, for every width of the integers and every      *)
(* precision of a float: what a cast, a validation and a round trip keep.  *)
(***************************************************************************)
EXTENDS Conversion, TLAPS

\* Numbers and widths are integers, and 0 is a number of every type.
LEMMA WidthType ==
    ASSUME NEW t \in Integral
    PROVE  /\ Width(t) \in Nat /\ Width(t) > 1 /\ Width(t) % 2 = 0
           /\ Lowest(t) \in Int /\ Lowest(t) <= 0 /\ 0 < Lowest(t) + Width(t)
           /\ 0 \in Numbers(t)
<1>1. Width(t) \in Nat /\ Width(t) > 1 /\ Width(t) % 2 = 0
  BY SpanAssumption DEF Width, Integral, Signed
<1>2. Lowest(t) \in Int /\ Lowest(t) <= 0 /\ 0 < Lowest(t) + Width(t)
  <2> DEFINE w == Width(t)
  <2> HIDE DEF w
  <2>1. w \in Nat /\ w > 1
    BY <1>1 DEF w
  <2>2. -(w \div 2) \in Int /\ -(w \div 2) <= 0 /\ 0 < -(w \div 2) + w
    BY <2>1
  <2>3. Lowest(t) = IF t \in Signed THEN -(w \div 2) ELSE 0
    BY DEF Lowest, w
  <2> QED BY <2>1, <2>2, <2>3 DEF w
<1> QED BY <1>1, <1>2 DEF Numbers

\* A remainder is what it is in arithmetic.
LEMMA Remainder ==
    ASSUME NEW n \in Int, NEW w \in Nat, w > 0
    PROVE  /\ n % w \in 0 .. w - 1
           /\ n \in 0 .. w - 1 => n % w = n
OBVIOUS

\* A cast gives a number of the type, and a number of the type is cast to itself.
LEMMA CastInRange ==
    ASSUME NEW t \in Integral, NEW n \in Int
    PROVE  /\ Cast(t, n) \in Numbers(t)
           /\ n \in Numbers(t) => Cast(t, n) = n
<1> DEFINE w == Width(t)
           l == Lowest(t)
<1>1. w \in Nat /\ w > 0 /\ l \in Int
  BY WidthType
<1> HIDE DEF w, l
<1>2. (n - l) % w \in 0 .. w - 1
  BY <1>1, Remainder
<1>3. n - l \in 0 .. w - 1 => (n - l) % w = n - l
  BY <1>1, Remainder
<1>4. Cast(t, n) = ((n - l) % w) + l /\ Numbers(t) = l .. l + w - 1
  BY DEF Cast, Numbers, w, l
<1> QED BY <1>1, <1>2, <1>3, <1>4
=============================================================================
