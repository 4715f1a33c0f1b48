----------------------- MODULE ObjectLifecycleProofs -----------------------
(***************************************************************************)
(* Proofs about ObjectLifecycle: what is counted, listed and freed, for any *)
(* number of containers, wrappers, GObjects and closures, and any nesting of *)
(* emissions and destructions.                                             *)
(***************************************************************************)
EXTENDS ObjectLifecycle, Integers, FiniteSetTheorems, SequenceTheorems, TLAPS

-----------------------------------------------------------------------------
(* Sequences                                                                *)

\* What a sequence with one more element in front is made of.
LEMMA PushFacts ==
    ASSUME NEW S, NEW s \in Seq(S), NEW a \in S
    PROVE  LET t == <<a>> \o s
           IN  /\ t \in Seq(S) /\ t # <<>>
               /\ Head(t) = a /\ Tail(t) = s
               /\ Len(s) \in Nat /\ DOMAIN s = 1 .. Len(s)
               /\ DOMAIN t = 1 .. Len(s) + 1
               /\ t[1] = a /\ \A i \in 1 .. Len(s) : t[i + 1] = s[i]
               /\ Elements(t) = {a} \cup Elements(s)
<1> DEFINE t == <<a>> \o s
<1>1. t \in Seq(S) /\ t # <<>> /\ Len(t) = Len(s) + 1 /\ Len(s) \in Nat
  OBVIOUS
<1>2. DOMAIN s = 1 .. Len(s) /\ DOMAIN t = 1 .. Len(s) + 1
  BY <1>1
<1>3. t[1] = a /\ \A i \in 1 .. Len(s) : t[i + 1] = s[i]
  OBVIOUS
<1>4. Head(t) = a /\ Tail(t) = s
  OBVIOUS
<1>5. Elements(t) = {a} \cup Elements(s)
  <2>1. ASSUME NEW x \in Elements(t) PROVE x \in {a} \cup Elements(s)
    <3>1. PICK i \in 1 .. Len(s) + 1 : x = t[i]
      BY <1>2 DEF Elements
    <3>2. CASE i = 1
      BY <3>1, <3>2, <1>3
    <3>3. CASE i # 1
      <4>1. i - 1 \in 1 .. Len(s) /\ t[(i - 1) + 1] = s[i - 1]
        BY <3>3, <1>1, <1>3
      <4> QED BY <4>1, <3>1, <1>2 DEF Elements
    <3> QED BY <3>2, <3>3
  <2>2. ASSUME NEW x \in {a} \cup Elements(s) PROVE x \in Elements(t)
    <3>1. CASE x = a
      BY <3>1, <1>1, <1>2, <1>3 DEF Elements
    <3>2. CASE x \in Elements(s)
      <4>1. PICK i \in 1 .. Len(s) : x = s[i]
        BY <3>2, <1>2 DEF Elements
      <4>2. i + 1 \in DOMAIN t /\ t[i + 1] = x
        BY <4>1, <1>1, <1>2, <1>3
      <4> QED BY <4>2 DEF Elements
    <3> QED BY <3>1, <3>2
  <2> QED BY <2>1, <2>2
<1> QED BY <1>1, <1>2, <1>3, <1>4, <1>5

\* A sequence that is not empty is its head in front of its tail.
LEMMA TopFacts ==
    ASSUME NEW S, NEW s \in Seq(S), s # <<>>
    PROVE  /\ s = <<Head(s)>> \o Tail(s)
           /\ Head(s) \in S /\ Tail(s) \in Seq(S)
           /\ Elements(s) = {Head(s)} \cup Elements(Tail(s))
<1>1. Head(s) \in S /\ Tail(s) \in Seq(S) /\ s = <<Head(s)>> \o Tail(s)
  OBVIOUS
<1> QED BY <1>1, PushFacts

\* The head of a sequence is its first element.
LEMMA HeadIsFirst ==
    ASSUME NEW S, NEW s \in Seq(S), Len(s) # 0
    PROVE  s # <<>> /\ Head(s) = s[1]
OBVIOUS

\* The elements of sequences.
LEMMA ElementsFacts ==
    ASSUME NEW S, NEW s \in Seq(S)
    PROVE  /\ Elements(s) \subseteq S
           /\ \A i \in DOMAIN s : s[i] \in Elements(s)
           /\ s # <<>> => Head(s) \in Elements(s) /\ Elements(Tail(s)) \subseteq Elements(s)
           /\ s = <<>> <=> Elements(s) = {}
<1>1. Elements(s) \subseteq S
  BY DEF Elements
<1>2. \A i \in DOMAIN s : s[i] \in Elements(s)
  BY DEF Elements
<1>3. s # <<>> => Head(s) \in Elements(s) /\ Elements(Tail(s)) \subseteq Elements(s)
  BY TopFacts
<1>4. s = <<>> => Elements(s) = {}
  BY DEF Elements
<1> QED BY <1>1, <1>2, <1>3, <1>4

\* The empty sequence has no elements, and a sequence of one has one.
LEMMA SmallElements ==
    Elements(<<>>) = {} /\ \A x : Elements(<<x>>) = {x}
BY DEF Elements

-----------------------------------------------------------------------------
(* Counting places in sequences                                             *)

\* Two sets with nothing in common.
LEMMA DisjointUnion ==
    ASSUME NEW A, NEW B, IsFiniteSet(A), IsFiniteSet(B), A \cap B = {}
    PROVE  Cardinality(A \cup B) = Cardinality(A) + Cardinality(B)
<1>1. Cardinality(A) \in Nat /\ Cardinality(B) \in Nat /\ Cardinality(A \cap B) = 0
  BY FS_CardinalityType, FS_EmptySet
<1>2. Cardinality(A \cup B) = Cardinality(A) + Cardinality(B) - Cardinality(A \cap B)
  BY FS_Union
<1> QED BY <1>1, <1>2

\* The places of a sequence and those of one with an element more in front.
LEMMA PlacesShift ==
    ASSUME NEW n \in Nat, NEW T \in SUBSET (1 .. n), NEW U \in SUBSET (1 .. n + 1),
           \A i \in 1 .. n : i + 1 \in U <=> i \in T
    PROVE  /\ Cardinality(T) \in Nat /\ Cardinality(U) \in Nat
           /\ Cardinality(U) = Cardinality(T) + (IF 1 \in U THEN 1 ELSE 0)
<1> DEFINE V == U \ {1}
           f == [i \in T |-> i + 1]
<1>1. IsFiniteSet(T) /\ IsFiniteSet(U) /\ Cardinality(T) \in Nat /\ Cardinality(U) \in Nat
  <2>1. IsFiniteSet(1 .. n) /\ IsFiniteSet(1 .. n + 1)
    BY FS_Interval
  <2> QED BY <2>1, FS_Subset, FS_CardinalityType
<1>2. f \in Bijection(T, V)
  <2>1. ASSUME NEW i \in T PROVE i + 1 \in V
    OBVIOUS
  <2>2. ASSUME NEW j \in V PROVE \E i \in T : i + 1 = j
    <3>1. j - 1 \in 1 .. n /\ (j - 1) + 1 = j
      OBVIOUS
    <3> QED BY <3>1
  <2>3. f \in [T -> V]
    BY <2>1
  <2>4. \A i, j \in T : f[i] = f[j] => i = j
    OBVIOUS
  <2>5. \A j \in V : \E i \in T : f[i] = j
    BY <2>2
  <2> QED BY <2>3, <2>4, <2>5 DEF Bijection, Injection, Surjection, IsInjective
<1>3. Cardinality(V) = Cardinality(T)
  BY <1>1, <1>2, FS_Bijection DEF ExistsBijection
<1>4. Cardinality(V) = IF 1 \in U THEN Cardinality(U) - 1 ELSE Cardinality(U)
  BY <1>1, FS_RemoveElement
<1> QED BY <1>1, <1>3, <1>4

\* The same for pairs of a place and a place in what is there: U are the pairs of T,
\* one place further, and those of the first place with Q.
Shifted(n, T, U, Q) ==
    /\ IsFiniteSet(T) /\ \A p \in T : \E i \in 1 .. n, k \in Nat : p = <<i, k>>
    /\ IsFiniteSet(U) /\ \A p \in U : \E i \in 1 .. n + 1, k \in Nat : p = <<i, k>>
    /\ IsFiniteSet(Q) /\ \A k \in Q : k \in Nat
    /\ \A k \in Nat : <<1, k>> \in U <=> k \in Q
    /\ \A i \in 1 .. n, k \in Nat : <<i + 1, k>> \in U <=> <<i, k>> \in T

\* The pairs of the first place come on top of those of the others.
LEMMA PairsShift ==
    ASSUME NEW n \in Nat, NEW T, NEW U, NEW Q, Shifted(n, T, U, Q)
    PROVE  /\ Cardinality(T) \in Nat /\ Cardinality(U) \in Nat /\ Cardinality(Q) \in Nat
           /\ Cardinality(U) = Cardinality(T) + Cardinality(Q)
<1> USE DEF Shifted
<1> DEFINE A == {p \in U : p[1] = 1}
           B == {p \in U : p[1] # 1}
           f == [p \in A |-> p[2]]
           g == [p \in T |-> <<p[1] + 1, p[2]>>]
<1>1. IsFiniteSet(A) /\ IsFiniteSet(B)
  BY FS_Subset
<1>2. f \in Bijection(A, Q)
  <2>1. ASSUME NEW p \in A PROVE p = <<1, p[2]>> /\ p[2] \in Q
    OBVIOUS
  <2>2. f \in [A -> Q]
    BY <2>1
  <2>3. ASSUME NEW p \in A, NEW q \in A, f[p] = f[q] PROVE p = q
    BY <2>1, <2>3
  <2>4. ASSUME NEW k \in Q PROVE \E p \in A : f[p] = k
    <3>1. <<1, k>> \in A /\ f[<<1, k>>] = k
      OBVIOUS
    <3> QED BY <3>1
  <2> QED BY <2>2, <2>3, <2>4 DEF Bijection, Injection, Surjection, IsInjective
<1>3. g \in Bijection(T, B)
  <2>1. ASSUME NEW p \in T PROVE /\ p = <<p[1], p[2]>> /\ p[1] \in 1 .. n /\ p[2] \in Nat
                                 /\ g[p] = <<p[1] + 1, p[2]>>
    OBVIOUS
  <2>2. ASSUME NEW p \in T PROVE g[p] \in B
    <3>1. <<p[1] + 1, p[2]>> \in U
      BY <2>1
    <3>2. <<p[1] + 1, p[2]>>[1] # 1
      BY <2>1
    <3> QED BY <3>1, <3>2, <2>1
  <2>3. ASSUME NEW p \in T, NEW q \in T, g[p] = g[q] PROVE p = q
    <3>1. p[1] + 1 = q[1] + 1 /\ p[2] = q[2]
      BY <2>1, <2>3
    <3> QED BY <3>1, <2>1
  <2>4. ASSUME NEW q \in B PROVE \E p \in T : g[p] = q
    <3>1. q = <<q[1], q[2]>> /\ q[1] \in 1 .. n + 1 /\ q[2] \in Nat /\ q[1] # 1
      OBVIOUS
    <3>2. q[1] - 1 \in 1 .. n /\ (q[1] - 1) + 1 = q[1]
      BY <3>1
    <3>3. <<q[1] - 1, q[2]>> \in T
      BY <3>1, <3>2
    <3>4. g[<<q[1] - 1, q[2]>>] = q
      BY <3>1, <3>2, <3>3
    <3> QED BY <3>3, <3>4
  <2> QED BY <2>2, <2>3, <2>4 DEF Bijection, Injection, Surjection, IsInjective
<1>4. Cardinality(A) = Cardinality(Q) /\ Cardinality(B) = Cardinality(T)
  BY <1>1, <1>2, <1>3, FS_Bijection DEF ExistsBijection
<1>5. A \cup B = U /\ A \cap B = {}
  OBVIOUS
<1>6. Cardinality(A) \in Nat /\ Cardinality(B) \in Nat /\ Cardinality(U) \in Nat
  BY <1>1, FS_CardinalityType
<1>7. Cardinality(U) = Cardinality(A) + Cardinality(B)
  <2>1. Cardinality(A \cup B) = Cardinality(A) + Cardinality(B)
    BY <1>1, <1>5, DisjointUnion
  <2> QED BY <2>1, <1>5
<1> QED BY <1>4, <1>6, <1>7

\* The places of a sequence that have something in common are finitely many.
LEMMA FinitePlaces ==
    ASSUME NEW S, NEW s \in Seq(S), NEW T \in SUBSET (DOMAIN s)
    PROVE  IsFiniteSet(T) /\ Cardinality(T) \in Nat
<1>1. DOMAIN s = 1 .. Len(s) /\ 1 \in Int /\ Len(s) \in Int
  OBVIOUS
<1>2. IsFiniteSet(DOMAIN s)
  BY <1>1, FS_Interval
<1> QED BY <1>2, FS_Subset, FS_CardinalityType

\* How often an element is in a sequence.
LEMMA CountFacts ==
    ASSUME NEW S, NEW s \in Seq(S), NEW x
    PROVE  /\ Count(x, s) \in Nat
           /\ Count(x, s) = 0 <=> x \notin Elements(s)
<1> DEFINE T == {i \in DOMAIN s : s[i] = x}
<1>1. IsFiniteSet(T) /\ Cardinality(T) \in Nat
  BY FinitePlaces
<1>2. Cardinality(T) = 0 <=> T = {}
  BY <1>1, FS_EmptySet
<1>3. T = {} <=> x \notin Elements(s)
  BY DEF Elements
<1> QED BY <1>1, <1>2, <1>3 DEF Count

\* In the empty sequence nothing is.
LEMMA CountEmpty == \A x : Count(x, <<>>) = 0
BY FS_EmptySet DEF Count

\* One more element in front counts once.
LEMMA CountPush ==
    ASSUME NEW S, NEW s \in Seq(S), NEW a \in S, NEW x
    PROVE  Count(x, <<a>> \o s) = Count(x, s) + (IF a = x THEN 1 ELSE 0)
<1> DEFINE t == <<a>> \o s
           T == {i \in DOMAIN s : s[i] = x}
           U == {i \in DOMAIN t : t[i] = x}
<1>1. /\ Len(s) \in Nat /\ DOMAIN s = 1 .. Len(s) /\ DOMAIN t = 1 .. Len(s) + 1
      /\ t[1] = a /\ \A i \in 1 .. Len(s) : t[i + 1] = s[i]
  BY PushFacts
<1> HIDE DEF t
<1>2. \A i \in 1 .. Len(s) : i + 1 \in U <=> i \in T
  BY <1>1
<1>3. 1 \in U <=> a = x
  BY <1>1
<1>4. T \in SUBSET (1 .. Len(s)) /\ U \in SUBSET (1 .. Len(s) + 1)
  BY <1>1
<1>5. Len(s) \in Nat
  BY <1>1
<1> HIDE DEF T, U
<1>6. Cardinality(U) = Cardinality(T) + (IF 1 \in U THEN 1 ELSE 0)
  BY <1>2, <1>4, <1>5, PlacesShift
<1> QED BY <1>3, <1>6 DEF Count, T, U, t

\* And so does one more at the end.
LEMMA CountAppend ==
    ASSUME NEW S, NEW s \in Seq(S), NEW a \in S, NEW x
    PROVE  Count(x, Append(s, a)) = Count(x, s) + (IF a = x THEN 1 ELSE 0)
<1> DEFINE t == Append(s, a)
           n == Len(s)
           T == {i \in DOMAIN s : s[i] = x}
           U == {i \in DOMAIN t : t[i] = x}
<1>1. /\ n \in Nat /\ DOMAIN s = 1 .. n /\ DOMAIN t = 1 .. n + 1
      /\ t[n + 1] = a /\ \A i \in 1 .. n : t[i] = s[i]
  OBVIOUS
<1>2. U = IF a = x THEN T \cup {n + 1} ELSE T
  BY <1>1
<1>3. n + 1 \notin T /\ IsFiniteSet(T) /\ Cardinality(T) \in Nat
  BY <1>1, FinitePlaces
<1>4. Cardinality(T \cup {n + 1}) = Cardinality(T) + 1
  BY <1>3, FS_AddElement
<1>5. Cardinality(U) = Cardinality(T) + (IF a = x THEN 1 ELSE 0)
  <2> HIDE DEF T, U
  <2>1. CASE a = x
    BY <2>1, <1>2, <1>4
  <2>2. CASE a # x
    BY <2>2, <1>2, <1>3
  <2> QED BY <2>1, <2>2
<1> QED BY <1>5 DEF Count

-----------------------------------------------------------------------------
(* What the frames hold                                                     *)

\* The kinds of the frames, and what each kind has.
LEMMA FrameFields ==
    ASSUME NEW f \in Frames
    PROVE  /\ f.at \in {"emit", "marshal", "handler", "release", "unset", "unref", "list",
                        "loop", "finalize"}
           /\ f.at = "emit" => /\ f \in [at : {"emit"}, this : Zvals \cup {Null},
                                         values : Seq(GObjs), todo : SUBSET Closures,
                                         ret : BOOLEAN]
                               /\ f.this \in Zvals \cup {Null} /\ f.values \in Seq(GObjs)
                               /\ f.todo \subseteq Closures /\ f.ret \in BOOLEAN
           /\ f.at = "marshal" => /\ f \in [at : {"marshal"}, closure : Closures,
                                            values : Seq(GObjs), args : Seq(Zvals)]
                                  /\ f.closure \in Closures /\ f.values \in Seq(GObjs)
                                  /\ f.args \in Seq(Zvals)
           /\ f.at \in {"handler", "release"} =>
                 /\ f \in [at : {"handler", "release"}, closure : Closures \cup {Null},
                           args : Seq(Zvals)]
                 /\ f.closure \in Closures \cup {Null} /\ f.args \in Seq(Zvals)
           /\ f.at = "unset" => /\ f \in [at : {"unset"}, this : Zvals \cup {Null},
                                          values : Seq(GObjs)]
                                /\ f.this \in Zvals \cup {Null} /\ f.values \in Seq(GObjs)
           /\ f.at \in {"unref", "list", "loop"} => f.zobject \in Wrappers
           /\ f.at = "loop" => f.tmp \in Closures \cup {Null}
           /\ f.at = "finalize" => f.gobject \in GObjs
<1>1. CASE f \in [at : {"emit"}, this : Zvals \cup {Null}, values : Seq(GObjs),
                  todo : SUBSET Closures, ret : BOOLEAN]
  BY <1>1
<1>2. CASE f \in [at : {"marshal"}, closure : Closures, values : Seq(GObjs), args : Seq(Zvals)]
  BY <1>2
<1>3. CASE f \in [at : {"handler", "release"}, closure : Closures \cup {Null},
                  args : Seq(Zvals)]
  BY <1>3
<1>4. CASE f \in [at : {"unset"}, this : Zvals \cup {Null}, values : Seq(GObjs)]
  BY <1>4
<1>5. CASE f \in [at : {"unref", "list"}, zobject : Wrappers]
  BY <1>5
<1>6. CASE f \in [at : {"loop"}, zobject : Wrappers, tmp : Closures \cup {Null}]
  BY <1>6
<1>7. CASE f \in [at : {"finalize"}, gobject : GObjs]
  BY <1>7
<1> QED BY <1>1, <1>2, <1>3, <1>4, <1>5, <1>6, <1>7 DEF Frames

\* HeldByFrames, ValuesOf and Owners for any sequence of frames.
At(ss, places) == {i \in DOMAIN ss : Is(ss[i], places)}

HeldIn(ss, z) ==
    Cardinality({i \in At(ss, {"emit", "unset"}) : ss[i].this = z})
      + Cardinality(UNION {{<<i, j>> : j \in {k \in DOMAIN ss[i].args : ss[i].args[k] = z}} :
                            i \in At(ss, {"marshal", "handler", "release"})})

ValuesIn(ss, g) ==
    Cardinality(UNION {{<<i, j>> : j \in {k \in DOMAIN ss[i].values : ss[i].values[k] = g}} :
                        i \in At(ss, {"emit", "unset"})})
      + Cardinality({i \in At(ss, {"emit"}) : ss[i].ret /\ Head(ss[i].values) = g})

\* They are what the model counts in the stack.
LEMMA FramesOfStack ==
    /\ \A z : HeldByFrames(z) = HeldIn(stack, z)
    /\ \A g : ValuesOf(g) = ValuesIn(stack, g)
BY DEF HeldByFrames, HeldIn, ValuesOf, ValuesIn, FrameAt, At

\* What one frame holds.
ThisOf(f, z) == IF Is(f, {"emit", "unset"}) /\ f.this = z THEN 1 ELSE 0
ArgsOf(f, z) == IF Is(f, {"marshal", "handler", "release"}) THEN Count(z, f.args) ELSE 0
GivenOf(f, g) == IF Is(f, {"emit", "unset"}) THEN Count(g, f.values) ELSE 0
RetOf(f, g) == IF Is(f, {"emit"}) /\ f.ret /\ Head(f.values) = g THEN 1 ELSE 0

\* What one frame holds is finite.
LEMMA FrameHolds ==
    ASSUME NEW f \in Frames, NEW x
    PROVE  /\ ThisOf(f, x) \in Nat /\ ArgsOf(f, x) \in Nat
           /\ GivenOf(f, x) \in Nat /\ RetOf(f, x) \in Nat
<1>1. Is(f, {"marshal", "handler", "release"}) => f.args \in Seq(Zvals)
  BY FrameFields DEF Is
<1>2. Is(f, {"emit", "unset"}) => f.values \in Seq(GObjs)
  BY FrameFields DEF Is
<1> QED BY <1>1, <1>2, CountFacts DEF ThisOf, ArgsOf, GivenOf, RetOf

\* The pairs of a place and a place in what is there.
LEMMA PairsFacts ==
    ASSUME NEW n \in Nat, NEW I \in SUBSET (1 .. n), NEW F \in [I -> SUBSET Nat],
           \A i \in I : IsFiniteSet(F[i]),
           NEW P, \A p : p \in P <=> \E i \in I : \E j \in F[i] : p = <<i, j>>
    PROVE  /\ IsFiniteSet(P)
           /\ \A p \in P : \E i \in 1 .. n, k \in Nat : p = <<i, k>>
           /\ \A i \in 1 .. n, k \in Nat : <<i, k>> \in P <=> i \in I /\ k \in F[i]
<1> DEFINE G(i) == {<<i, j>> : j \in F[i]}
           Gs == {G(i) : i \in I}
<1>1. IsFiniteSet(I)
  <2>1. 1 \in Int /\ n \in Int
    OBVIOUS
  <2> QED BY <2>1, FS_Interval, FS_Subset
<1>2. ASSUME NEW i \in I PROVE IsFiniteSet(G(i))
  <2> DEFINE h == [j \in F[i] |-> <<i, j>>]
  <2>1. h \in Surjection(F[i], G(i))
    <3>1. h \in [F[i] -> G(i)]
      OBVIOUS
    <3>2. \A p \in G(i) : \E j \in F[i] : h[j] = p
      OBVIOUS
    <3> QED BY <3>1, <3>2 DEF Surjection
  <2> QED BY <2>1, <1>2, FS_Surjection
<1>3. IsFiniteSet(Gs)
  <2> DEFINE h == [i \in I |-> G(i)]
  <2>1. h \in Surjection(I, Gs)
    <3>1. h \in [I -> Gs]
      OBVIOUS
    <3>2. \A p \in Gs : \E i \in I : h[i] = p
      OBVIOUS
    <3> QED BY <3>1, <3>2 DEF Surjection
  <2> QED BY <2>1, <1>1, FS_Surjection
<1>4. IsFiniteSet(P)
  <2>1. \A T \in Gs : IsFiniteSet(T)
    BY <1>2
  <2>2. P = UNION Gs
    OBVIOUS
  <2> HIDE DEF Gs
  <2> QED BY <2>1, <2>2, <1>3, FS_UNION
<1>5. \A p \in P : \E i \in 1 .. n, k \in Nat : p = <<i, k>>
  OBVIOUS
<1>6. \A i \in 1 .. n, k \in Nat : <<i, k>> \in P <=> i \in I /\ k \in F[i]
  OBVIOUS
<1> QED BY <1>4, <1>5, <1>6

\* The containers in the frames are pairs of places, ...
ArgPairs(ss, z) ==
    UNION {{<<i, j>> : j \in {k \in DOMAIN ss[i].args : ss[i].args[k] = z}} :
           i \in At(ss, {"marshal", "handler", "release"})}

\* finitely many.
LEMMA ArgPairsFacts ==
    ASSUME NEW ss \in Seq(Frames), NEW z
    PROVE  /\ IsFiniteSet(ArgPairs(ss, z))
           /\ \A p \in ArgPairs(ss, z) : \E i \in 1 .. Len(ss), k \in Nat : p = <<i, k>>
           /\ \A i \in 1 .. Len(ss), k \in Nat :
                <<i, k>> \in ArgPairs(ss, z) <=>
                    /\ Is(ss[i], {"marshal", "handler", "release"})
                    /\ k \in {j \in DOMAIN ss[i].args : ss[i].args[j] = z}
<1> DEFINE n == Len(ss)
           I == At(ss, {"marshal", "handler", "release"})
           F == [i \in I |-> {j \in DOMAIN ss[i].args : ss[i].args[j] = z}]
<1>1. n \in Nat /\ DOMAIN ss = 1 .. n /\ I \in SUBSET (1 .. n)
  BY DEF At
<1>2. ASSUME NEW i \in I PROVE F[i] \in SUBSET Nat /\ IsFiniteSet(F[i])
  <2>1. ss[i] \in Frames /\ Is(ss[i], {"marshal", "handler", "release"})
    BY <1>1 DEF At
  <2>2. ss[i].args \in Seq(Zvals)
    BY <2>1, FrameFields DEF Is
  <2>3. {j \in DOMAIN ss[i].args : ss[i].args[j] = z} \in SUBSET (DOMAIN ss[i].args)
    OBVIOUS
  <2>4. IsFiniteSet({j \in DOMAIN ss[i].args : ss[i].args[j] = z})
    BY <2>2, <2>3, FinitePlaces
  <2>5. DOMAIN ss[i].args \in SUBSET Nat
    BY <2>2
  <2> QED BY <2>3, <2>4, <2>5
<1>3. F \in [I -> SUBSET Nat] /\ \A i \in I : IsFiniteSet(F[i])
  BY <1>2
<1> DEFINE P == ArgPairs(ss, z)
<1>4. \A p : p \in P <=> \E i \in I : \E j \in F[i] : p = <<i, j>>
  BY DEF ArgPairs
<1>5. /\ IsFiniteSet(P)
      /\ \A p \in P : \E i \in 1 .. n, k \in Nat : p = <<i, k>>
      /\ \A i \in 1 .. n, k \in Nat : <<i, k>> \in P <=> i \in I /\ k \in F[i]
  <2>1. n \in Nat /\ I \in SUBSET (1 .. n)
    BY <1>1
  <2> HIDE DEF F, I, n, P
  <2> QED BY <2>1, <1>3, <1>4, PairsFacts
<1>6. \A i \in 1 .. n : i \in I <=> Is(ss[i], {"marshal", "handler", "release"})
  BY <1>1 DEF At
<1> QED BY <1>1, <1>5, <1>6

ValuePairs(ss, g) ==
    UNION {{<<i, j>> : j \in {k \in DOMAIN ss[i].values : ss[i].values[k] = g}} :
           i \in At(ss, {"emit", "unset"})}

\* So are the GObjects in the GValues.
LEMMA ValuePairsFacts ==
    ASSUME NEW ss \in Seq(Frames), NEW g
    PROVE  /\ IsFiniteSet(ValuePairs(ss, g))
           /\ \A p \in ValuePairs(ss, g) : \E i \in 1 .. Len(ss), k \in Nat : p = <<i, k>>
           /\ \A i \in 1 .. Len(ss), k \in Nat :
                <<i, k>> \in ValuePairs(ss, g) <=>
                    /\ Is(ss[i], {"emit", "unset"})
                    /\ k \in {j \in DOMAIN ss[i].values : ss[i].values[j] = g}
<1> DEFINE n == Len(ss)
           I == At(ss, {"emit", "unset"})
           F == [i \in I |-> {j \in DOMAIN ss[i].values : ss[i].values[j] = g}]
<1>1. n \in Nat /\ DOMAIN ss = 1 .. n /\ I \in SUBSET (1 .. n)
  BY DEF At
<1>2. ASSUME NEW i \in I PROVE F[i] \in SUBSET Nat /\ IsFiniteSet(F[i])
  <2>1. ss[i] \in Frames /\ Is(ss[i], {"emit", "unset"})
    BY <1>1 DEF At
  <2>2. ss[i].values \in Seq(GObjs)
    BY <2>1, FrameFields DEF Is
  <2>3. {j \in DOMAIN ss[i].values : ss[i].values[j] = g} \in SUBSET (DOMAIN ss[i].values)
    OBVIOUS
  <2>4. IsFiniteSet({j \in DOMAIN ss[i].values : ss[i].values[j] = g})
    BY <2>2, <2>3, FinitePlaces
  <2>5. DOMAIN ss[i].values \in SUBSET Nat
    BY <2>2
  <2> QED BY <2>3, <2>4, <2>5
<1>3. F \in [I -> SUBSET Nat] /\ \A i \in I : IsFiniteSet(F[i])
  BY <1>2
<1> DEFINE P == ValuePairs(ss, g)
<1>4. \A p : p \in P <=> \E i \in I : \E j \in F[i] : p = <<i, j>>
  BY DEF ValuePairs
<1>5. /\ IsFiniteSet(P)
      /\ \A p \in P : \E i \in 1 .. n, k \in Nat : p = <<i, k>>
      /\ \A i \in 1 .. n, k \in Nat : <<i, k>> \in P <=> i \in I /\ k \in F[i]
  <2>1. n \in Nat /\ I \in SUBSET (1 .. n)
    BY <1>1
  <2> HIDE DEF F, I, n, P
  <2> QED BY <2>1, <1>3, <1>4, PairsFacts
<1>6. \A i \in 1 .. n : i \in I <=> Is(ss[i], {"emit", "unset"})
  BY <1>1 DEF At
<1> QED BY <1>1, <1>5, <1>6

\* ... so one more frame in front adds what it holds.
LEMMA HeldPush ==
    ASSUME NEW s \in Seq(Frames), NEW a \in Frames, NEW z
    PROVE  /\ HeldIn(s, z) \in Nat /\ HeldIn(<<a>> \o s, z) \in Nat
           /\ HeldIn(<<a>> \o s, z) = HeldIn(s, z) + ThisOf(a, z) + ArgsOf(a, z)
<1> DEFINE t == <<a>> \o s
           n == Len(s)
           This(ss) == {i \in At(ss, {"emit", "unset"}) : ss[i].this = z}
           Q == IF Is(a, {"marshal", "handler", "release"})
                  THEN {k \in DOMAIN a.args : a.args[k] = z} ELSE {}
<1>1. /\ t \in Seq(Frames) /\ Len(t) = n + 1
      /\ n \in Nat /\ DOMAIN s = 1 .. n /\ DOMAIN t = 1 .. n + 1
      /\ t[1] = a /\ \A i \in 1 .. n : t[i + 1] = s[i]
  BY PushFacts
<1> HIDE DEF t, n
<1>2. /\ Cardinality(This(s)) \in Nat
      /\ Cardinality(This(t)) = Cardinality(This(s)) + ThisOf(a, z)
  <2> DEFINE T == This(s)
             U == This(t)
  <2>1. T \in SUBSET (1 .. n) /\ U \in SUBSET (1 .. n + 1)
    BY <1>1 DEF At
  <2>2. \A i \in 1 .. n : i + 1 \in U <=> i \in T
    BY <1>1 DEF At
  <2>3. 1 \in U <=> Is(a, {"emit", "unset"}) /\ a.this = z
    BY <1>1 DEF At
  <2>4. n \in Nat
    BY <1>1
  <2> HIDE DEF T, U
  <2>5. Cardinality(T) \in Nat /\ Cardinality(U) = Cardinality(T) + (IF 1 \in U THEN 1 ELSE 0)
    BY <2>1, <2>2, <2>4, PlacesShift
  <2> QED BY <2>3, <2>5 DEF ThisOf, T, U
<1>3. /\ Cardinality(ArgPairs(s, z)) \in Nat
      /\ Cardinality(ArgPairs(t, z)) = Cardinality(ArgPairs(s, z)) + Cardinality(Q)
      /\ Cardinality(Q) \in Nat
  <2> DEFINE T == ArgPairs(s, z)
             U == ArgPairs(t, z)
  <2>1. IsFiniteSet(T) /\ \A p \in T : \E i \in 1 .. n, k \in Nat : p = <<i, k>>
    BY ArgPairsFacts DEF n
  <2>2. IsFiniteSet(U) /\ \A p \in U : \E i \in 1 .. n + 1, k \in Nat : p = <<i, k>>
    <3>1. \A p \in U : \E i \in 1 .. Len(t), k \in Nat : p = <<i, k>>
      BY <1>1, ArgPairsFacts
    <3>2. IsFiniteSet(U)
      BY <1>1, ArgPairsFacts
    <3> HIDE DEF U
    <3> QED BY <3>1, <3>2, <1>1
  <2>3. IsFiniteSet(Q) /\ \A k \in Q : k \in Nat
    <3>1. Is(a, {"marshal", "handler", "release"}) => a.args \in Seq(Zvals)
      BY FrameFields DEF Is
    <3>2. CASE Is(a, {"marshal", "handler", "release"})
      <4>1. Q \in SUBSET (DOMAIN a.args) /\ DOMAIN a.args \in SUBSET Nat
        BY <3>1, <3>2
      <4> QED BY <3>1, <3>2, <4>1, FinitePlaces
    <3>3. CASE ~Is(a, {"marshal", "handler", "release"})
      BY <3>3, FS_EmptySet
    <3> QED BY <3>2, <3>3
  <2> DEFINE There(f, k) == /\ Is(f, {"marshal", "handler", "release"})
                            /\ k \in {j \in DOMAIN f.args : f.args[j] = z}
  <2>4. \A i \in 1 .. n, k \in Nat : <<i, k>> \in T <=> There(s[i], k)
    BY ArgPairsFacts DEF n
  <2>5. \A i \in 1 .. n + 1, k \in Nat : <<i, k>> \in U <=> There(t[i], k)
    <3>1. \A i \in 1 .. Len(t), k \in Nat : <<i, k>> \in U <=> There(t[i], k)
      BY <1>1, ArgPairsFacts
    <3> HIDE DEF U, There
    <3> QED BY <3>1, <1>1
  <2>6. \A k : k \in Q <=> There(a, k)
    OBVIOUS
  <2> HIDE DEF T, U, Q, There
  <2>7. \A k \in Nat : <<1, k>> \in U <=> k \in Q
    BY <1>1, <2>5, <2>6
  <2>8. \A i \in 1 .. n, k \in Nat : <<i + 1, k>> \in U <=> <<i, k>> \in T
    <3> TAKE i \in 1 .. n, k \in Nat
    <3>1. i + 1 \in 1 .. n + 1 /\ t[i + 1] = s[i]
      BY <1>1
    <3>2. <<i + 1, k>> \in U <=> There(t[i + 1], k)
      BY <3>1, <2>5
    <3> QED BY <3>1, <3>2, <2>4
  <2>9. n \in Nat
    BY <1>1
  <2>10. /\ Cardinality(T) \in Nat /\ Cardinality(Q) \in Nat
         /\ Cardinality(U) = Cardinality(T) + Cardinality(Q)
    <3>1. Shifted(n, T, U, Q)
      BY <2>1, <2>2, <2>3, <2>7, <2>8 DEF Shifted
    <3> QED BY <3>1, <2>9, PairsShift
  <2> QED BY <2>10 DEF T, U
<1>4. Cardinality(Q) = ArgsOf(a, z)
  BY FS_EmptySet DEF ArgsOf, Count
<1>5. /\ HeldIn(s, z) = Cardinality(This(s)) + Cardinality(ArgPairs(s, z))
      /\ HeldIn(t, z) = Cardinality(This(t)) + Cardinality(ArgPairs(t, z))
  BY DEF HeldIn, ArgPairs
<1>6. ThisOf(a, z) \in Nat
  BY FrameHolds
<1> HIDE DEF This, Q
<1> QED BY <1>2, <1>3, <1>4, <1>5, <1>6 DEF t

\* The same for the values of the frames.
LEMMA ValuesPush ==
    ASSUME NEW s \in Seq(Frames), NEW a \in Frames, NEW g
    PROVE  /\ ValuesIn(s, g) \in Nat /\ ValuesIn(<<a>> \o s, g) \in Nat
           /\ ValuesIn(<<a>> \o s, g) = ValuesIn(s, g) + GivenOf(a, g) + RetOf(a, g)
<1> DEFINE t == <<a>> \o s
           n == Len(s)
           Ret(ss) == {i \in At(ss, {"emit"}) : ss[i].ret /\ Head(ss[i].values) = g}
           Q == IF Is(a, {"emit", "unset"})
                  THEN {k \in DOMAIN a.values : a.values[k] = g} ELSE {}
<1>1. /\ t \in Seq(Frames) /\ Len(t) = n + 1
      /\ n \in Nat /\ DOMAIN s = 1 .. n /\ DOMAIN t = 1 .. n + 1
      /\ t[1] = a /\ \A i \in 1 .. n : t[i + 1] = s[i]
  BY PushFacts
<1> HIDE DEF t, n
<1>2. /\ Cardinality(Ret(s)) \in Nat
      /\ Cardinality(Ret(t)) = Cardinality(Ret(s)) + RetOf(a, g)
  <2> DEFINE T == Ret(s)
             U == Ret(t)
  <2>1. T \in SUBSET (1 .. n) /\ U \in SUBSET (1 .. n + 1)
    BY <1>1 DEF At
  <2>2. \A i \in 1 .. n : i + 1 \in U <=> i \in T
    BY <1>1 DEF At
  <2>3. 1 \in U <=> Is(a, {"emit"}) /\ a.ret /\ Head(a.values) = g
    BY <1>1 DEF At
  <2>4. n \in Nat
    BY <1>1
  <2> HIDE DEF T, U
  <2>5. Cardinality(T) \in Nat /\ Cardinality(U) = Cardinality(T) + (IF 1 \in U THEN 1 ELSE 0)
    BY <2>1, <2>2, <2>4, PlacesShift
  <2> QED BY <2>3, <2>5 DEF RetOf, T, U
<1>3. /\ Cardinality(ValuePairs(s, g)) \in Nat
      /\ Cardinality(ValuePairs(t, g)) = Cardinality(ValuePairs(s, g)) + Cardinality(Q)
      /\ Cardinality(Q) \in Nat
  <2> DEFINE T == ValuePairs(s, g)
             U == ValuePairs(t, g)
  <2>1. IsFiniteSet(T) /\ \A p \in T : \E i \in 1 .. n, k \in Nat : p = <<i, k>>
    BY ValuePairsFacts DEF n
  <2>2. IsFiniteSet(U) /\ \A p \in U : \E i \in 1 .. n + 1, k \in Nat : p = <<i, k>>
    <3>1. \A p \in U : \E i \in 1 .. Len(t), k \in Nat : p = <<i, k>>
      BY <1>1, ValuePairsFacts
    <3>2. IsFiniteSet(U)
      BY <1>1, ValuePairsFacts
    <3> HIDE DEF U
    <3> QED BY <3>1, <3>2, <1>1
  <2>3. IsFiniteSet(Q) /\ \A k \in Q : k \in Nat
    <3>1. Is(a, {"emit", "unset"}) => a.values \in Seq(GObjs)
      BY FrameFields DEF Is
    <3>2. CASE Is(a, {"emit", "unset"})
      <4>1. Q \in SUBSET (DOMAIN a.values) /\ DOMAIN a.values \in SUBSET Nat
        BY <3>1, <3>2
      <4> QED BY <3>1, <3>2, <4>1, FinitePlaces
    <3>3. CASE ~Is(a, {"emit", "unset"})
      BY <3>3, FS_EmptySet
    <3> QED BY <3>2, <3>3
  <2> DEFINE There(f, k) == /\ Is(f, {"emit", "unset"})
                            /\ k \in {j \in DOMAIN f.values : f.values[j] = g}
  <2>4. \A i \in 1 .. n, k \in Nat : <<i, k>> \in T <=> There(s[i], k)
    BY ValuePairsFacts DEF n
  <2>5. \A i \in 1 .. n + 1, k \in Nat : <<i, k>> \in U <=> There(t[i], k)
    <3>1. \A i \in 1 .. Len(t), k \in Nat : <<i, k>> \in U <=> There(t[i], k)
      BY <1>1, ValuePairsFacts
    <3> HIDE DEF U, There
    <3> QED BY <3>1, <1>1
  <2>6. \A k : k \in Q <=> There(a, k)
    OBVIOUS
  <2> HIDE DEF T, U, Q, There
  <2>7. \A k \in Nat : <<1, k>> \in U <=> k \in Q
    BY <1>1, <2>5, <2>6
  <2>8. \A i \in 1 .. n, k \in Nat : <<i + 1, k>> \in U <=> <<i, k>> \in T
    <3> TAKE i \in 1 .. n, k \in Nat
    <3>1. i + 1 \in 1 .. n + 1 /\ t[i + 1] = s[i]
      BY <1>1
    <3>2. <<i + 1, k>> \in U <=> There(t[i + 1], k)
      BY <3>1, <2>5
    <3> QED BY <3>1, <3>2, <2>4
  <2>9. n \in Nat
    BY <1>1
  <2>10. /\ Cardinality(T) \in Nat /\ Cardinality(Q) \in Nat
         /\ Cardinality(U) = Cardinality(T) + Cardinality(Q)
    <3>1. Shifted(n, T, U, Q)
      BY <2>1, <2>2, <2>3, <2>7, <2>8 DEF Shifted
    <3> QED BY <3>1, <2>9, PairsShift
  <2> QED BY <2>10 DEF T, U
<1>4. Cardinality(Q) = GivenOf(a, g)
  BY FS_EmptySet DEF GivenOf, Count
<1>5. /\ ValuesIn(s, g) = Cardinality(Ret(s)) + Cardinality(ValuePairs(s, g))
      /\ ValuesIn(t, g) = Cardinality(Ret(t)) + Cardinality(ValuePairs(t, g))
  <2>1. /\ Cardinality(ValuePairs(s, g)) \in Nat /\ Cardinality(Ret(s)) \in Nat
        /\ Cardinality(ValuePairs(t, g)) \in Nat /\ Cardinality(Ret(t)) \in Nat
    <3>1. RetOf(a, g) \in Nat
      BY FrameHolds
    <3> HIDE DEF Ret, Q
    <3> QED BY <3>1, <1>2, <1>3
  <2>2. /\ ValuesIn(s, g) = Cardinality(ValuePairs(s, g)) + Cardinality(Ret(s))
        /\ ValuesIn(t, g) = Cardinality(ValuePairs(t, g)) + Cardinality(Ret(t))
    BY DEF ValuesIn, ValuePairs
  <2> HIDE DEF Ret
  <2> QED BY <2>1, <2>2
<1>6. RetOf(a, g) \in Nat
  BY FrameHolds
<1> HIDE DEF Ret, Q
<1> QED BY <1>2, <1>3, <1>4, <1>5, <1>6 DEF t

\* Without frames nothing is held.
LEMMA HeldEmpty == \A x : HeldIn(<<>>, x) = 0 /\ ValuesIn(<<>>, x) = 0
<1> TAKE x
<1>1. \A places : At(<<>>, places) = {}
  BY DEF At
<1>2. Cardinality({}) = 0
  BY FS_EmptySet
<1>3. HeldIn(<<>>, x) = Cardinality({}) + Cardinality(UNION {})
  BY <1>1 DEF HeldIn
<1>4. ValuesIn(<<>>, x) = Cardinality(UNION {}) + Cardinality({})
  BY <1>1 DEF ValuesIn
<1>5. UNION {} = {}
  OBVIOUS
<1> QED BY <1>2, <1>3, <1>4, <1>5

-----------------------------------------------------------------------------
(* The lists of closures                                                    *)

Injective(s) == \A i, j \in DOMAIN s : s[i] = s[j] => i = j

\* A list with nothing twice has as many elements as it is long.
LEMMA InjectiveLength ==
    ASSUME NEW S, NEW s \in Seq(S), Injective(s)
    PROVE  Cardinality(Elements(s)) = Len(s)
<1>1. Len(s) \in Nat /\ DOMAIN s = 1 .. Len(s)
  OBVIOUS
<1>2. IsFiniteSet(1 .. Len(s)) /\ Cardinality(1 .. Len(s)) = Len(s)
  <2>1. 1 \in Int /\ Len(s) \in Int
    BY <1>1
  <2> QED BY <2>1, <1>1, FS_Interval
<1>3. s \in Bijection(1 .. Len(s), Elements(s))
  <2>1. s \in [1 .. Len(s) -> Elements(s)]
    BY <1>1 DEF Elements
  <2>2. \A x \in Elements(s) : \E i \in 1 .. Len(s) : s[i] = x
    BY <1>1 DEF Elements
  <2> QED BY <1>1, <2>1, <2>2 DEF Injective, Bijection, Injection, Surjection, IsInjective
<1> QED BY <1>2, <1>3, FS_Bijection DEF ExistsBijection

\* One more closure in front.
LEMMA InjectivePush ==
    ASSUME NEW S, NEW s \in Seq(S), NEW a \in S, Injective(s), a \notin Elements(s)
    PROVE  Injective(<<a>> \o s)
<1> DEFINE t == <<a>> \o s
<1>1. /\ Len(s) \in Nat /\ DOMAIN s = 1 .. Len(s) /\ DOMAIN t = 1 .. Len(s) + 1
      /\ t[1] = a /\ \A i \in 1 .. Len(s) : t[i + 1] = s[i]
  BY PushFacts
<1> HIDE DEF t
<1> SUFFICES ASSUME NEW i \in DOMAIN t, NEW j \in DOMAIN t, t[i] = t[j] PROVE i = j
  BY DEF Injective, t
<1>2. \A k \in DOMAIN t : k # 1 => k - 1 \in 1 .. Len(s) /\ t[k] = s[k - 1]
  <2> TAKE k \in DOMAIN t
  <2> HAVE k # 1
  <2>1. k - 1 \in 1 .. Len(s) /\ (k - 1) + 1 = k
    BY <1>1
  <2> QED BY <2>1, <1>1
<1>3. \A k \in 1 .. Len(s) : s[k] # a
  BY <1>1 DEF Elements
<1>4. CASE i = 1 \/ j = 1
  BY <1>1, <1>2, <1>3, <1>4
<1>5. CASE i # 1 /\ j # 1
  <2>1. i - 1 = j - 1
    BY <1>1, <1>2, <1>5 DEF Injective
  <2> QED BY <2>1, <1>1
<1> QED BY <1>4, <1>5

\* g_slist_remove of a closure that is listed.
LEMMA WithoutFacts ==
    ASSUME NEW list \in Seq(Closures), Injective(list), NEW c \in Elements(list)
    PROVE  LET r == Without(list, c)
           IN  /\ r \in Seq(Closures) /\ Injective(r)
               /\ Elements(r) = Elements(list) \ {c}
               /\ list # <<>>
               /\ Head(list) # c => r # <<>> /\ Head(r) = Head(list)
               /\ Head(list) = c =>
                    /\ Position(list, c) = 1
                    /\ Len(list) > 1 => r # <<>> /\ Head(r) = list[2]
                    /\ ~(Len(list) > 1) => r = <<>>
<1> DEFINE k == Position(list, c)
           r == Without(list, c)
           n == Len(list)
<1>1. n \in Nat /\ DOMAIN list = 1 .. n
  OBVIOUS
<1>2. k \in 1 .. n /\ list[k] = c
  <2>1. PICK i \in 1 .. n : list[i] = c
    BY <1>1 DEF Elements
  <2>2. \A j \in 1 .. i - 1 : list[j] # c
    BY <2>1, <1>1 DEF Injective
  <2>3. \E x \in DOMAIN list : list[x] = c /\ \A j \in 1 .. x - 1 : list[j] # c
    BY <2>1, <2>2, <1>1
  <2> QED BY <2>3, <1>1 DEF Position
<1>3. r = SubSeq(list, 1, k - 1) \o SubSeq(list, k + 1, n)
  BY DEF Without
<1> HIDE DEF k
<1>4. /\ r \in Seq(Closures) /\ Len(r) = n - 1
      /\ \A m \in 1 .. n - 1 : r[m] = IF m < k THEN list[m] ELSE list[m + 1]
  <2> DEFINE a == SubSeq(list, 1, k - 1)
             b == SubSeq(list, k + 1, n)
  <2>1. a \in Seq(Closures) /\ Len(a) = k - 1 /\ \A m \in 1 .. k - 1 : a[m] = list[m]
    BY <1>1, <1>2
  <2>2. b \in Seq(Closures) /\ Len(b) = n - k /\ \A m \in 1 .. n - k : b[m] = list[m + k]
    <3>1. k + 1 \in Int /\ n \in Int /\ \A i \in k + 1 .. n : i \in 1 .. n
      BY <1>1, <1>2
    <3>2. \A i \in k + 1 .. n : list[i] \in Closures
      BY <3>1, <1>1
    <3>3. /\ b \in Seq(Closures)
          /\ Len(b) = IF k + 1 <= n THEN n - (k + 1) + 1 ELSE 0
          /\ \A i \in 1 .. n - (k + 1) + 1 : b[i] = list[(k + 1) + i - 1]
      BY <3>1, <3>2, SubSeqProperties
    <3>4. Len(b) = n - k /\ n - (k + 1) + 1 = n - k
      <4>1. n \in Int /\ k \in Int /\ k <= n
        BY <1>1, <1>2
      <4>2. Len(b) = IF k + 1 <= n THEN n - (k + 1) + 1 ELSE 0
        BY <3>3
      <4> HIDE DEF b, n
      <4> QED BY <4>1, <4>2
    <3>5. \A m \in 1 .. n - k : (k + 1) + m - 1 = m + k
      BY <1>1, <1>2
    <3> HIDE DEF b
    <3> QED BY <3>3, <3>4, <3>5
  <2> HIDE DEF a, b
  <2>3. /\ a \o b \in Seq(Closures) /\ Len(a \o b) = Len(a) + Len(b)
        /\ \A m \in 1 .. Len(a) + Len(b) :
              (a \o b)[m] = IF m <= Len(a) THEN a[m] ELSE b[m - Len(a)]
    BY <2>1, <2>2
  <2>4. ASSUME NEW m \in 1 .. n - 1
        PROVE  (a \o b)[m] = IF m < k THEN list[m] ELSE list[m + 1]
    <3>1. CASE m < k
      BY <3>1, <2>1, <2>2, <2>3, <1>1, <1>2
    <3>2. CASE ~(m < k)
      <4>1. m - (k - 1) \in 1 .. n - k /\ (m - (k - 1)) + k = m + 1
        BY <3>2, <1>1, <1>2
      <4>2. (a \o b)[m] = b[m - (k - 1)]
        BY <3>2, <2>1, <2>2, <2>3, <1>1, <1>2
      <4> QED BY <4>1, <4>2, <3>2, <2>2
    <3> QED BY <3>1, <3>2
  <2>5. r = a \o b
    BY <1>3 DEF a, b
  <2>6. Len(a) + Len(b) = n - 1
    BY <2>1, <2>2, <1>1, <1>2
  <2> HIDE DEF r, n
  <2> QED BY <2>3, <2>4, <2>5, <2>6
<1> HIDE DEF r
<1>5. DOMAIN r = 1 .. n - 1
  BY <1>4
<1>6. \A i, j \in 1 .. n : list[i] = list[j] => i = j
  BY <1>1 DEF Injective
<1> HIDE DEF n
<1>7. Injective(r)
  <2> SUFFICES ASSUME NEW i \in 1 .. n - 1, NEW j \in 1 .. n - 1, r[i] = r[j] PROVE i = j
    BY <1>5 DEF Injective
  <2>1. /\ i \in 1 .. n /\ i + 1 \in 1 .. n /\ j \in 1 .. n /\ j + 1 \in 1 .. n
    BY <1>1
  <2> QED BY <2>1, <1>1, <1>2, <1>4, <1>6
<1>8. Elements(r) = Elements(list) \ {c}
  <2>1. ASSUME NEW x \in Elements(r) PROVE x \in Elements(list) /\ x # c
    <3>1. PICK m \in 1 .. n - 1 : x = r[m]
      BY <1>5 DEF Elements
    <3>2. PICK i \in 1 .. n : x = list[i] /\ i # k
      BY <3>1, <1>1, <1>2, <1>4
    <3>3. x # c
      BY <3>2, <1>2, <1>6
    <3> QED BY <3>2, <3>3, <1>1 DEF Elements
  <2>2. ASSUME NEW x \in Elements(list), x # c PROVE x \in Elements(r)
    <3>1. PICK i \in 1 .. n : x = list[i]
      BY <1>1 DEF Elements
    <3>2. i # k
      BY <3>1, <2>2, <1>2
    <3>3. CASE i < k
      <4>1. i \in 1 .. n - 1 /\ r[i] = x
        BY <3>1, <3>3, <1>1, <1>2, <1>4
      <4> QED BY <4>1, <1>5 DEF Elements
    <3>4. CASE i > k
      <4>1. i - 1 \in 1 .. n - 1 /\ ~(i - 1 < k) /\ (i - 1) + 1 = i
        BY <3>1, <3>4, <1>1, <1>2
      <4>2. r[i - 1] = x
        BY <4>1, <3>1, <1>4
      <4> QED BY <4>1, <4>2, <1>5 DEF Elements
    <3> QED BY <3>2, <3>3, <3>4, <1>1, <1>2
  <2> QED BY <2>1, <2>2
<1>9. list # <<>> /\ Head(list) = list[1] /\ 1 \in 1 .. n
  BY <1>1, <1>2 DEF n
<1>10. ASSUME Head(list) # c PROVE r # <<>> /\ Head(r) = Head(list)
  <2>1. k # 1
    BY <1>10, <1>9, <1>2
  <2>2. 1 \in 1 .. n - 1 /\ 1 < k
    BY <2>1, <1>1, <1>2
  <2>3. r[1] = list[1]
    BY <2>2, <1>4
  <2>4. Len(r) # 0
    BY <2>2, <1>4
  <2>5. r # <<>> /\ Head(r) = r[1]
    BY <2>4, <1>4, HeadIsFirst
  <2> QED BY <2>3, <2>5, <1>9
<1>11. ASSUME Head(list) = c PROVE k = 1
  BY <1>11, <1>9, <1>2, <1>6
<1>12. ASSUME Head(list) = c, n > 1 PROVE r # <<>> /\ Head(r) = list[2]
  <2>1. 1 \in 1 .. n - 1 /\ ~(1 < k) /\ 1 + 1 = 2
    BY <1>11, <1>12, <1>1
  <2>2. r[1] = list[2]
    BY <2>1, <1>4
  <2>3. Len(r) # 0
    BY <2>1, <1>4, <1>1
  <2>4. r # <<>> /\ Head(r) = r[1]
    BY <2>3, <1>4, HeadIsFirst
  <2> QED BY <2>2, <2>4
<1>13. ASSUME Head(list) = c, ~(n > 1) PROVE r = <<>>
  <2>1. Len(r) = 0
    BY <1>13, <1>1, <1>2, <1>4
  <2> QED BY <2>1, <1>4
<1> QED BY <1>4, <1>7, <1>8, <1>9, <1>10, <1>11, <1>12, <1>13 DEF k, r, n

-----------------------------------------------------------------------------
(* What may lie on what                                                     *)

\* The frames of destructions, which may lie on any frame.
Destructs == {"unref", "list", "loop", "finalize"}
FreeStorage == {"unref", "list", "loop"}

FreeingIn(ss, w) == \E f \in Elements(ss) : Is(f, FreeStorage) /\ f.zobject = w

\* free_storage of w has given up the GObject.
GaveUp(ss, w) == \E f \in Elements(ss) : Is(f, {"list", "loop"}) /\ f.zobject = w

Owning(ss, g) ==
    {w \in Wrappers : wrapper[w] # Null /\ wrapper[w].gobject = g /\ ~GaveUp(ss, w)}

\* Two destructions of one thing.
Twice(a, b) ==
    \/ Is(a, FreeStorage) /\ Is(b, FreeStorage) /\ a.zobject = b.zobject
    \/ Is(a, {"finalize"}) /\ Is(b, {"finalize"}) /\ a.gobject = b.gobject

\* a may be called, however far, from b: callbacks run in emissions, a marshaller
\* calls nothing that is a frame, and no destruction begins again.
Under(a, b) ==
    /\ ~Is(b, {"marshal"})
    /\ Is(a, Destructs) \/ Is(b, {"emit", "handler"})
    /\ ~Twice(a, b)

Stacked(ss) == \A i, j \in DOMAIN ss : i < j => Under(ss[i], ss[j])

\* a marshaller converts values of the emission that called it.
Sits(a, b) ==
    /\ Is(b, {"emit"})
    /\ Is(a, {"marshal"}) => Elements(a.values) \subseteq Elements(b.values)

OnEmit(ss) ==
    \A i \in DOMAIN ss : Is(ss[i], {"marshal", "handler"}) =>
        i + 1 \in DOMAIN ss /\ Sits(ss[i], ss[i + 1])

\* What a frame works on is there.
Live(f) ==
    /\ Is(f, FreeStorage) => wrapper[f.zobject] # Null
    /\ Is(f, {"loop"}) =>
         LET list == wrapper[f.zobject].closures
         IN  /\ f.tmp = Null => list = <<>>
             /\ f.tmp \in Elements(list) => f.tmp = Head(list)
    /\ Is(f, {"finalize"}) => gobject[f.gobject] # Null /\ gobject[f.gobject].refs = 0
    /\ Is(f, {"marshal"}) => closure[f.closure] # Null
    /\ Is(f, {"emit"}) => f.values # <<>>

\* They are what the model says of the stack.
LEMMA FramesOfWrappers ==
    /\ \A w : Freeing(w) <=> FreeingIn(stack, w)
    /\ \A g : Owners(g) = Owning(stack, g)
<1>1. \A w : Freeing(w) <=> FreeingIn(stack, w)
  BY DEF Freeing, FreeingIn, FrameAt, FreeStorage, Elements
<1>2. \A w : GaveUp(stack, w) <=> \E i \in FrameAt({"list", "loop"}) : stack[i].zobject = w
  BY DEF GaveUp, FrameAt, Elements
<1>3. \A g : Owners(g) = Owning(stack, g)
  BY <1>2 DEF Owners, Owning
<1> QED BY <1>1, <1>3

\* One more frame lies on all the others, ...
LEMMA StackedPush ==
    ASSUME NEW s \in Seq(Frames), NEW a \in Frames
    PROVE  Stacked(<<a>> \o s) <=> Stacked(s) /\ \A b \in Elements(s) : Under(a, b)
<1> DEFINE t == <<a>> \o s
           n == Len(s)
<1>1. /\ n \in Nat /\ DOMAIN s = 1 .. n /\ DOMAIN t = 1 .. n + 1
      /\ t[1] = a /\ \A i \in 1 .. n : t[i + 1] = s[i]
  BY PushFacts
<1> HIDE DEF t, n
<1>2. ASSUME Stacked(t) PROVE Stacked(s) /\ \A b \in Elements(s) : Under(a, b)
  <2>1. ASSUME NEW i \in 1 .. n, NEW j \in 1 .. n, i < j PROVE Under(s[i], s[j])
    <3>1. i + 1 \in 1 .. n + 1 /\ j + 1 \in 1 .. n + 1 /\ i + 1 < j + 1
      BY <1>1, <2>1
    <3> QED BY <3>1, <1>1, <1>2 DEF Stacked
  <2>2. ASSUME NEW i \in 1 .. n PROVE Under(a, s[i])
    <3>1. i + 1 \in 1 .. n + 1 /\ 1 \in 1 .. n + 1 /\ 1 < i + 1
      BY <1>1
    <3> QED BY <3>1, <1>1, <1>2 DEF Stacked
  <2> QED BY <2>1, <2>2, <1>1 DEF Stacked, Elements
<1>3. ASSUME Stacked(s), \A b \in Elements(s) : Under(a, b) PROVE Stacked(t)
  <2> SUFFICES ASSUME NEW i \in 1 .. n + 1, NEW j \in 1 .. n + 1, i < j
               PROVE  Under(t[i], t[j])
    BY <1>1 DEF Stacked
  <2>1. j - 1 \in 1 .. n /\ (j - 1) + 1 = j /\ t[j] = s[j - 1]
    <3>1. j - 1 \in 1 .. n /\ (j - 1) + 1 = j
      BY <1>1
    <3> QED BY <3>1, <1>1
  <2>2. CASE i = 1
    BY <2>1, <2>2, <1>1, <1>3 DEF Elements
  <2>3. CASE i # 1
    <3>1. i - 1 \in 1 .. n /\ (i - 1) + 1 = i /\ i - 1 < j - 1
      BY <2>3, <1>1
    <3>2. t[i] = s[i - 1]
      BY <3>1, <1>1
    <3> QED BY <3>1, <3>2, <2>1, <1>1, <1>3 DEF Stacked
  <2> QED BY <2>2, <2>3
<1> QED BY <1>2, <1>3 DEF t

\* ... and sits on the one below it.
LEMMA OnEmitPush ==
    ASSUME NEW s \in Seq(Frames), NEW a \in Frames
    PROVE  OnEmit(<<a>> \o s) <=>
             /\ OnEmit(s)
             /\ Is(a, {"marshal", "handler"}) => s # <<>> /\ Sits(a, Head(s))
<1> DEFINE t == <<a>> \o s
           n == Len(s)
<1>1. /\ n \in Nat /\ DOMAIN s = 1 .. n /\ DOMAIN t = 1 .. n + 1
      /\ t[1] = a /\ \A i \in 1 .. n : t[i + 1] = s[i]
  BY PushFacts
<1>2. s # <<>> <=> 1 \in 1 .. n
  OBVIOUS
<1>3. s # <<>> => Head(s) = s[1]
  OBVIOUS
<1> HIDE DEF t, n
<1>4. ASSUME OnEmit(t)
      PROVE  OnEmit(s) /\ (Is(a, {"marshal", "handler"}) => s # <<>> /\ Sits(a, Head(s)))
  <2>1. ASSUME NEW i \in 1 .. n, Is(s[i], {"marshal", "handler"})
        PROVE  i + 1 \in 1 .. n /\ Sits(s[i], s[i + 1])
    <3>1. i + 1 \in 1 .. n + 1 /\ t[i + 1] = s[i]
      BY <1>1
    <3>2. (i + 1) + 1 \in 1 .. n + 1 /\ Sits(t[i + 1], t[(i + 1) + 1])
      BY <3>1, <2>1, <1>1, <1>4 DEF OnEmit
    <3>3. i + 1 \in 1 .. n
      BY <3>2, <1>1
    <3> QED BY <3>1, <3>2, <3>3, <1>1
  <2>2. ASSUME Is(a, {"marshal", "handler"}) PROVE s # <<>> /\ Sits(a, Head(s))
    <3>1. 1 \in 1 .. n + 1
      BY <1>1
    <3>2. 1 + 1 \in 1 .. n + 1 /\ Sits(t[1], t[1 + 1])
      BY <3>1, <2>2, <1>1, <1>4 DEF OnEmit
    <3>3. 1 \in 1 .. n
      BY <3>2, <1>1
    <3> QED BY <3>2, <3>3, <1>1, <1>2, <1>3
  <2> QED BY <2>1, <2>2, <1>1 DEF OnEmit
<1>5. ASSUME OnEmit(s), Is(a, {"marshal", "handler"}) => s # <<>> /\ Sits(a, Head(s))
      PROVE  OnEmit(t)
  <2> SUFFICES ASSUME NEW i \in 1 .. n + 1, Is(t[i], {"marshal", "handler"})
               PROVE  i + 1 \in 1 .. n + 1 /\ Sits(t[i], t[i + 1])
    BY <1>1 DEF OnEmit
  <2>1. CASE i = 1
    <3>1. 1 \in 1 .. n /\ Sits(a, s[1])
      BY <2>1, <1>1, <1>2, <1>3, <1>5
    <3>2. 1 + 1 \in 1 .. n + 1
      BY <3>1, <1>1
    <3> QED BY <3>1, <3>2, <2>1, <1>1
  <2>2. CASE i # 1
    <3>1. i - 1 \in 1 .. n /\ (i - 1) + 1 = i
      BY <2>2, <1>1
    <3>2. t[i] = s[i - 1]
      BY <3>1, <1>1
    <3>3. i \in 1 .. n /\ Sits(s[i - 1], s[i])
      BY <3>1, <3>2, <1>1, <1>5 DEF OnEmit
    <3>4. t[i + 1] = s[i] /\ i + 1 \in 1 .. n + 1
      BY <3>3, <1>1
    <3> QED BY <3>2, <3>3, <3>4
  <2> QED BY <2>1, <2>2
<1> QED BY <1>4, <1>5 DEF t

\* The empty stack.
LEMMA EmptyStack == <<>> \in Seq(Frames) /\ Stacked(<<>>) /\ OnEmit(<<>>)
BY DEF Stacked, OnEmit

-----------------------------------------------------------------------------
(* The invariant                                                            *)

Params(z) == {c \in Closures : closure[c] # Null /\ closure[c].param = z}

UsesIn(ss, z) == names[z] + HeldIn(ss, z) + Cardinality(Params(z))

\* A container is there as long as it counts, and counts what uses it; only what
\* exit() left behind counts without using it.
Counted ==
    \A z \in Zvals : /\ refcount[z] >= UsesIn(stack, z)
                     /\ phase = "active" => refcount[z] = UsesIn(stack, z)
                     /\ zval[z] = Null <=> refcount[z] = 0

\* Between requests there is nothing.
Idle ==
    phase = "idle" => /\ stack = <<>>
                      /\ \A z \in Zvals : refcount[z] = 0
                      /\ \A w \in Wrappers : wrapper[w] = Null

\* A container of the script refers to a wrapper that is not being freed.
Settled ==
    phase = "active" => \A z \in Zvals :
        zval[z] # Null => wrapper[zval[z]] # Null /\ ~FreeingIn(stack, zval[z])

References(obj, owners, values) ==
    owners + obj.lost + (IF obj.native THEN 1 ELSE 0) + values

Owned ==
    \A g \in GObjs :
        IF gobject[g] = Null
          THEN Owning(stack, g) = {} /\ ValuesIn(stack, g) = 0
          ELSE gobject[g].refs =
                 References(gobject[g], Cardinality(Owning(stack, g)), ValuesIn(stack, g))

Listed ==
    /\ \A c \in Closures : closure[c] # Null => wrapper[closure[c].zobject] # Null
    /\ \A w \in Wrappers : wrapper[w] # Null =>
        /\ Elements(wrapper[w].closures) =
             {c \in Closures : closure[c] # Null /\ closure[c].zobject = w}
        /\ Injective(wrapper[w].closures)

Framed ==
    /\ Stacked(stack) /\ OnEmit(stack)
    /\ \A f \in Elements(stack) : Live(f)

Inv ==
    /\ TypeOK /\ Counted /\ Idle /\ Settled /\ Owned /\ Listed /\ ClosuresWatched /\ Framed

\* What is counted is finite.
LEMMA CountsNat ==
    /\ \A ss \in Seq(Frames) : \A x : HeldIn(ss, x) \in Nat /\ ValuesIn(ss, x) \in Nat
    /\ \A x : IsFiniteSet(Params(x)) /\ Cardinality(Params(x)) \in Nat
    /\ \A ss, x : IsFiniteSet(Owning(ss, x)) /\ Cardinality(Owning(ss, x)) \in Nat
<1>1. ASSUME NEW ss \in Seq(Frames), NEW x PROVE HeldIn(ss, x) \in Nat /\ ValuesIn(ss, x) \in Nat
  <2>1. HandlerFrame(Null, <<>>) \in Frames
    BY DEF HandlerFrame, Frames
  <2> QED BY <2>1, HeldPush, ValuesPush
<1>2. ASSUME NEW x PROVE IsFiniteSet(Params(x)) /\ Cardinality(Params(x)) \in Nat
  <2>1. Params(x) \in SUBSET Closures
    BY DEF Params
  <2> QED BY <2>1, FS_Subset, FS_CardinalityType, ConstantsAssumption
<1>3. ASSUME NEW ss, NEW x PROVE IsFiniteSet(Owning(ss, x)) /\ Cardinality(Owning(ss, x)) \in Nat
  <2>1. Owning(ss, x) \in SUBSET Wrappers
    BY DEF Owning
  <2> QED BY <2>1, FS_Subset, FS_CardinalityType, ConstantsAssumption
<1> QED BY <1>1, <1>2, <1>3

\* The innermost call and those below it.
LEMMA TopOfStack ==
    ASSUME Inv, stack # <<>>
    PROVE  /\ stack \in Seq(Frames) /\ Top \in Frames /\ Below \in Seq(Frames)
           /\ stack = <<Top>> \o Below
           /\ Elements(stack) = {Top} \cup Elements(Below) /\ Elements(Below) \subseteq Frames
           /\ Stacked(Below) /\ \A b \in Elements(Below) : Under(Top, b)
           /\ OnEmit(Below)
           /\ Is(Top, {"marshal", "handler"}) => Below # <<>> /\ Sits(Top, Head(Below))
           /\ \A f \in Elements(stack) : Live(f)
           /\ \A x : HeldIn(stack, x) = HeldIn(Below, x) + ThisOf(Top, x) + ArgsOf(Top, x)
           /\ \A x : ValuesIn(stack, x) = ValuesIn(Below, x) + GivenOf(Top, x) + RetOf(Top, x)
<1>1. stack \in Seq(Frames)
  BY DEF Inv, TypeOK
<1>2. /\ Top \in Frames /\ Below \in Seq(Frames) /\ stack = <<Top>> \o Below
      /\ Elements(stack) = {Top} \cup Elements(Below) /\ Elements(Below) \subseteq Frames
  BY <1>1, TopFacts, ElementsFacts DEF Top, Below
<1>3. Stacked(<<Top>> \o Below) /\ OnEmit(<<Top>> \o Below)
  BY <1>2 DEF Inv, Framed
<1>4. /\ Stacked(Below) /\ \A b \in Elements(Below) : Under(Top, b)
      /\ OnEmit(Below)
      /\ Is(Top, {"marshal", "handler"}) => Below # <<>> /\ Sits(Top, Head(Below))
  BY <1>2, <1>3, StackedPush, OnEmitPush
<1>5. /\ \A x : HeldIn(<<Top>> \o Below, x) = HeldIn(Below, x) + ThisOf(Top, x) + ArgsOf(Top, x)
      /\ \A x : ValuesIn(<<Top>> \o Below, x)
                  = ValuesIn(Below, x) + GivenOf(Top, x) + RetOf(Top, x)
  BY <1>2, HeldPush, ValuesPush
<1>6. \A f \in Elements(stack) : Live(f)
  BY DEF Inv, Framed
<1> QED BY <1>1, <1>2, <1>4, <1>5, <1>6

\* Without a destruction at the top there is none.
Plain(ss) == \A f \in Elements(ss) : ~Is(f, Destructs)

\* Then no wrapper has given up its GObject.
LEMMA PlainFacts ==
    ASSUME NEW ss, Plain(ss)
    PROVE  /\ \A w : ~FreeingIn(ss, w) /\ ~GaveUp(ss, w)
           /\ \A g : Owning(ss, g) = {w \in Wrappers : wrapper[w] # Null /\ wrapper[w].gobject = g}
           /\ \A g : Owning(ss, g)' =
                {w \in Wrappers : wrapper'[w] # Null /\ wrapper'[w].gobject = g}
<1>1. \A w : ~FreeingIn(ss, w) /\ ~GaveUp(ss, w)
  BY DEF Plain, FreeingIn, GaveUp, Is, Destructs, FreeStorage
<1> QED BY <1>1 DEF Owning

\* A call that destroys nothing is called by emissions and callbacks.
LEMMA PlainStack ==
    ASSUME Inv, stack # <<>>, ~Is(Top, Destructs)
    PROVE  /\ Plain(stack) /\ Plain(Below)
           /\ \A b \in Elements(Below) : Is(b, {"emit", "handler"})
<1>1. \A b \in Elements(Below) : Is(b, {"emit", "handler"})
  BY TopOfStack DEF Under
<1>2. \A b \in Elements(Below) : ~Is(b, Destructs)
  BY <1>1 DEF Is, Destructs
<1> QED BY <1>1, <1>2, TopOfStack DEF Plain

\* The script runs in emissions and callbacks only.
LEMMA ScriptStack ==
    ASSUME Inv, ScriptRuns
    PROVE  /\ phase = "active" /\ stack \in Seq(Frames)
           /\ Plain(stack) /\ \A f \in Elements(stack) : Is(f, {"emit", "handler"})
<1>1. phase = "active" /\ stack \in Seq(Frames)
  BY DEF ScriptRuns, Inv, TypeOK
<1>2. CASE stack = <<>>
  BY <1>1, <1>2, ElementsFacts DEF Plain
<1>3. CASE TopIs({"handler"})
  <2>1. stack # <<>> /\ Is(Top, {"handler"}) /\ ~Is(Top, Destructs)
    BY <1>3 DEF TopIs, Is, Destructs
  <2>2. Is(Top, {"emit", "handler"})
    BY <2>1 DEF Is
  <2> QED BY <1>1, <2>1, <2>2, PlainStack, TopOfStack
<1> QED BY <1>1, <1>2, <1>3 DEF ScriptRuns

\* What the script can name is alive.
LEMMA UsableFacts ==
    ASSUME Inv, ScriptRuns, NEW z \in Zvals, Usable(z)
    PROVE  LET w == zval[z]
               g == wrapper[w].gobject
           IN  /\ refcount[z] \in Nat \ {0}
               /\ w \in Wrappers /\ wrapper[w] \in Wrapper
               /\ w # Null /\ wrapper[w] # Null
               /\ g \in GObjs \cup {Null}
               /\ g # Null => g \in GObjs /\ gobject[g] # Null /\ gobject[g] \in GObject
<1> DEFINE w == zval[z]
           g == wrapper[w].gobject
<1>1. phase = "active" /\ stack \in Seq(Frames) /\ Plain(stack)
  BY ScriptStack
<1>2. names[z] + HeldIn(stack, z) >= 1
  <2>1. names[z] \in Nat /\ HeldIn(stack, z) \in Nat
    BY <1>1, CountsNat DEF Inv, TypeOK
  <2>2. CASE names[z] > 0
    BY <2>1, <2>2
  <2>3. CASE TopIs({"handler"}) /\ z \in Elements(Top.args)
    <3>1. stack # <<>> /\ Top.at = "handler"
      BY <2>3 DEF TopIs, Is
    <3>2. Top \in Frames /\ Below \in Seq(Frames)
      BY <3>1, TopOfStack
    <3>3. HeldIn(stack, z) = HeldIn(Below, z) + ThisOf(Top, z) + ArgsOf(Top, z)
      BY <3>1, TopOfStack
    <3>4. Top.args \in Seq(Zvals)
      BY <3>1, <3>2, FrameFields
    <3>5. ArgsOf(Top, z) = Count(z, Top.args) /\ Count(z, Top.args) \in Nat \ {0}
      BY <2>3, <3>1, <3>4, CountFacts DEF ArgsOf, Is
    <3>6. HeldIn(Below, z) \in Nat /\ ThisOf(Top, z) \in Nat
      BY <3>2, CountsNat, FrameHolds
    <3> QED BY <2>1, <3>3, <3>5, <3>6
  <2> QED BY <2>2, <2>3 DEF Usable
<1>3. refcount[z] \in Nat \ {0}
  <2>1. refcount[z] >= UsesIn(stack, z) /\ refcount[z] \in Nat
    BY DEF Inv, Counted, TypeOK
  <2>2. Cardinality(Params(z)) \in Nat /\ names[z] \in Nat /\ HeldIn(stack, z) \in Nat
    BY <1>1, CountsNat DEF Inv, TypeOK
  <2> QED BY <1>2, <2>1, <2>2 DEF UsesIn
<1>4. w # Null /\ w \in Wrappers
  <2>1. zval[z] # Null
    BY <1>3 DEF Inv, Counted
  <2> QED BY <2>1 DEF Inv, TypeOK
<1>5. wrapper[w] # Null /\ wrapper[w] \in Wrapper
  <2>1. wrapper[w] # Null
    BY <1>1, <1>4 DEF Inv, Settled
  <2> QED BY <2>1, <1>4 DEF Inv, TypeOK
<1>6. g \in GObjs \cup {Null}
  BY <1>5 DEF Wrapper
<1>7. ASSUME g # Null PROVE g \in GObjs /\ gobject[g] # Null /\ gobject[g] \in GObject
  <2>1. g \in GObjs
    BY <1>6, <1>7
  <2>2. w \in Owning(stack, g)
    BY <1>1, <1>4, <1>5, PlainFacts
  <2>3. gobject[g] # Null
    BY <2>1, <2>2 DEF Inv, Owned
  <2> QED BY <2>1, <2>3 DEF Inv, TypeOK
<1> QED BY <1>3, <1>4, <1>5, <1>6, <1>7

-----------------------------------------------------------------------------
(* Destructions that begin                                                  *)

\* One more destruction at the top.
LEMMA PushDestruct ==
    ASSUME NEW s \in Seq(Frames), NEW d \in Frames, Is(d, {"unref", "finalize"})
    PROVE  LET t == <<d>> \o s
           IN  /\ t \in Seq(Frames) /\ Elements(t) = {d} \cup Elements(s)
               /\ \A x : HeldIn(t, x) = HeldIn(s, x) /\ ValuesIn(t, x) = ValuesIn(s, x)
               /\ \A w : GaveUp(t, w) <=> GaveUp(s, w)
               /\ \A w : FreeingIn(t, w) <=>
                           FreeingIn(s, w) \/ (Is(d, {"unref"}) /\ d.zobject = w)
               /\ OnEmit(s) => OnEmit(t)
               /\ Stacked(s) /\ (\A b \in Elements(s) : ~Is(b, {"marshal"}) /\ ~Twice(d, b))
                    => Stacked(t)
<1> DEFINE t == <<d>> \o s
<1>1. t \in Seq(Frames) /\ Elements(t) = {d} \cup Elements(s)
  BY PushFacts
<1>2. ASSUME NEW x PROVE HeldIn(t, x) = HeldIn(s, x) /\ ValuesIn(t, x) = ValuesIn(s, x)
  <2>1. ThisOf(d, x) = 0 /\ ArgsOf(d, x) = 0 /\ GivenOf(d, x) = 0 /\ RetOf(d, x) = 0
    BY DEF Is, ThisOf, ArgsOf, GivenOf, RetOf
  <2>2. HeldIn(s, x) \in Nat /\ ValuesIn(s, x) \in Nat
    BY CountsNat
  <2>3. /\ HeldIn(t, x) = HeldIn(s, x) + ThisOf(d, x) + ArgsOf(d, x)
        /\ ValuesIn(t, x) = ValuesIn(s, x) + GivenOf(d, x) + RetOf(d, x)
    BY HeldPush, ValuesPush
  <2> QED BY <2>1, <2>2, <2>3
<1>3. \A w : GaveUp(t, w) <=> GaveUp(s, w)
  BY <1>1 DEF GaveUp, Is
<1>4. \A w : FreeingIn(t, w) <=> FreeingIn(s, w) \/ (Is(d, {"unref"}) /\ d.zobject = w)
  BY <1>1 DEF FreeingIn, Is, FreeStorage
<1>5. OnEmit(s) => OnEmit(t)
  BY OnEmitPush DEF Is
<1>6. ASSUME Stacked(s), \A b \in Elements(s) : ~Is(b, {"marshal"}) /\ ~Twice(d, b)
      PROVE  Stacked(t)
  <2>1. Is(d, Destructs)
    BY DEF Is, Destructs
  <2> QED BY <2>1, <1>6, StackedPush DEF Under
<1> QED BY <1>1, <1>2, <1>3, <1>4, <1>5, <1>6

\* `frames' are the stack but for frames that destroy nothing.
Replaces(frames) ==
    /\ frames \in Seq(Frames) /\ Stacked(frames) /\ OnEmit(frames)
    /\ \A b \in Elements(frames) : ~Is(b, {"marshal"})
    /\ \A w : /\ FreeingIn(frames, w) <=> FreeingIn(stack, w)
              /\ GaveUp(frames, w) <=> GaveUp(stack, w)

\* zval_ptr_dtor: the container loses a reference, and with the last one the
\* wrapper, if nothing else refers to it, begins to be freed.
LEMMA DtorEffect ==
    ASSUME Inv, NEW z \in Zvals, refcount[z] \in Nat \ {0},
           NEW frames, Replaces(frames), ZvalPtrDtor(z, frames)
    PROVE  /\ refcount' \in [Zvals -> Nat] /\ zval' \in [Zvals -> Wrappers \cup {Null}]
           /\ \A x \in Zvals : refcount'[x] = refcount[x] - (IF x = z THEN 1 ELSE 0)
           /\ \A x \in Zvals : /\ zval'[x] = Null <=> refcount'[x] = 0
                               /\ zval'[x] # Null => zval'[x] = zval[x]
           /\ stack' \in Seq(Frames) /\ Stacked(stack') /\ OnEmit(stack')
           /\ \A x : HeldIn(stack', x) = HeldIn(frames, x)
                       /\ ValuesIn(stack', x) = ValuesIn(frames, x)
           /\ \A w : GaveUp(stack', w) <=> GaveUp(stack, w)
           /\ \A x \in Zvals : FreeingIn(stack', zval'[x]) => FreeingIn(stack, zval'[x])
                                                              \/ zval'[x] = Null
           /\ \A f \in Elements(stack') :
                f \in Elements(frames)
                  \/ \E w \in Wrappers : f = UnrefFrame(w) /\ wrapper[w] # Null
<1> DEFINE w == zval[z]
           last == /\ w # Null
                   /\ wrapper[w] # Null /\ ~Freeing(w)
                   /\ \A z2 \in Zvals \ {z} : zval[z2] # w
<1>1. /\ refcount \in [Zvals -> Nat] /\ zval \in [Zvals -> Wrappers \cup {Null}]
      /\ \A x \in Zvals : zval[x] = Null <=> refcount[x] = 0
      /\ Null \notin Wrappers
  BY ConstantsAssumption DEF Inv, TypeOK, Counted
<1>2. frames \in Seq(Frames) /\ Stacked(frames) /\ OnEmit(frames)
  BY DEF Replaces
<1>3. refcount' = [refcount EXCEPT ![z] = @ - 1]
  BY DEF ZvalPtrDtor
<1>4. /\ refcount' \in [Zvals -> Nat]
      /\ \A x \in Zvals : refcount'[x] = refcount[x] - (IF x = z THEN 1 ELSE 0)
  BY <1>1, <1>3
<1>5. /\ zval' \in [Zvals -> Wrappers \cup {Null}]
      /\ \A x \in Zvals : /\ zval'[x] = Null <=> refcount'[x] = 0
                          /\ zval'[x] # Null => zval'[x] = zval[x]
  <2>1. CASE refcount[z] > 1
    BY <2>1, <1>1, <1>4 DEF ZvalPtrDtor
  <2>2. CASE ~(refcount[z] > 1)
    <3>1. zval' = [zval EXCEPT ![z] = Null]
      BY <2>2 DEF ZvalPtrDtor
    <3>2. refcount'[z] = 0
      BY <2>2, <1>1, <1>4
    <3> QED BY <3>1, <3>2, <1>1, <1>4
  <2> QED BY <2>1, <2>2
<1>6. \/ stack' = frames
      \/ stack' = <<UnrefFrame(w)>> \o frames /\ last /\ zval' = [zval EXCEPT ![z] = Null]
  BY DEF ZvalPtrDtor
<1>7. CASE stack' = frames
  <2>1. \A v : FreeingIn(stack', v) <=> FreeingIn(stack, v)
    BY <1>7 DEF Replaces
  <2>2. \A v : GaveUp(stack', v) <=> GaveUp(stack, v)
    BY <1>7 DEF Replaces
  <2> QED BY <1>2, <1>4, <1>5, <1>7, <2>1, <2>2
<1>8. CASE stack' = <<UnrefFrame(w)>> \o frames /\ last /\ zval' = [zval EXCEPT ![z] = Null]
  <2> DEFINE d == UnrefFrame(w)
  <2>1. w \in Wrappers /\ wrapper[w] # Null /\ ~FreeingIn(stack, w)
    BY <1>1, <1>8, FramesOfWrappers
  <2>2. d \in Frames /\ Is(d, {"unref", "finalize"}) /\ d.zobject = w /\ d.at = "unref"
    BY <2>1 DEF UnrefFrame, Frames, Is
  <2>3. \A b \in Elements(frames) : ~Is(b, {"marshal"}) /\ ~Twice(d, b)
    <3>1. ~FreeingIn(frames, w)
      BY <2>1 DEF Replaces
    <3>2. \A b \in Elements(frames) : ~(Is(b, FreeStorage) /\ b.zobject = w)
      BY <3>1 DEF FreeingIn
    <3>3. \A b \in Elements(frames) : ~Is(b, {"marshal"})
      BY DEF Replaces
    <3> QED BY <2>2, <3>2, <3>3 DEF Twice, Is
  <2> HIDE DEF d
  <2>4. stack' = <<d>> \o frames
    BY <1>8 DEF d
  <2>5. /\ stack' \in Seq(Frames) /\ Elements(stack') = {d} \cup Elements(frames)
        /\ \A x : HeldIn(stack', x) = HeldIn(frames, x) /\ ValuesIn(stack', x) = ValuesIn(frames, x)
        /\ \A v : GaveUp(stack', v) <=> GaveUp(frames, v)
        /\ \A v : FreeingIn(stack', v) <=>
                           FreeingIn(frames, v) \/ (Is(d, {"unref"}) /\ d.zobject = v)
        /\ OnEmit(stack') /\ Stacked(stack')
    BY <1>2, <2>2, <2>3, <2>4, PushDestruct
  <2>6. \A v : GaveUp(stack', v) <=> GaveUp(stack, v)
    BY <2>5 DEF Replaces
  <2>7. ASSUME NEW x \in Zvals, FreeingIn(stack', zval'[x]), zval'[x] # Null
        PROVE  FreeingIn(stack, zval'[x])
    <3>1. zval'[x] # w
      BY <1>1, <1>8, <2>7
    <3>2. FreeingIn(frames, zval'[x])
      BY <3>1, <2>2, <2>5, <2>7
    <3> QED BY <3>2 DEF Replaces
  <2>8. \A f \in Elements(stack') :
          f \in Elements(frames) \/ \E v \in Wrappers : f = UnrefFrame(v) /\ wrapper[v] # Null
    BY <2>1, <2>5 DEF d
  <2> QED BY <1>4, <1>5, <2>5, <2>6, <2>7, <2>8
<1> QED BY <1>6, <1>7, <1>8

\* The counts of GObjects stay right when their owners and values do.
LEMMA OwnedKept ==
    ASSUME Inv, gobject' = gobject,
           \A g \in GObjs : /\ Owning(stack, g)' = Owning(stack, g)
                            /\ ValuesIn(stack', g) = ValuesIn(stack, g)
    PROVE  Owned'
<1>1. \A g \in GObjs : Cardinality(Owning(stack, g)') = Cardinality(Owning(stack, g))
  OBVIOUS
<1> QED BY <1>1 DEF Inv, Owned

\* Who owns depends on the wrappers, and on how far free_storage has come.
LEMMA OwningKept ==
    ASSUME \A w \in Wrappers : /\ wrapper'[w] = Null <=> wrapper[w] = Null
                               /\ wrapper[w] # Null =>
                                    wrapper'[w].gobject = wrapper[w].gobject,
           \A w : GaveUp(stack', w) <=> GaveUp(stack, w)
    PROVE  \A g : Owning(stack, g)' = Owning(stack, g)
BY DEF Owning

\* A container is given up by a variable or a frame.
LEMMA DtorStep ==
    ASSUME Inv, phase \in {"active", "shutdown"},
           NEW z \in Zvals, NEW frames, Replaces(frames), ZvalPtrDtor(z, frames),
           \A f \in Elements(frames) : Live(f),
           \A x : ValuesIn(frames, x) = ValuesIn(stack, x),
           names' \in [Zvals -> 0 .. MaxVars],
           \A x \in Zvals : names'[x] + HeldIn(frames, x)
                              = names[x] + HeldIn(stack, x) - (IF x = z THEN 1 ELSE 0),
           UNCHANGED <<phase, fault, request, wrapper, gobject, closure>>
    PROVE  Inv'
<1>1. frames \in Seq(Frames) /\ stack \in Seq(Frames)
  BY DEF Replaces, Inv, TypeOK
<1>2. \A x \in Zvals : /\ names[x] \in Nat /\ names'[x] \in Nat
                       /\ HeldIn(frames, x) \in Nat /\ HeldIn(stack, x) \in Nat
                       /\ Cardinality(Params(x)) \in Nat /\ refcount[x] \in Nat
  <2>1. \A x \in Zvals : names[x] \in 0 .. MaxVars /\ names'[x] \in 0 .. MaxVars
    BY DEF Inv, TypeOK
  <2>2. \A x \in Zvals : names[x] \in Nat /\ names'[x] \in Nat
    BY <2>1, ConstantsAssumption
  <2>3. \A x \in Zvals : refcount[x] \in Nat
    BY DEF Inv, TypeOK
  <2> QED BY <1>1, <2>2, <2>3, CountsNat
<1>3. \A x \in Zvals : /\ refcount[x] >= names[x] + HeldIn(stack, x) + Cardinality(Params(x))
                       /\ phase = "active" =>
                            refcount[x] = names[x] + HeldIn(stack, x) + Cardinality(Params(x))
  BY DEF Inv, Counted, UsesIn
<1>4. refcount[z] \in Nat \ {0}
  <2>1. names'[z] + HeldIn(frames, z) = names[z] + HeldIn(stack, z) - 1
    OBVIOUS
  <2> QED BY <1>2, <1>3, <2>1
<1>5. /\ refcount' \in [Zvals -> Nat] /\ zval' \in [Zvals -> Wrappers \cup {Null}]
      /\ \A x \in Zvals : refcount'[x] = refcount[x] - (IF x = z THEN 1 ELSE 0)
      /\ \A x \in Zvals : /\ zval'[x] = Null <=> refcount'[x] = 0
                          /\ zval'[x] # Null => zval'[x] = zval[x]
      /\ stack' \in Seq(Frames) /\ Stacked(stack') /\ OnEmit(stack')
      /\ \A x : HeldIn(stack', x) = HeldIn(frames, x)
                  /\ ValuesIn(stack', x) = ValuesIn(frames, x)
      /\ \A w : GaveUp(stack', w) <=> GaveUp(stack, w)
      /\ \A x \in Zvals : FreeingIn(stack', zval'[x]) => FreeingIn(stack, zval'[x])
                                                         \/ zval'[x] = Null
      /\ \A f \in Elements(stack') :
           f \in Elements(frames)
             \/ \E w \in Wrappers : f = UnrefFrame(w) /\ wrapper[w] # Null
  BY <1>4, DtorEffect
<1>6. TypeOK'
  BY <1>5 DEF Inv, TypeOK
<1>7. Counted'
  <2>1. \A x : Params(x)' = Params(x)
    BY DEF Params
  <2>2. ASSUME NEW x \in Zvals
        PROVE  /\ refcount'[x] >= names'[x] + HeldIn(stack', x) + Cardinality(Params(x))
               /\ phase = "active" =>
                    refcount'[x] = names'[x] + HeldIn(stack', x) + Cardinality(Params(x))
    <3>1. HeldIn(stack', x) = HeldIn(frames, x)
      BY <1>5
    <3>2. refcount'[x] = refcount[x] - (IF x = z THEN 1 ELSE 0)
      BY <1>5
    <3>3. names'[x] + HeldIn(frames, x)
            = names[x] + HeldIn(stack, x) - (IF x = z THEN 1 ELSE 0)
      OBVIOUS
    <3> QED BY <3>1, <3>2, <3>3, <1>2, <1>3
  <2> QED BY <1>5, <2>1, <2>2 DEF Counted, UsesIn
<1>8. Idle'
  BY DEF Idle
<1>9. Settled'
  BY <1>5 DEF Inv, Settled
<1>10. Owned'
  BY <1>5, OwnedKept, OwningKept
<1>11. Listed'
  BY DEF Inv, Listed
<1>12. ClosuresWatched'
  BY DEF Inv, ClosuresWatched
<1>13. Framed'
  <2>1. ASSUME NEW f \in Elements(stack') PROVE Live(f)'
    <3>1. CASE f \in Elements(frames)
      BY <3>1 DEF Live
    <3>2. ASSUME NEW w \in Wrappers, f = UnrefFrame(w), wrapper[w] # Null PROVE Live(f)'
      BY <3>2 DEF Live, UnrefFrame, Is
    <3> QED BY <1>5, <3>1, <3>2
  <2> QED BY <1>5, <2>1 DEF Framed
<1> QED BY <1>6, <1>7, <1>8, <1>9, <1>10, <1>11, <1>12, <1>13 DEF Inv

\* A closure dies: it leaves its list, and its parameter is given up.
LEMMA InvalidateStep ==
    ASSUME Inv, phase \in {"active", "shutdown"},
           NEW c \in Closures, closure[c] # Null,
           NEW frames, Replaces(frames), Invalidate(c, frames),
           \A x : ValuesIn(frames, x) = ValuesIn(stack, x),
           \A x : HeldIn(frames, x) = HeldIn(stack, x),
           \A f \in Elements(frames) :
              \/ Live(f)
              \/ /\ f = LoopFrame(closure[c].zobject, NextElement(closure[c].zobject, c))
                 /\ Head(wrapper[closure[c].zobject].closures) = c
    PROVE  Inv'
<1> DEFINE w == closure[c].zobject
           p == closure[c].param
           list == wrapper[w].closures
           r == Without(list, c)
<1>1. /\ closure[c] \in Closure /\ w \in Wrappers /\ p \in Zvals \cup {Null}
      /\ Null \notin Zvals /\ Null \notin Closures /\ Null \notin Wrappers
  <2>1. closure[c] \in Closure
    BY DEF Inv, TypeOK
  <2> QED BY <2>1, ConstantsAssumption DEF Closure
<1>2. wrapper[w] # Null /\ wrapper[w] \in Wrapper /\ list \in Seq(Closures)
  <2>1. wrapper[w] # Null
    BY <1>1 DEF Inv, Listed
  <2>2. wrapper[w] \in Wrapper
    BY <1>1, <2>1 DEF Inv, TypeOK
  <2> QED BY <2>1, <2>2 DEF Wrapper
<1>3. Injective(list) /\ c \in Elements(list)
  BY <1>1, <1>2 DEF Inv, Listed
<1>4. /\ r \in Seq(Closures) /\ Injective(r)
      /\ Elements(r) = Elements(list) \ {c}
      /\ list # <<>>
      /\ Head(list) # c => r # <<>> /\ Head(r) = Head(list)
      /\ Head(list) = c =>
           /\ Position(list, c) = 1
           /\ Len(list) > 1 => r # <<>> /\ Head(r) = list[2]
           /\ ~(Len(list) > 1) => r = <<>>
  BY <1>2, <1>3, WithoutFacts
<1>5. /\ wrapper' = [wrapper EXCEPT ![w].closures = r]
      /\ closure' = [closure EXCEPT ![c] = Null]
      /\ ClosureInvalidate(c, frames)
      /\ UNCHANGED <<phase, fault, request, names, gobject>>
  BY <1>2 DEF Invalidate, UnregisterGobjectClosure
<1>6. /\ wrapper' \in [Wrappers -> Wrapper \cup {Null}]
      /\ wrapper'[w] # Null /\ wrapper'[w].gobject = wrapper[w].gobject
      /\ wrapper'[w].closures = r
      /\ \A v \in Wrappers : v # w => wrapper'[v] = wrapper[v]
  <2>1. wrapper \in [Wrappers -> Wrapper \cup {Null}]
    BY DEF Inv, TypeOK
  <2>2. wrapper'[w] = [wrapper[w] EXCEPT !.closures = r]
    BY <1>1, <1>5, <2>1
  <2>3. \A v \in Wrappers : v # w => wrapper'[v] = wrapper[v]
    BY <1>1, <1>5, <2>1
  <2> HIDE DEF r, w
  <2>4. /\ wrapper'[w] \in Wrapper /\ wrapper'[w].gobject = wrapper[w].gobject
        /\ wrapper'[w].closures = r
    BY <1>2, <1>4, <2>2 DEF Wrapper
  <2>5. wrapper'[w] # Null
    BY <2>4, NullAssumption
  <2>6. wrapper' \in [Wrappers -> Wrapper \cup {Null}]
    <3>1. wrapper' = [v \in Wrappers |-> wrapper'[v]]
      BY <1>5, <2>1
    <3>2. \A v \in Wrappers : wrapper'[v] \in Wrapper \cup {Null}
      BY <2>1, <2>3, <2>4
    <3> QED BY <3>1, <3>2
  <2> QED BY <2>3, <2>4, <2>5, <2>6
<1>7. /\ closure' \in [Closures -> Closure \cup {Null}] /\ closure'[c] = Null
      /\ \A x \in Closures : x # c => closure'[x] = closure[x]
  <2>1. closure \in [Closures -> Closure \cup {Null}]
    BY DEF Inv, TypeOK
  <2> QED BY <1>5, <2>1
<1>8. \A x \in Zvals : Cardinality(Params(x)')
                         = Cardinality(Params(x)) - (IF x = p THEN 1 ELSE 0)
  <2> TAKE x \in Zvals
  <2>1. Params(x)' = Params(x) \ {c}
    BY <1>7 DEF Params
  <2>2. c \in Params(x) <=> x = p
    BY DEF Params
  <2>3. IsFiniteSet(Params(x)) /\ Cardinality(Params(x)) \in Nat
    BY CountsNat
  <2>4. Cardinality(Params(x) \ {c})
          = IF c \in Params(x) THEN Cardinality(Params(x)) - 1 ELSE Cardinality(Params(x))
    BY <2>3, FS_RemoveElement
  <2> QED BY <2>1, <2>2, <2>3, <2>4
<1>9. frames \in Seq(Frames) /\ stack \in Seq(Frames)
  BY DEF Replaces, Inv, TypeOK
<1>10. \A x \in Zvals : /\ names[x] \in Nat /\ HeldIn(stack, x) \in Nat
                        /\ Cardinality(Params(x)) \in Nat /\ refcount[x] \in Nat
  <2>1. \A x \in Zvals : names[x] \in 0 .. MaxVars
    BY DEF Inv, TypeOK
  <2>2. MaxVars \in Nat
    BY ConstantsAssumption
  <2> QED BY <1>9, <2>1, <2>2, CountsNat DEF Inv, TypeOK
<1>11. \A x \in Zvals : /\ refcount[x] >= names[x] + HeldIn(stack, x) + Cardinality(Params(x))
                        /\ phase = "active" =>
                             refcount[x] = names[x] + HeldIn(stack, x) + Cardinality(Params(x))
  BY DEF Inv, Counted, UsesIn
<1> DEFINE Effect ==
      /\ refcount' \in [Zvals -> Nat] /\ zval' \in [Zvals -> Wrappers \cup {Null}]
      /\ \A x \in Zvals : refcount'[x] = refcount[x] - (IF x = p THEN 1 ELSE 0)
      /\ \A x \in Zvals : /\ zval'[x] = Null <=> refcount'[x] = 0
                          /\ zval'[x] # Null => zval'[x] = zval[x]
      /\ stack' \in Seq(Frames) /\ Stacked(stack') /\ OnEmit(stack')
      /\ \A x : HeldIn(stack', x) = HeldIn(frames, x)
                  /\ ValuesIn(stack', x) = ValuesIn(frames, x)
      /\ \A v : GaveUp(stack', v) <=> GaveUp(stack, v)
      /\ \A x \in Zvals : FreeingIn(stack', zval'[x]) => FreeingIn(stack, zval'[x])
                                                         \/ zval'[x] = Null
      /\ \A f \in Elements(stack') :
           f \in Elements(frames)
             \/ \E v \in Wrappers : f = UnrefFrame(v) /\ wrapper[v] # Null
<1>12. Effect
  <2>1. CASE p = Null
    <3>1. stack' = frames /\ zval' = zval /\ refcount' = refcount
      BY <2>1, <1>5 DEF ClosureInvalidate
    <3>2. \A x \in Zvals : x # p
      BY <2>1, <1>1
    <3>3. /\ refcount \in [Zvals -> Nat] /\ zval \in [Zvals -> Wrappers \cup {Null}]
          /\ \A x \in Zvals : zval[x] = Null <=> refcount[x] = 0
      BY DEF Inv, TypeOK, Counted
    <3> QED BY <3>1, <3>2, <3>3 DEF Replaces
  <2>2. CASE p # Null
    <3>1. p \in Zvals /\ ZvalPtrDtor(p, frames)
      BY <2>2, <1>1, <1>5 DEF ClosureInvalidate
    <3>2. refcount[p] \in Nat \ {0}
      <4>1. c \in Params(p)
        BY DEF Params
      <4>2. IsFiniteSet(Params(p)) /\ Cardinality(Params(p)) # 0
        BY <4>1, CountsNat, FS_EmptySet
      <4>3. Cardinality(Params(p)) \in Nat
        BY CountsNat
      <4> HIDE DEF p
      <4> QED BY <3>1, <4>2, <4>3, <1>10, <1>11
    <3> HIDE DEF p
    <3> QED BY <3>1, <3>2, DtorEffect
  <2> QED BY <2>1, <2>2
<1>13. TypeOK'
  BY <1>5, <1>6, <1>7, <1>12 DEF Inv, TypeOK
<1>14. Counted'
  <2>1. ASSUME NEW x \in Zvals
        PROVE  /\ refcount'[x] >= names[x] + HeldIn(stack', x) + Cardinality(Params(x)')
               /\ phase = "active" =>
                    refcount'[x] = names[x] + HeldIn(stack', x) + Cardinality(Params(x)')
    <3>1. HeldIn(stack', x) = HeldIn(stack, x)
      BY <1>12
    <3>2. refcount'[x] = refcount[x] - (IF x = p THEN 1 ELSE 0)
      BY <1>12
    <3> HIDE DEF Effect, p
    <3> QED BY <3>1, <3>2, <1>8, <1>10, <1>11
  <2> QED BY <1>5, <1>12, <2>1 DEF Counted, UsesIn
<1>15. Idle'
  BY <1>5 DEF Idle
<1>16. Settled'
  <2>1. ASSUME phase = "active", NEW x \in Zvals, zval'[x] # Null
        PROVE  wrapper'[zval'[x]] # Null /\ ~FreeingIn(stack', zval'[x])
    <3>1. zval'[x] = zval[x] /\ (FreeingIn(stack', zval'[x]) => FreeingIn(stack, zval'[x]))
      BY <1>12, <2>1
    <3>2. wrapper[zval[x]] # Null /\ ~FreeingIn(stack, zval[x])
      BY <2>1, <3>1 DEF Inv, Settled
    <3>3. zval[x] \in Wrappers
      BY <2>1, <3>1 DEF Inv, TypeOK
    <3> QED BY <3>1, <3>2, <3>3, <1>6
  <2> QED BY <1>5, <2>1 DEF Settled
<1>17. Owned'
  <2>1. \A g : Owning(stack, g)' = Owning(stack, g)
    <3>1. \A v \in Wrappers : /\ wrapper'[v] = Null <=> wrapper[v] = Null
                              /\ wrapper[v] # Null => wrapper'[v].gobject = wrapper[v].gobject
      <4>1. wrapper[w] # Null
        BY <1>2
      <4> HIDE DEF w
      <4> QED BY <4>1, <1>6
    <3>2. \A v : GaveUp(stack', v) <=> GaveUp(stack, v)
      BY <1>12
    <3> QED BY <3>1, <3>2, OwningKept
  <2>2. \A g : ValuesIn(stack', g) = ValuesIn(stack, g)
    BY <1>12
  <2> QED BY <1>5, <2>1, <2>2, OwnedKept
<1>18. Listed'
  <2>1. \A x \in Closures : closure'[x] # Null => wrapper'[closure'[x].zobject] # Null
    <3> SUFFICES ASSUME NEW x \in Closures, closure'[x] # Null
                 PROVE  wrapper'[closure'[x].zobject] # Null
      OBVIOUS
    <3>1. closure'[x] = closure[x]
      BY <1>7
    <3>2. wrapper[closure[x].zobject] # Null /\ closure[x].zobject \in Wrappers
      BY <3>1 DEF Inv, Listed, TypeOK, Closure
    <3> QED BY <3>1, <3>2, <1>6
  <2>2. ASSUME NEW v \in Wrappers, wrapper'[v] # Null
        PROVE  /\ Elements(wrapper'[v].closures) =
                    {x \in Closures : closure'[x] # Null /\ closure'[x].zobject = v}
               /\ Injective(wrapper'[v].closures)
    <3>1. CASE v = w
      <4>1. Elements(list) = {x \in Closures : closure[x] # Null /\ closure[x].zobject = w}
        BY <1>1, <1>2 DEF Inv, Listed
      <4>2. Elements(r) = {x \in Closures : closure'[x] # Null /\ closure'[x].zobject = w}
        BY <4>1, <1>4, <1>7
      <4> QED BY <3>1, <4>2, <1>4, <1>6
    <3>2. CASE v # w
      <4>1. wrapper'[v] = wrapper[v]
        BY <3>2, <1>6
      <4>2. /\ Elements(wrapper[v].closures) =
                 {x \in Closures : closure[x] # Null /\ closure[x].zobject = v}
            /\ Injective(wrapper[v].closures)
        BY <2>2, <4>1 DEF Inv, Listed
      <4>3. {x \in Closures : closure[x] # Null /\ closure[x].zobject = v}
              = {x \in Closures : closure'[x] # Null /\ closure'[x].zobject = v}
        BY <3>2, <1>7
      <4> QED BY <4>1, <4>2, <4>3
    <3> QED BY <3>1, <3>2
  <2> QED BY <2>1, <2>2 DEF Listed
<1>19. ClosuresWatched'
  BY <1>5, <1>7 DEF Inv, ClosuresWatched
<1>20. Framed'
  <2>1. ASSUME NEW f \in Elements(stack') PROVE Live(f)'
    <3>1. ASSUME NEW v \in Wrappers, f = UnrefFrame(v), wrapper[v] # Null PROVE Live(f)'
      <4>1. wrapper'[v] # Null
        BY <3>1, <1>6
      <4> QED BY <3>1, <4>1 DEF Live, UnrefFrame, Is, FreeStorage
    <3>2. ASSUME f \in Elements(frames), Live(f) PROVE Live(f)'
      <4>1. f \in Frames /\ ~Is(f, {"marshal"})
        BY <3>2, <1>9, ElementsFacts DEF Replaces
      <4>2. Is(f, FreeStorage) => f.zobject \in Wrappers /\ wrapper'[f.zobject] # Null
        <5> HAVE Is(f, FreeStorage)
        <5>1. f.zobject \in Wrappers /\ wrapper[f.zobject] # Null
          BY <4>1, <3>2, FrameFields DEF Live, Is, FreeStorage
        <5> QED BY <5>1, <1>6
      <4>3. ASSUME Is(f, {"loop"})
            PROVE  LET new == wrapper'[f.zobject].closures
                   IN  /\ f.tmp = Null => new = <<>>
                       /\ f.tmp \in Elements(new) => f.tmp = Head(new)
        <5>1. f.zobject \in Wrappers
          BY <4>1, <4>3, FrameFields DEF Is
        <5>2. /\ f.tmp = Null => wrapper[f.zobject].closures = <<>>
              /\ f.tmp \in Elements(wrapper[f.zobject].closures) =>
                    f.tmp = Head(wrapper[f.zobject].closures)
          BY <3>2, <4>3 DEF Live
        <5>3. CASE f.zobject # w
          BY <5>1, <5>2, <5>3, <1>6
        <5>4. CASE f.zobject = w
          <6>1. f.tmp # Null
            BY <5>2, <5>4, <1>4
          <6>2. f.tmp \in Elements(r) => f.tmp = Head(r)
            BY <5>2, <5>4, <1>4
          <6> QED BY <6>1, <6>2, <5>4, <1>6
        <5> QED BY <5>3, <5>4
      <4>4. Is(f, {"finalize"}) => gobject'[f.gobject] # Null /\ gobject'[f.gobject].refs = 0
        BY <3>2, <1>5 DEF Live
      <4>5. Is(f, {"emit"}) => f.values # <<>>
        BY <3>2 DEF Live
      <4> QED BY <4>1, <4>2, <4>3, <4>4, <4>5 DEF Live
    <3>3. ASSUME f = LoopFrame(w, NextElement(w, c)), Head(list) = c PROVE Live(f)'
      <4>1. NextElement(w, c) = IF Len(list) > 1 THEN list[2] ELSE Null
        BY <3>3, <1>4, <1>2 DEF NextElement
      <4>2. Len(list) > 1 => list[2] # Null
        BY <1>1, <1>2
      <4>3. /\ f.at = "loop" /\ f.zobject = w /\ f.tmp = NextElement(w, c)
        BY <3>3 DEF LoopFrame
      <4>4. /\ f.tmp = Null => r = <<>>
            /\ f.tmp \in Elements(r) => f.tmp = Head(r)
        <5>1. CASE Len(list) > 1
          BY <5>1, <4>1, <4>2, <4>3, <3>3, <1>4
        <5>2. CASE ~(Len(list) > 1)
          BY <5>2, <4>1, <4>3, <3>3, <1>4, SmallElements
        <5> QED BY <5>1, <5>2
      <4> QED BY <4>3, <4>4, <1>6 DEF Live, Is
    <3> QED BY <1>12, <3>1, <3>2, <3>3
  <2> QED BY <1>12, <2>1 DEF Framed
<1> QED BY <1>13, <1>14, <1>15, <1>16, <1>17, <1>18, <1>19, <1>20 DEF Inv

\* `frames' may be the stack of the next state, and hold what the stack holds.
Follows(frames) ==
    /\ frames \in Seq(Frames) /\ Stacked(frames) /\ OnEmit(frames)
    /\ \A x \in Zvals : HeldIn(frames, x) = HeldIn(stack, x)
    /\ \A w : FreeingIn(frames, w) => FreeingIn(stack, w) \/ phase # "active"
    /\ \A f \in Elements(frames) : Live(f)

\* A step that only goes from one call to another.
LEMMA MoveStep ==
    ASSUME Inv, phase # "idle", Follows(stack'),
           \A g \in GObjs : /\ Owning(stack', g) = Owning(stack, g)
                            /\ ValuesIn(stack', g) = ValuesIn(stack, g),
           UNCHANGED <<phase, fault, request, zval, refcount, names, wrapper, gobject, closure>>
    PROVE  Inv'
<1>1. TypeOK'
  BY DEF Inv, TypeOK, Follows
<1>2. Counted'
  <2>1. \A x : Params(x)' = Params(x)
    BY DEF Params
  <2>2. \A x \in Zvals : HeldIn(stack', x) = HeldIn(stack, x)
    BY DEF Follows
  <2>3. \A x \in Zvals : UsesIn(stack, x)' = UsesIn(stack, x)
    BY <2>1, <2>2 DEF UsesIn
  <2> QED BY <2>3 DEF Inv, Counted
<1>3. Idle'
  BY DEF Idle
<1>4. Settled'
  BY DEF Inv, Settled, Follows
<1>5. Owned'
  <2>1. \A g \in GObjs : Owning(stack, g)' = Owning(stack, g)
    BY DEF Owning
  <2> QED BY <2>1, OwnedKept
<1>6. Listed'
  BY DEF Inv, Listed
<1>7. ClosuresWatched'
  BY DEF Inv, ClosuresWatched
<1>8. Framed'
  <2>1. \A f \in Elements(stack') : Live(f)'
    BY DEF Live, Follows
  <2> QED BY <2>1 DEF Framed, Follows
<1> QED BY <1>1, <1>2, <1>3, <1>4, <1>5, <1>6, <1>7, <1>8 DEF Inv

\* g_object_unref of an owner or a value that the frames do not count any more.
LEMMA UnrefStep ==
    ASSUME Inv, phase # "idle",
           NEW g \in GObjs, gobject[g] # Null, gobject[g].refs # 0,
           NEW obj \in GObject, obj.refs = gobject[g].refs - 1,
           gobject' = [gobject EXCEPT ![g] = obj],
           NEW frames, Follows(frames), \A f \in Elements(frames) : ~Is(f, {"marshal"}),
           stack' = AfterUnref(g, frames),
           \A x \in GObjs \ {g} : /\ Owning(frames, x) = Owning(stack, x)
                                  /\ ValuesIn(frames, x) = ValuesIn(stack, x),
           obj.refs = References(obj, Cardinality(Owning(frames, g)), ValuesIn(frames, g)),
           UNCHANGED <<phase, fault, request, zval, refcount, names, wrapper, closure>>
    PROVE  Inv'
<1> DEFINE d == FinalizeFrame(g)
<1>1. /\ gobject \in [GObjs -> GObject \cup {Null}] /\ gobject[g] \in GObject
      /\ gobject[g].refs \in Nat /\ obj # Null
  BY NullAssumption DEF Inv, TypeOK, GObject
<1>2. /\ gobject' \in [GObjs -> GObject \cup {Null}] /\ gobject'[g] = obj
      /\ \A x \in GObjs : x # g => gobject'[x] = gobject[x]
  BY <1>1
<1>3. frames \in Seq(Frames) /\ Stacked(frames) /\ OnEmit(frames)
  BY DEF Follows
<1>4. \A f \in Elements(frames) : Is(f, {"finalize"}) => f.gobject # g
  BY DEF Follows, Live
<1>5. /\ stack' \in Seq(Frames) /\ Stacked(stack') /\ OnEmit(stack')
      /\ \A x : HeldIn(stack', x) = HeldIn(frames, x) /\ ValuesIn(stack', x) = ValuesIn(frames, x)
      /\ \A w : GaveUp(stack', w) <=> GaveUp(frames, w)
      /\ \A w : FreeingIn(stack', w) <=> FreeingIn(frames, w)
      /\ \A f \in Elements(stack') : f \in Elements(frames) \/ (f = d /\ gobject[g].refs = 1)
  <2>1. CASE gobject[g].refs = 1
    <3>1. d \in Frames /\ Is(d, {"unref", "finalize"}) /\ d.at = "finalize" /\ d.gobject = g
      BY DEF FinalizeFrame, Frames, Is
    <3>2. \A b \in Elements(frames) : ~Is(b, {"marshal"}) /\ ~Twice(d, b)
      BY <3>1, <1>4 DEF Twice, Is, FreeStorage
    <3>3. stack' = <<d>> \o frames
      BY <2>1 DEF AfterUnref
    <3> HIDE DEF d
    <3>4. /\ stack' \in Seq(Frames) /\ Elements(stack') = {d} \cup Elements(frames)
          /\ \A x : /\ HeldIn(stack', x) = HeldIn(frames, x)
                    /\ ValuesIn(stack', x) = ValuesIn(frames, x)
          /\ \A w : GaveUp(stack', w) <=> GaveUp(frames, w)
          /\ \A w : FreeingIn(stack', w) <=>
                             FreeingIn(frames, w) \/ (Is(d, {"unref"}) /\ d.zobject = w)
          /\ OnEmit(stack') /\ Stacked(stack')
      BY <1>3, <3>1, <3>2, <3>3, PushDestruct
    <3>5. ~Is(d, {"unref"})
      BY <3>1 DEF Is
    <3> QED BY <2>1, <3>4, <3>5
  <2>2. CASE gobject[g].refs # 1
    <3>1. stack' = frames
      BY <2>2 DEF AfterUnref
    <3> QED BY <3>1, <1>3
  <2> QED BY <2>1, <2>2
<1>6. TypeOK'
  BY <1>2, <1>5 DEF Inv, TypeOK
<1>7. Counted'
  <2>1. \A x : Params(x)' = Params(x)
    BY DEF Params
  <2>2. \A x \in Zvals : HeldIn(stack', x) = HeldIn(stack, x)
    BY <1>5 DEF Follows
  <2>3. \A x \in Zvals : UsesIn(stack, x)' = UsesIn(stack, x)
    BY <2>1, <2>2 DEF UsesIn
  <2> QED BY <2>3 DEF Inv, Counted
<1>8. Idle'
  BY DEF Idle
<1>9. Settled'
  BY <1>5 DEF Inv, Settled, Follows
<1>10. Owned'
  <2>1. \A x : Owning(stack, x)' = Owning(frames, x)
    BY <1>5 DEF Owning
  <2>2. ASSUME NEW x \in GObjs, x # g
        PROVE  IF gobject'[x] = Null
                 THEN Owning(stack, x)' = {} /\ ValuesIn(stack', x) = 0
                 ELSE gobject'[x].refs =
                        References(gobject'[x], Cardinality(Owning(stack, x)'), ValuesIn(stack', x))
    <3>1. gobject'[x] = gobject[x]
      BY <1>2, <2>2
    <3>2. Owning(stack, x)' = Owning(stack, x) /\ ValuesIn(stack', x) = ValuesIn(stack, x)
      BY <1>5, <2>1, <2>2
    <3> QED BY <3>1, <3>2 DEF Inv, Owned
  <2>3. /\ gobject'[g] # Null
        /\ gobject'[g].refs =
             References(gobject'[g], Cardinality(Owning(stack, g)'), ValuesIn(stack', g))
    BY <1>1, <1>2, <1>5, <2>1
  <2> QED BY <2>2, <2>3 DEF Owned
<1>11. Listed'
  BY DEF Inv, Listed
<1>12. ClosuresWatched'
  <2> SUFFICES ASSUME NEW c \in Closures, closure[c] # Null
               PROVE  gobject'[closure[c].gobject] # Null
    BY DEF ClosuresWatched
  <2>1. gobject[closure[c].gobject] # Null /\ closure[c].gobject \in GObjs
    BY DEF Inv, ClosuresWatched, TypeOK, Closure
  <2> QED BY <2>1, <1>1, <1>2
<1>13. Framed'
  <2>1. ASSUME NEW f \in Elements(stack') PROVE Live(f)'
    <3>1. CASE f \in Elements(frames)
      <4>1. Live(f) /\ f \in Frames
        BY <3>1, <1>3, ElementsFacts DEF Follows
      <4>2. Is(f, {"finalize"}) => gobject'[f.gobject] = gobject[f.gobject]
        <5> HAVE Is(f, {"finalize"})
        <5>1. f.gobject \in GObjs /\ f.gobject # g
          BY <4>1, <3>1, <1>4, FrameFields DEF Is
        <5> QED BY <5>1, <1>2
      <4> QED BY <4>1, <4>2 DEF Live
    <3>2. CASE f = d /\ gobject[g].refs = 1
      <4>1. f.at = "finalize" /\ f.gobject = g
        BY <3>2 DEF FinalizeFrame
      <4>2. gobject'[g] # Null /\ gobject'[g].refs = 0
        BY <3>2, <1>1, <1>2
      <4> QED BY <4>1, <4>2 DEF Live, Is, FreeStorage
    <3> QED BY <1>5, <3>1, <3>2
  <2> QED BY <1>5, <2>1 DEF Framed
<1> QED BY <1>6, <1>7, <1>8, <1>9, <1>10, <1>11, <1>12, <1>13 DEF Inv

-----------------------------------------------------------------------------
(* The request                                                              *)

\* A process begins without any of them.
LEMMA InitInv == Init => Inv
<1> SUFFICES ASSUME Init PROVE Inv
  OBVIOUS
<1>1. TypeOK
  BY ConstantsAssumption, EmptyStack DEF Init, TypeOK, Faults
<1>2. stack = <<>> /\ Elements(stack) = {}
  BY SmallElements DEF Init
<1>3. \A x : Cardinality(Params(x)) = 0
  <2>1. \A x : Params(x) = {}
    BY DEF Init, Params
  <2> QED BY <2>1, FS_EmptySet
<1>4. \A x : HeldIn(stack, x) = 0 /\ ValuesIn(stack, x) = 0
  BY <1>2, HeldEmpty
<1>5. Counted
  BY <1>3, <1>4 DEF Init, Counted, UsesIn
<1>6. Idle /\ Settled
  BY DEF Init, Idle, Settled
<1>7. Owned
  BY <1>4 DEF Init, Owned, Owning
<1>8. Listed /\ ClosuresWatched
  BY DEF Init, Listed, ClosuresWatched
<1>9. Framed
  BY <1>2, EmptyStack DEF Framed
<1> QED BY <1>1, <1>5, <1>6, <1>7, <1>8, <1>9 DEF Inv

\* What is there does not depend on the request and the fault.
LEMMA StillThere ==
    ASSUME Inv, UNCHANGED <<zval, refcount, names, wrapper, gobject, closure, stack>>
    PROVE  Listed' /\ ClosuresWatched' /\ Owned' /\ Framed'
<1>1. Listed' /\ ClosuresWatched'
  BY DEF Inv, Listed, ClosuresWatched
<1>2. \A g : Owning(stack, g)' = Owning(stack, g)
  BY DEF Owning
<1>3. Owned'
  BY <1>2, OwnedKept
<1>4. \A f : Live(f)' <=> Live(f)
  BY DEF Live
<1> QED BY <1>1, <1>3, <1>4 DEF Inv, Framed

\* A process that dies leaves everything as it is.
LEMMA CrashInv ==
    ASSUME Inv, NEW kind \in Faults, Crash(kind) PROVE Inv'
<1> USE DEF Crash
<1>1. TypeOK'
  BY DEF Inv, TypeOK
<1>2. \A x : UsesIn(stack, x)' = UsesIn(stack, x)
  BY DEF UsesIn, Params
<1>3. Counted' /\ Idle' /\ Settled'
  BY <1>2 DEF Inv, Counted, Idle, Settled
<1> QED BY <1>1, <1>3, StillThere DEF Inv

\* PHP opens a request: nothing is left of the one before.
LEMMA BeginInv == Inv /\ Begin => Inv'
<1> SUFFICES ASSUME Inv, Begin PROVE Inv'
  OBVIOUS
<1> USE DEF Begin
<1>1. TypeOK'
  <2>1. request' \in 0 .. MaxRequests
    BY ConstantsAssumption DEF Inv, TypeOK
  <2> QED BY <2>1 DEF Inv, TypeOK
<1>2. \A x : UsesIn(stack, x)' = UsesIn(stack, x)
  BY DEF UsesIn, Params
<1>3. \A z \in Zvals : refcount[z] = UsesIn(stack, z)
  <2> TAKE z \in Zvals
  <2>1. refcount[z] = 0 /\ refcount[z] >= UsesIn(stack, z)
    BY DEF Inv, Idle, Counted
  <2>2. HeldIn(stack, z) \in Nat /\ Cardinality(Params(z)) \in Nat /\ names[z] \in Nat
    BY ConstantsAssumption, CountsNat DEF Inv, TypeOK
  <2> QED BY <2>1, <2>2 DEF UsesIn
<1>4. Counted'
  BY <1>2, <1>3 DEF Inv, Counted
<1>5. Idle' /\ Settled'
  BY DEF Inv, Idle, Counted, Settled
<1> QED BY <1>1, <1>4, <1>5, StillThere DEF Inv

\* PHP gives the memory of the request back, once every wrapper is freed.
LEMMA RequestEndInv == Inv /\ RequestEnd => Inv'
<1> SUFFICES ASSUME Inv, RequestEnd PROVE Inv'
  OBVIOUS
<1> USE DEF RequestEnd
<1>1. TypeOK'
  BY ConstantsAssumption DEF Inv, TypeOK
<1>2. \A c \in Closures : closure[c] = Null
  <2> SUFFICES ASSUME NEW c \in Closures, closure[c] # Null PROVE FALSE
    OBVIOUS
  <2>1. closure[c].zobject \in Wrappers /\ wrapper[closure[c].zobject] # Null
    BY DEF Inv, Listed, TypeOK, Closure
  <2> QED BY <2>1
<1>3. \A x : Cardinality(Params(x)') = 0
  <2>1. \A x : Params(x)' = {}
    BY <1>2 DEF Params
  <2> QED BY <2>1, FS_EmptySet
<1>4. Counted'
  BY <1>3, HeldEmpty DEF Counted, UsesIn
<1>5. Idle' /\ Settled'
  BY DEF Idle, Settled
<1>6. Listed' /\ ClosuresWatched'
  BY DEF Inv, Listed, ClosuresWatched
<1>7. Owned'
  <2>1. \A g : Owning(stack, g)' = Owning(stack, g)
    BY DEF Owning
  <2> QED BY <2>1, OwnedKept
<1>8. Framed'
  BY SmallElements, EmptyStack DEF Framed
<1> QED BY <1>1, <1>4, <1>5, <1>6, <1>7, <1>8 DEF Inv

\* What the frames referred to is not counted as used any more.
LEMMA ExitInv == Inv /\ Exit => Inv'
<1> SUFFICES ASSUME Inv, Exit PROVE Inv'
  OBVIOUS
<1>1. stack \in Seq(Frames) /\ Plain(stack)
  <2>1. CASE ScriptRuns
    BY <2>1, ScriptStack
  <2>2. CASE TopIs({"emit", "marshal"})
    <3>1. stack # <<>> /\ ~Is(Top, Destructs)
      BY <2>2 DEF TopIs, Is, Destructs
    <3> QED BY <3>1, PlainStack, TopOfStack
  <2> QED BY <2>1, <2>2 DEF Exit
<1>2. /\ phase' = "shutdown" /\ stack' = <<>>
      /\ gobject' = [g \in GObjs |-> IF gobject[g] = Null THEN Null
                       ELSE [gobject[g] EXCEPT !.lost = @ + ValuesIn(stack, g)]]
      /\ UNCHANGED <<fault, request, zval, refcount, names, wrapper, closure>>
  BY FramesOfStack DEF Exit
<1>3. \A x : ValuesIn(stack, x) \in Nat /\ HeldIn(stack, x) \in Nat
  BY <1>1, CountsNat
<1>4. \A g \in GObjs :
         /\ gobject[g] = Null => gobject'[g] = Null
         /\ gobject[g] # Null =>
              /\ gobject[g] \in GObject /\ gobject'[g] \in GObject /\ gobject'[g] # Null
              /\ gobject'[g].refs = gobject[g].refs /\ gobject'[g].native = gobject[g].native
              /\ gobject'[g].lost = gobject[g].lost + ValuesIn(stack, g)
  <2> SUFFICES ASSUME NEW g \in GObjs, gobject[g] # Null
               PROVE  /\ gobject[g] \in GObject /\ gobject'[g] \in GObject /\ gobject'[g] # Null
                      /\ gobject'[g].refs = gobject[g].refs
                      /\ gobject'[g].native = gobject[g].native
                      /\ gobject'[g].lost = gobject[g].lost + ValuesIn(stack, g)
    BY <1>2
  <2>1. gobject[g] \in GObject
    BY DEF Inv, TypeOK
  <2>2. gobject'[g] = [gobject[g] EXCEPT !.lost = @ + ValuesIn(stack, g)]
    BY <1>2
  <2>3. /\ gobject'[g] \in GObject
        /\ gobject'[g].refs = gobject[g].refs /\ gobject'[g].native = gobject[g].native
        /\ gobject'[g].lost = gobject[g].lost + ValuesIn(stack, g)
    BY <1>3, <2>1, <2>2 DEF GObject
  <2> QED BY <2>1, <2>3, NullAssumption
<1>5. TypeOK'
  <2>1. gobject' \in [GObjs -> GObject \cup {Null}]
    BY <1>2, <1>4
  <2> QED BY <1>2, <2>1, EmptyStack DEF Inv, TypeOK
<1>6. Counted'
  <2>1. \A x : Params(x)' = Params(x)
    BY <1>2 DEF Params
  <2>2. ASSUME NEW z \in Zvals PROVE refcount'[z] >= UsesIn(stack, z)'
    <3>1. refcount[z] >= names[z] + HeldIn(stack, z) + Cardinality(Params(z))
      BY DEF Inv, Counted, UsesIn
    <3>2. names[z] \in Nat /\ Cardinality(Params(z)) \in Nat /\ refcount[z] \in Nat
      BY ConstantsAssumption, CountsNat DEF Inv, TypeOK
    <3>3. UsesIn(stack, z)' = names[z] + 0 + Cardinality(Params(z))
      BY <1>2, <2>1, HeldEmpty DEF UsesIn
    <3> QED BY <1>2, <1>3, <3>1, <3>2, <3>3
  <2> QED BY <1>2, <2>2 DEF Inv, Counted
<1>7. Idle' /\ Settled'
  BY <1>2 DEF Idle, Settled
<1>8. Owned'
  <2>1. Plain(stack')
    BY <1>2, SmallElements DEF Plain
  <2>2. \A w : GaveUp(stack', w) <=> GaveUp(stack, w)
    BY <1>1, <2>1, PlainFacts
  <2>3. \A g : Owning(stack, g)' = Owning(stack, g)
    BY <1>2, <2>2, OwningKept
  <2> SUFFICES ASSUME NEW g \in GObjs
               PROVE  IF gobject'[g] = Null
                        THEN Owning(stack, g) = {} /\ ValuesIn(stack', g) = 0
                        ELSE gobject'[g].refs =
                               References(gobject'[g], Cardinality(Owning(stack, g)),
                                          ValuesIn(stack', g))
    BY <2>3 DEF Owned
  <2>4. ValuesIn(stack', g) = 0
    BY <1>2, HeldEmpty
  <2>5. CASE gobject[g] = Null
    BY <2>4, <2>5, <1>4 DEF Inv, Owned
  <2>6. CASE gobject[g] # Null
    <3>1. gobject[g].refs =
            References(gobject[g], Cardinality(Owning(stack, g)), ValuesIn(stack, g))
      BY <2>6 DEF Inv, Owned
    <3>2. Cardinality(Owning(stack, g)) \in Nat /\ gobject[g].lost \in Nat
      BY <2>6, <1>4, CountsNat DEF GObject
    <3> QED BY <2>4, <2>6, <3>1, <3>2, <1>3, <1>4 DEF References
  <2> QED BY <2>5, <2>6
<1>9. Listed'
  BY <1>2 DEF Inv, Listed
<1>10. ClosuresWatched'
  <2> SUFFICES ASSUME NEW c \in Closures, closure[c] # Null
               PROVE  gobject'[closure[c].gobject] # Null
    BY <1>2 DEF ClosuresWatched
  <2>1. gobject[closure[c].gobject] # Null /\ closure[c].gobject \in GObjs
    BY DEF Inv, ClosuresWatched, TypeOK, Closure
  <2> QED BY <2>1, <1>4
<1>11. Framed'
  BY <1>2, SmallElements, EmptyStack DEF Framed
<1> QED BY <1>5, <1>6, <1>7, <1>8, <1>9, <1>10, <1>11 DEF Inv

\* PHP frees a wrapper at the end of the request, whatever refers to it.
LEMMA SweepInv == ASSUME NEW w \in Wrappers, Inv, Sweep(w) PROVE Inv'
<1> DEFINE d == UnrefFrame(w)
<1>1. phase = "shutdown" /\ stack = <<>> /\ wrapper[w] # Null /\ stack' = <<d>>
  BY DEF Sweep
<1>2. d \in Frames /\ Is(d, {"unref", "finalize"}) /\ d.at = "unref" /\ d.zobject = w
  BY DEF UnrefFrame, Frames, Is
<1> HIDE DEF d
<1>3. stack' = <<d>> \o <<>> /\ <<>> \in Seq(Frames)
  BY <1>1, <1>2
<1>4. Elements(<<>>) = {} /\ Stacked(<<>>) /\ OnEmit(<<>>)
  BY SmallElements, EmptyStack
<1>5. /\ stack' \in Seq(Frames) /\ Elements(stack') = {d} \cup Elements(<<>>)
      /\ \A x : HeldIn(stack', x) = HeldIn(<<>>, x) /\ ValuesIn(stack', x) = ValuesIn(<<>>, x)
      /\ \A v : GaveUp(stack', v) <=> GaveUp(<<>>, v)
      /\ OnEmit(stack') /\ Stacked(stack')
  BY <1>2, <1>3, <1>4, PushDestruct
<1>6. Live(d)
  BY <1>1, <1>2 DEF Live, Is
<1>7. Follows(stack')
  BY <1>1, <1>4, <1>5, <1>6 DEF Follows
<1>8. \A g : Owning(stack', g) = Owning(stack, g) /\ ValuesIn(stack', g) = ValuesIn(stack, g)
  BY <1>1, <1>5 DEF Owning
<1> QED BY <1>1, <1>7, <1>8, MoveStep DEF Sweep

-----------------------------------------------------------------------------
(* Frames made and changed                                                  *)

\* What a frame refers to.
Uses(f, z) == ThisOf(f, z) + ArgsOf(f, z)
Gives(f, g) == GivenOf(f, g) + RetOf(f, g)

EmitOf(z, gs, cs, ret) ==
    [at |-> "emit", this |-> z, values |-> gs, todo |-> cs, ret |-> ret]

\* ... of a call of emit() or of C code,
LEMMA EmitMakes ==
    ASSUME NEW z \in Zvals \cup {Null}, NEW gs \in Seq(GObjs), NEW cs \in SUBSET Closures,
           NEW ret \in BOOLEAN
    PROVE  LET f == EmitOf(z, gs, cs, ret)
           IN  /\ f \in Frames /\ f.at = "emit" /\ f.values = gs /\ ~Is(f, Destructs)
               /\ \A x : /\ Uses(f, x) = (IF z = x THEN 1 ELSE 0)
                         /\ Gives(f, x) = Count(x, gs) + (IF ret /\ Head(gs) = x THEN 1 ELSE 0)
                         /\ Count(x, gs) \in Nat
<1> DEFINE f == EmitOf(z, gs, cs, ret)
<1>1. f \in Frames /\ f.at = "emit" /\ f.this = z /\ f.values = gs /\ f.ret = ret
  BY DEF EmitOf, Frames
<1> HIDE DEF f
<1>2. ~Is(f, Destructs)
  BY <1>1 DEF Is, Destructs
<1>3. ASSUME NEW y
      PROVE  /\ Count(y, gs) \in Nat
             /\ ThisOf(f, y) = (IF z = y THEN 1 ELSE 0) /\ ArgsOf(f, y) = 0
             /\ GivenOf(f, y) = Count(y, gs)
             /\ RetOf(f, y) = (IF ret /\ Head(gs) = y THEN 1 ELSE 0)
  BY <1>1, CountFacts DEF ThisOf, ArgsOf, GivenOf, RetOf, Is
<1>4. \A x : /\ Uses(f, x) = (IF z = x THEN 1 ELSE 0)
             /\ Gives(f, x) = Count(x, gs) + (IF ret /\ Head(gs) = x THEN 1 ELSE 0)
             /\ Count(x, gs) \in Nat
  BY <1>3 DEF Uses, Gives
<1> QED BY <1>1, <1>2, <1>4 DEF f

\* of a marshaller,
LEMMA MarshalMakes ==
    ASSUME NEW c \in Closures, NEW gs \in Seq(GObjs), NEW args \in Seq(Zvals)
    PROVE  /\ MarshalFrame(c, gs, args) \in Frames /\ MarshalFrame(c, gs, args).values = gs
           /\ MarshalFrame(c, gs, args).closure = c
           /\ \A x : /\ Uses(MarshalFrame(c, gs, args), x) = Count(x, args)
                     /\ Gives(MarshalFrame(c, gs, args), x) = 0
                     /\ Count(x, args) \in Nat
           /\ MarshalFrame(c, gs, args).at = "marshal"
           /\ ~Is(MarshalFrame(c, gs, args), Destructs)
<1> DEFINE f == MarshalFrame(c, gs, args)
<1>1. /\ f \in Frames /\ f.at = "marshal" /\ f.closure = c /\ f.values = gs /\ f.args = args
  BY DEF MarshalFrame, Frames
<1> HIDE DEF f
<1>2. ~Is(f, Destructs)
  BY <1>1 DEF Is, Destructs
<1>3. ASSUME NEW y
      PROVE  /\ Count(y, args) \in Nat
             /\ ThisOf(f, y) = 0 /\ ArgsOf(f, y) = Count(y, args)
             /\ GivenOf(f, y) = 0 /\ RetOf(f, y) = 0
  BY <1>1, CountFacts DEF ThisOf, ArgsOf, GivenOf, RetOf, Is
<1>4. \A x : Uses(f, x) = Count(x, args) /\ Gives(f, x) = 0 /\ Count(x, args) \in Nat
  BY <1>3 DEF Uses, Gives
<1> QED BY <1>1, <1>2, <1>4 DEF f

\* of its arguments afterwards,
LEMMA ReleaseMakes ==
    ASSUME NEW c \in Closures \cup {Null}, NEW args \in Seq(Zvals)
    PROVE  LET f == ReleaseFrame(c, args)
           IN  /\ f \in Frames /\ f.at = "release" /\ ~Is(f, Destructs)
               /\ \A x : /\ Uses(f, x) = Count(x, args) /\ Gives(f, x) = 0
                         /\ Count(x, args) \in Nat
<1> DEFINE f == ReleaseFrame(c, args)
<1>1. f \in Frames /\ f.at = "release" /\ f.args = args
  BY DEF ReleaseFrame, Frames
<1> HIDE DEF f
<1>2. ~Is(f, Destructs)
  BY <1>1 DEF Is, Destructs
<1>3. ASSUME NEW y
      PROVE  /\ Count(y, args) \in Nat
             /\ ThisOf(f, y) = 0 /\ ArgsOf(f, y) = Count(y, args)
             /\ GivenOf(f, y) = 0 /\ RetOf(f, y) = 0
  BY <1>1, CountFacts DEF ThisOf, ArgsOf, GivenOf, RetOf, Is
<1>4. \A x : Uses(f, x) = Count(x, args) /\ Gives(f, x) = 0 /\ Count(x, args) \in Nat
  BY <1>3 DEF Uses, Gives
<1> QED BY <1>1, <1>2, <1>4 DEF f

\* and of GValues that are unset.
LEMMA UnsetMakes ==
    ASSUME NEW z \in Zvals \cup {Null}, NEW gs \in Seq(GObjs)
    PROVE  LET f == UnsetFrame(z, gs)
           IN  /\ f \in Frames /\ f.at = "unset" /\ ~Is(f, Destructs)
               /\ \A x : /\ Uses(f, x) = (IF z = x THEN 1 ELSE 0)
                         /\ Gives(f, x) = Count(x, gs) /\ Count(x, gs) \in Nat
<1> DEFINE f == UnsetFrame(z, gs)
<1>1. /\ f \in Frames /\ f.at = "unset" /\ f.this = z /\ f.values = gs
  BY DEF UnsetFrame, Frames
<1> HIDE DEF f
<1>2. ~Is(f, Destructs)
  BY <1>1 DEF Is, Destructs
<1>3. ASSUME NEW y
      PROVE  /\ Count(y, gs) \in Nat
             /\ ThisOf(f, y) = (IF z = y THEN 1 ELSE 0) /\ ArgsOf(f, y) = 0
             /\ GivenOf(f, y) = Count(y, gs) /\ RetOf(f, y) = 0
  BY <1>1, CountFacts DEF ThisOf, ArgsOf, GivenOf, RetOf, Is
<1>4. \A x : /\ Uses(f, x) = (IF z = x THEN 1 ELSE 0)
             /\ Gives(f, x) = Count(x, gs) /\ Count(x, gs) \in Nat
  BY <1>3 DEF Uses, Gives
<1> QED BY <1>1, <1>2, <1>4 DEF f

\* A frame is what its fields make of it.
LEMMA FrameShapes ==
    ASSUME NEW f \in Frames
    PROVE  /\ f.at = "emit" => f = EmitOf(f.this, f.values, f.todo, f.ret)
           /\ f.at = "marshal" => f = MarshalFrame(f.closure, f.values, f.args)
           /\ f.at = "handler" => f = HandlerFrame(f.closure, f.args)
           /\ f.at = "release" => f = ReleaseFrame(f.closure, f.args)
           /\ f.at = "unset" => f = UnsetFrame(f.this, f.values)
<1>1. f.at = "emit" => f = EmitOf(f.this, f.values, f.todo, f.ret)
  BY FrameFields DEF EmitOf
<1>2. f.at = "marshal" => f = MarshalFrame(f.closure, f.values, f.args)
  BY FrameFields DEF MarshalFrame
<1>3. f.at = "handler" => f = HandlerFrame(f.closure, f.args)
  BY FrameFields DEF HandlerFrame
<1>4. f.at = "release" => f = ReleaseFrame(f.closure, f.args)
  BY FrameFields DEF ReleaseFrame
<1>5. f.at = "unset" => f = UnsetFrame(f.this, f.values)
  BY FrameFields DEF UnsetFrame
<1> QED BY <1>1, <1>2, <1>3, <1>4, <1>5

\* One argument less, ...
LEMMA ReleaseUpdates ==
    ASSUME NEW f \in Frames, f.at = "release", NEW new
    PROVE  [f EXCEPT !.args = new] = ReleaseFrame(f.closure, new)
<1>1. f \in [at : {"handler", "release"}, closure : Closures \cup {Null}, args : Seq(Zvals)]
  BY FrameFields
<1> QED BY <1>1 DEF ReleaseFrame

\* ... one GValue less.
LEMMA UnsetUpdates ==
    ASSUME NEW f \in Frames, f.at = "unset", NEW new
    PROVE  [f EXCEPT !.values = new] = UnsetFrame(f.this, new)
<1>1. f \in [at : {"unset"}, this : Zvals \cup {Null}, values : Seq(GObjs)]
  BY FrameFields
<1> QED BY <1>1 DEF UnsetFrame

\* Emissions and callbacks, in which everything else happens.
Base(s) ==
    /\ s \in Seq(Frames) /\ Stacked(s) /\ OnEmit(s)
    /\ \A b \in Elements(s) : Is(b, {"emit", "handler"})

Pushed(t, a, s) == t = <<a>> \o s

Fits(a, s) == Is(a, {"marshal", "handler"}) => s # <<>> /\ Sits(a, Head(s))

\* A frame without a destruction on a stack of emissions and callbacks.
LEMMA PushFrame ==
    ASSUME NEW s, Base(s), NEW a \in Frames, ~Is(a, Destructs), Fits(a, s),
           NEW t, Pushed(t, a, s)
    PROVE  /\ t \in Seq(Frames) /\ Elements(t) = {a} \cup Elements(s)
           /\ t # <<>> /\ Head(t) = a
           /\ Stacked(t) /\ OnEmit(t) /\ Plain(t) /\ Plain(s)
           /\ \A x : /\ HeldIn(s, x) \in Nat /\ ValuesIn(s, x) \in Nat
                     /\ Uses(a, x) \in Nat /\ Gives(a, x) \in Nat
                     /\ HeldIn(t, x) = HeldIn(s, x) + Uses(a, x)
                     /\ ValuesIn(t, x) = ValuesIn(s, x) + Gives(a, x)
<1> USE DEF Base, Fits, Pushed
<1>1. t \in Seq(Frames) /\ Elements(t) = {a} \cup Elements(s) /\ t # <<>> /\ Head(t) = a
  BY PushFacts
<1>2. \A b \in Elements(s) : ~Is(b, Destructs) /\ ~Is(b, {"marshal"})
  BY DEF Is, Destructs
<1>3. \A b \in Elements(s) : Under(a, b)
  BY <1>2 DEF Under, Twice, Is, Destructs, FreeStorage
<1>4. Stacked(t) /\ OnEmit(t)
  BY <1>3, StackedPush, OnEmitPush
<1>5. Plain(t) /\ Plain(s)
  BY <1>1, <1>2 DEF Plain
<1>6. ASSUME NEW x
      PROVE  /\ HeldIn(s, x) \in Nat /\ ValuesIn(s, x) \in Nat
             /\ Uses(a, x) \in Nat /\ Gives(a, x) \in Nat
             /\ HeldIn(t, x) = HeldIn(s, x) + Uses(a, x)
             /\ ValuesIn(t, x) = ValuesIn(s, x) + Gives(a, x)
  <2>1. /\ ThisOf(a, x) \in Nat /\ ArgsOf(a, x) \in Nat
        /\ GivenOf(a, x) \in Nat /\ RetOf(a, x) \in Nat
    BY FrameHolds
  <2>2. /\ HeldIn(s, x) \in Nat /\ HeldIn(t, x) = HeldIn(s, x) + ThisOf(a, x) + ArgsOf(a, x)
    BY HeldPush
  <2>3. /\ ValuesIn(s, x) \in Nat
        /\ ValuesIn(t, x) = ValuesIn(s, x) + GivenOf(a, x) + RetOf(a, x)
    BY ValuesPush
  <2> QED BY <2>1, <2>2, <2>3 DEF Uses, Gives
<1> QED BY <1>1, <1>4, <1>5, <1>6

\* The innermost call, when it destroys nothing, and those below it.
LEMMA PlainTop ==
    ASSUME Inv, stack # <<>>, ~Is(Top, Destructs)
    PROVE  /\ Top \in Frames /\ Below \in Seq(Frames) /\ Stacked(Below) /\ OnEmit(Below)
           /\ Base(Below) /\ Fits(Top, Below)
           /\ stack \in Seq(Frames) /\ stack = <<Top>> \o Below
           /\ Plain(stack) /\ Plain(Below)
           /\ \A b \in Elements(Below) : /\ Is(b, {"emit", "handler"}) /\ Live(b)
                                         /\ ~Is(b, {"marshal"})
           /\ Live(Top)
           /\ \A x : /\ HeldIn(stack, x) \in Nat /\ ValuesIn(stack, x) \in Nat
                     /\ HeldIn(Below, x) \in Nat /\ ValuesIn(Below, x) \in Nat
                     /\ Uses(Top, x) \in Nat /\ Gives(Top, x) \in Nat
                     /\ HeldIn(stack, x) = HeldIn(Below, x) + Uses(Top, x)
                     /\ ValuesIn(stack, x) = ValuesIn(Below, x) + Gives(Top, x)
<1>1. /\ Top \in Frames /\ Below \in Seq(Frames) /\ Stacked(Below) /\ OnEmit(Below)
      /\ stack \in Seq(Frames) /\ stack = <<Top>> \o Below
      /\ Elements(stack) = {Top} \cup Elements(Below)
      /\ \A f \in Elements(stack) : Live(f)
      /\ Is(Top, {"marshal", "handler"}) => Below # <<>> /\ Sits(Top, Head(Below))
  BY TopOfStack
<1>2. /\ Plain(stack) /\ Plain(Below)
      /\ \A b \in Elements(Below) : Is(b, {"emit", "handler"})
  BY PlainStack
<1>3. \A b \in Elements(Below) : ~Is(b, {"marshal"})
  BY <1>2 DEF Is
<1>4. ASSUME NEW x
      PROVE  /\ HeldIn(stack, x) \in Nat /\ ValuesIn(stack, x) \in Nat
             /\ HeldIn(Below, x) \in Nat /\ ValuesIn(Below, x) \in Nat
             /\ Uses(Top, x) \in Nat /\ Gives(Top, x) \in Nat
             /\ HeldIn(stack, x) = HeldIn(Below, x) + Uses(Top, x)
             /\ ValuesIn(stack, x) = ValuesIn(Below, x) + Gives(Top, x)
  <2>1. /\ ThisOf(Top, x) \in Nat /\ ArgsOf(Top, x) \in Nat
        /\ GivenOf(Top, x) \in Nat /\ RetOf(Top, x) \in Nat
    BY <1>1, FrameHolds
  <2>2. /\ HeldIn(Below, x) \in Nat /\ ValuesIn(Below, x) \in Nat
        /\ HeldIn(stack, x) = HeldIn(Below, x) + ThisOf(Top, x) + ArgsOf(Top, x)
        /\ ValuesIn(stack, x) = ValuesIn(Below, x) + GivenOf(Top, x) + RetOf(Top, x)
    BY <1>1, TopOfStack, CountsNat
  <2> QED BY <2>1, <2>2 DEF Uses, Gives
<1> QED BY <1>1, <1>2, <1>3, <1>4 DEF Base, Fits

-----------------------------------------------------------------------------
(* What is given up                                                         *)

\* A stack without a destruction may be where one begins.
LEMMA PlainReplaces ==
    ASSUME Inv, Plain(stack), NEW s \in Seq(Frames), Stacked(s), OnEmit(s), Plain(s),
           \A b \in Elements(s) : ~Is(b, {"marshal"})
    PROVE  Replaces(s)
BY PlainFacts DEF Replaces

\* A variable goes, and with the last the wrapper.
LEMMA DropVarInv == ASSUME NEW z \in Zvals, Inv, DropVar(z) PROVE Inv'
<1>1. /\ names[z] > 0 /\ names' = [names EXCEPT ![z] = @ - 1]
      /\ ZvalPtrDtor(z, stack)
      /\ UNCHANGED <<phase, fault, request, wrapper, gobject, closure>>
      /\ phase \in {"active", "shutdown"}
  BY DEF DropVar, ScriptRuns
<1>2. stack \in Seq(Frames) /\ Stacked(stack) /\ OnEmit(stack) /\ \A f \in Elements(stack) : Live(f)
  BY DEF Inv, TypeOK, Framed
<1>3. Plain(stack) /\ \A b \in Elements(stack) : ~Is(b, {"marshal"})
  <2>1. CASE ScriptRuns
    BY <2>1, ScriptStack DEF Is
  <2>2. CASE stack = <<>>
    BY <2>2, SmallElements DEF Plain
  <2> QED BY <2>1, <2>2 DEF DropVar
<1>4. Replaces(stack)
  BY <1>2, <1>3, PlainReplaces
<1>5. names \in [Zvals -> 0 .. MaxVars] /\ MaxVars \in Nat
  BY ConstantsAssumption DEF Inv, TypeOK
<1>6. names' \in [Zvals -> 0 .. MaxVars]
  BY <1>1, <1>5
<1>7. \A x \in Zvals : names'[x] + HeldIn(stack, x)
                         = names[x] + HeldIn(stack, x) - (IF x = z THEN 1 ELSE 0)
  <2> TAKE x \in Zvals
  <2>1. names'[x] = names[x] - (IF x = z THEN 1 ELSE 0) /\ names[x] \in Nat
    BY <1>1, <1>5
  <2>2. HeldIn(stack, x) \in Nat
    BY <1>2, CountsNat
  <2> QED BY <2>1, <2>2
<1> QED BY <1>1, <1>2, <1>4, <1>6, <1>7, DtorStep

\* An argument or $this is given up, then the handler that was disconnected.
LEMMA ReleaseArgumentInv ==
    ASSUME Inv, phase \in {"active", "shutdown"}, ReleaseArgument PROVE Inv'
<1> DEFINE c == Top.closure
           args == Top.args
<1>1. stack # <<>> /\ Top.at = "release" /\ ~Is(Top, Destructs)
  BY DEF ReleaseArgument, TopIs, Is, Destructs
<1>2. /\ Top \in Frames /\ Below \in Seq(Frames) /\ Stacked(Below) /\ OnEmit(Below)
      /\ Base(Below) /\ Plain(stack) /\ Plain(Below)
      /\ \A b \in Elements(Below) : Is(b, {"emit", "handler"}) /\ Live(b) /\ ~Is(b, {"marshal"})
      /\ \A x : /\ HeldIn(stack, x) \in Nat /\ ValuesIn(stack, x) \in Nat
                /\ HeldIn(Below, x) \in Nat /\ ValuesIn(Below, x) \in Nat
                /\ HeldIn(stack, x) = HeldIn(Below, x) + Uses(Top, x)
                /\ ValuesIn(stack, x) = ValuesIn(Below, x) + Gives(Top, x)
  BY <1>1, PlainTop
<1>3. /\ c \in Closures \cup {Null} /\ args \in Seq(Zvals) /\ Top = ReleaseFrame(c, args)
      /\ c = Top.closure /\ args = Top.args
  BY <1>1, <1>2, FrameFields, FrameShapes
<1> HIDE DEF c, args
<1>4. \A x : Uses(Top, x) = Count(x, args) /\ Gives(Top, x) = 0 /\ Count(x, args) \in Nat
  BY <1>3, ReleaseMakes
<1>5. CASE args # <<>>
  <2> DEFINE z == Head(args)
             a == ReleaseFrame(c, Tail(args))
             t == <<a>> \o Below
  <2>1. /\ z \in Zvals /\ Tail(args) \in Seq(Zvals) /\ args = <<z>> \o Tail(args)
        /\ z = Head(Top.args)
    BY <1>3, <1>5, TopFacts
  <2>2. [Top EXCEPT !.args = Tail(@)] = a
    <3> DEFINE new == Tail(Top.args)
    <3>1. new = Tail(args)
      BY <1>3
    <3> HIDE DEF new
    <3>2. [Top EXCEPT !.args = new] = ReleaseFrame(c, new)
      BY <1>1, <1>2, <1>3, ReleaseUpdates
    <3> QED BY <3>1, <3>2 DEF new
  <2>3. /\ a \in Frames /\ a.at = "release" /\ ~Is(a, Destructs)
        /\ \A x : Uses(a, x) = Count(x, Tail(args)) /\ Gives(a, x) = 0
                    /\ Count(x, Tail(args)) \in Nat
    <3> DEFINE rest == Tail(args)
    <3> HIDE DEF rest
    <3>1. c \in Closures \cup {Null} /\ rest \in Seq(Zvals)
      BY <1>3, <2>1 DEF rest
    <3> QED BY <3>1, ReleaseMakes DEF rest
  <2>4. \A x : Count(x, args) = Count(x, Tail(args)) + (IF z = x THEN 1 ELSE 0)
    <3> DEFINE rest == Tail(args)
    <3> HIDE DEF z, rest
    <3>1. z \in Zvals /\ rest \in Seq(Zvals) /\ args = <<z>> \o rest
      BY <2>1 DEF rest
    <3>2. \A x : Count(x, <<z>> \o rest) = Count(x, rest) + (IF z = x THEN 1 ELSE 0)
      BY <3>1, CountPush
    <3> QED BY <3>1, <3>2 DEF rest
  <2>5. ZvalPtrDtor(z, t) /\ UNCHANGED <<phase, fault, request, names, wrapper, gobject, closure>>
    BY <1>3, <1>5, <2>2 DEF ReleaseArgument
  <2> HIDE DEF a, t
  <2>6. Fits(a, Below) /\ ~Is(a, {"marshal"})
    BY <2>3 DEF Fits, Is
  <2>7. /\ t \in Seq(Frames) /\ Elements(t) = {a} \cup Elements(Below)
        /\ Stacked(t) /\ OnEmit(t) /\ Plain(t)
        /\ \A x : HeldIn(t, x) = HeldIn(Below, x) + Uses(a, x)
                    /\ ValuesIn(t, x) = ValuesIn(Below, x) + Gives(a, x)
    <3>1. Pushed(t, a, Below)
      BY DEF t, Pushed
    <3>2. Base(Below) /\ Fits(a, Below) /\ a \in Frames /\ ~Is(a, Destructs)
      BY <1>2, <2>3, <2>6
    <3> QED BY <3>1, <3>2, PushFrame
  <2>8. Replaces(t)
    BY <1>2, <2>6, <2>7, PlainReplaces
  <2>9. \A f \in Elements(t) : Live(f)
    BY <1>2, <2>3, <2>7 DEF Live, Is, FreeStorage
  <2>10. \A x : ValuesIn(t, x) = ValuesIn(stack, x)
    BY <1>2, <1>4, <2>3, <2>7
  <2>11. \A x \in Zvals : names'[x] + HeldIn(t, x)
                            = names[x] + HeldIn(stack, x) - (IF x = z THEN 1 ELSE 0)
    <3> TAKE x \in Zvals
    <3>1. HeldIn(t, x) = HeldIn(stack, x) - (IF x = z THEN 1 ELSE 0)
      BY <1>2, <1>4, <2>3, <2>4, <2>7
    <3>2. names'[x] = names[x] /\ names[x] \in Nat /\ HeldIn(stack, x) \in Nat
      BY <2>5, <1>2, ConstantsAssumption DEF Inv, TypeOK
    <3> QED BY <3>1, <3>2
  <2>12. names' \in [Zvals -> 0 .. MaxVars]
    BY <2>5 DEF Inv, TypeOK
  <2> QED BY <2>1, <2>5, <2>8, <2>9, <2>10, <2>11, <2>12, DtorStep
<1>6. CASE args = <<>>
  <2>1. \A x : HeldIn(Below, x) = HeldIn(stack, x) /\ ValuesIn(Below, x) = ValuesIn(stack, x)
    BY <1>2, <1>4, <1>6, CountEmpty
  <2>2. CASE c # Null /\ closure[c] # Null /\ Invalidate(c, Below)
    <3>1. Replaces(Below)
      BY <1>2, PlainReplaces
    <3>2. c \in Closures
      BY <2>2, <1>3
    <3>3. \A f \in Elements(Below) : Live(f)
      BY <1>2
    <3> QED BY <2>1, <2>2, <3>1, <3>2, <3>3, InvalidateStep
  <2>3. CASE /\ stack' = Below
             /\ UNCHANGED <<phase, fault, request, zval, refcount, names, wrapper,
                            gobject, closure>>
    <3>1. \A g \in GObjs : Owning(Below, g) = Owning(stack, g)
      BY <1>2, PlainFacts
    <3>2. \A w : ~FreeingIn(Below, w)
      BY <1>2, PlainFacts
    <3>3. Follows(Below)
      BY <1>2, <2>1, <3>2 DEF Follows
    <3>4. phase # "idle"
      OBVIOUS
    <3> QED BY <2>1, <2>3, <3>1, <3>3, <3>4, MoveStep
  <2> QED BY <1>3, <1>6, <2>2, <2>3 DEF ReleaseArgument
<1> QED BY <1>5, <1>6

\* g_value_unset of an emission that is over.
LEMMA UnsetValueInv == ASSUME Inv, phase # "idle", UnsetValue PROVE Inv'
<1> DEFINE z == Top.this
           gs == Top.values
<1>1. stack # <<>> /\ Top.at = "unset" /\ ~Is(Top, Destructs)
  BY DEF UnsetValue, TopIs, Is, Destructs
<1>2. /\ Top \in Frames /\ Below \in Seq(Frames) /\ Stacked(Below) /\ OnEmit(Below)
      /\ Base(Below) /\ Plain(stack) /\ Plain(Below)
      /\ \A b \in Elements(Below) : Is(b, {"emit", "handler"}) /\ Live(b) /\ ~Is(b, {"marshal"})
      /\ \A x : /\ HeldIn(stack, x) \in Nat /\ ValuesIn(stack, x) \in Nat
                /\ HeldIn(Below, x) \in Nat /\ ValuesIn(Below, x) \in Nat
                /\ HeldIn(stack, x) = HeldIn(Below, x) + Uses(Top, x)
                /\ ValuesIn(stack, x) = ValuesIn(Below, x) + Gives(Top, x)
  BY <1>1, PlainTop
<1>3. /\ z \in Zvals \cup {Null} /\ gs \in Seq(GObjs) /\ Top = UnsetFrame(z, gs)
      /\ z = Top.this /\ gs = Top.values
  BY <1>1, <1>2, FrameFields, FrameShapes
<1> HIDE DEF z, gs
<1>4. \A x : /\ Uses(Top, x) = (IF z = x THEN 1 ELSE 0)
             /\ Gives(Top, x) = Count(x, gs) /\ Count(x, gs) \in Nat
  <2>1. z \in Zvals \cup {Null} /\ gs \in Seq(GObjs)
    BY <1>3
  <2> QED BY <2>1, <1>3, UnsetMakes
<1>5. CASE gs # <<>>
  <2> DEFINE g == Head(gs)
             a == UnsetFrame(z, Tail(gs))
             t == <<a>> \o Below
             obj == [gobject[g] EXCEPT !.refs = @ - 1]
  <2>1. g \in GObjs /\ Tail(gs) \in Seq(GObjs) /\ gs = <<g>> \o Tail(gs)
    BY <1>3, <1>5, TopFacts
  <2>2. [Top EXCEPT !.values = Tail(@)] = a
    <3> DEFINE new == Tail(Top.values)
    <3>1. new = Tail(gs)
      BY <1>3
    <3> HIDE DEF new
    <3>2. [Top EXCEPT !.values = new] = UnsetFrame(z, new)
      BY <1>1, <1>2, <1>3, UnsetUpdates
    <3> QED BY <3>1, <3>2 DEF new
  <2>3. /\ a \in Frames /\ a.at = "unset" /\ ~Is(a, Destructs)
        /\ \A x : /\ Uses(a, x) = (IF z = x THEN 1 ELSE 0)
                  /\ Gives(a, x) = Count(x, Tail(gs)) /\ Count(x, Tail(gs)) \in Nat
    BY <1>3, <2>1, UnsetMakes
  <2>4. \A x : Count(x, gs) = Count(x, Tail(gs)) + (IF g = x THEN 1 ELSE 0)
    <3> DEFINE rest == Tail(gs)
    <3> HIDE DEF g, rest
    <3>1. g \in GObjs /\ rest \in Seq(GObjs) /\ gs = <<g>> \o rest
      BY <2>1 DEF rest
    <3>2. \A x : Count(x, <<g>> \o rest) = Count(x, rest) + (IF g = x THEN 1 ELSE 0)
      BY <3>1, CountPush
    <3> QED BY <3>1, <3>2 DEF rest
  <2>5. /\ gobject' = [gobject EXCEPT ![g] = obj] /\ stack' = AfterUnref(g, t)
        /\ UNCHANGED <<phase, fault, request, zval, refcount, names, wrapper, closure>>
    BY <1>3, <1>5, <2>2 DEF UnsetValue
  <2> HIDE DEF a, t
  <2>6. Fits(a, Below) /\ ~Is(a, {"marshal"})
    BY <2>3 DEF Fits, Is
  <2>7. /\ t \in Seq(Frames) /\ Elements(t) = {a} \cup Elements(Below)
        /\ Stacked(t) /\ OnEmit(t) /\ Plain(t)
        /\ \A x : HeldIn(t, x) = HeldIn(Below, x) + Uses(a, x)
                    /\ ValuesIn(t, x) = ValuesIn(Below, x) + Gives(a, x)
    <3>1. Pushed(t, a, Below)
      BY DEF t, Pushed
    <3>2. Base(Below) /\ Fits(a, Below) /\ a \in Frames /\ ~Is(a, Destructs)
      BY <1>2, <2>3, <2>6
    <3> QED BY <3>1, <3>2, PushFrame
  <2>8. /\ \A x : HeldIn(t, x) = HeldIn(stack, x)
        /\ \A x : ValuesIn(t, x) = ValuesIn(stack, x) - (IF g = x THEN 1 ELSE 0)
    <3> HIDE DEF g
    <3> QED BY <1>2, <1>4, <2>3, <2>4, <2>7
  <2>9. Follows(t) /\ \A f \in Elements(t) : ~Is(f, {"marshal"})
    <3>1. Live(a)
      BY <2>3 DEF Live, Is, FreeStorage
    <3>2. \A w : ~FreeingIn(t, w)
      BY <2>7, PlainFacts
    <3> QED BY <1>2, <2>6, <2>7, <2>8, <3>1, <3>2 DEF Follows
  <2>10. \A x : Owning(t, x) = Owning(stack, x)
    BY <1>2, <2>7, PlainFacts
  <2>11. ValuesIn(stack, g) \in Nat \ {0}
    BY <1>2, <1>4, <2>3, <2>4
  <2>12. gobject[g] # Null /\ gobject[g] \in GObject
    <3>1. gobject[g] # Null
      BY <2>1, <2>11 DEF Inv, Owned
    <3> QED BY <2>1, <3>1 DEF Inv, TypeOK
  <2>13. /\ Cardinality(Owning(stack, g)) \in Nat /\ gobject[g].lost \in Nat
         /\ gobject[g].refs \in Nat
         /\ gobject[g].refs =
              References(gobject[g], Cardinality(Owning(stack, g)), ValuesIn(stack, g))
    BY <2>1, <2>12, CountsNat DEF Inv, Owned, GObject
  <2>14. gobject[g].refs \in Nat \ {0}
    BY <2>11, <2>13 DEF References
  <2>15. /\ obj \in GObject /\ obj.refs = gobject[g].refs - 1
         /\ obj.lost = gobject[g].lost /\ obj.native = gobject[g].native
    BY <2>12, <2>14 DEF GObject
  <2> HIDE DEF obj, g
  <2>16. obj.refs = References(obj, Cardinality(Owning(t, g)), ValuesIn(t, g))
    <3>1. ValuesIn(t, g) = ValuesIn(stack, g) - 1
      BY <2>8
    <3> QED BY <3>1, <2>10, <2>11, <2>13, <2>15 DEF References
  <2>17. \A x \in GObjs \ {g} : /\ Owning(t, x) = Owning(stack, x)
                               /\ ValuesIn(t, x) = ValuesIn(stack, x)
    BY <1>2, <2>8, <2>10
  <2>18. gobject[g].refs # 0
    BY <2>14
  <2> QED BY <2>1, <2>5, <2>9, <2>12, <2>15, <2>16, <2>17, <2>18, UnrefStep
<1>6. CASE gs = <<>>
  <2> DEFINE this == IF z = Null THEN <<>> ELSE <<z>>
             a == ReleaseFrame(Null, this)
             t == <<a>> \o Below
  <2>1. /\ stack' = t
        /\ UNCHANGED <<phase, fault, request, zval, refcount, names, wrapper, gobject, closure>>
    BY <1>3, <1>6 DEF UnsetValue
  <2>2. this \in Seq(Zvals) /\ \A x : Count(x, this) = (IF z = x /\ x # Null THEN 1 ELSE 0)
    <3>1. CASE z = Null
      BY <3>1, CountEmpty
    <3>2. CASE z # Null
      <4>1. z \in Zvals /\ <<>> \in Seq(Zvals) /\ this = <<z>> \o <<>>
        BY <3>2, <1>3
      <4>2. \A x : Count(x, <<z>> \o <<>>) = Count(x, <<>>) + (IF z = x THEN 1 ELSE 0)
        BY <4>1, CountPush
      <4> QED BY <3>2, <4>1, <4>2, CountEmpty
    <3> QED BY <3>1, <3>2
  <2>3. /\ a \in Frames /\ a.at = "release" /\ ~Is(a, Destructs)
        /\ \A x : Uses(a, x) = Count(x, this) /\ Gives(a, x) = 0 /\ Count(x, this) \in Nat
    <3>1. this \in Seq(Zvals)
      BY <2>2
    <3> HIDE DEF this
    <3> QED BY <3>1, ReleaseMakes
  <2> HIDE DEF a, this, t
  <2>4. Fits(a, Below)
    BY <2>3 DEF Fits, Is
  <2>5. /\ t \in Seq(Frames) /\ Elements(t) = {a} \cup Elements(Below)
        /\ Stacked(t) /\ OnEmit(t) /\ Plain(t)
        /\ \A x : HeldIn(t, x) = HeldIn(Below, x) + Uses(a, x)
                    /\ ValuesIn(t, x) = ValuesIn(Below, x) + Gives(a, x)
    <3>1. Pushed(t, a, Below)
      BY DEF t, Pushed
    <3>2. Base(Below) /\ Fits(a, Below) /\ a \in Frames /\ ~Is(a, Destructs)
      BY <1>2, <2>3, <2>4
    <3> QED BY <3>1, <3>2, PushFrame
  <2>6. \A x : ValuesIn(t, x) = ValuesIn(stack, x)
    BY <1>2, <1>4, <1>6, <2>3, <2>5, CountEmpty
  <2>7. \A x \in Zvals : HeldIn(t, x) = HeldIn(stack, x)
    <3> TAKE x \in Zvals
    <3>1. x # Null
      BY ConstantsAssumption
    <3> QED BY <3>1, <1>2, <1>4, <2>2, <2>3, <2>5
  <2>8. Follows(t)
    <3>1. Live(a)
      BY <2>3 DEF Live, Is, FreeStorage
    <3>2. \A w : ~FreeingIn(t, w)
      BY <2>5, PlainFacts
    <3> QED BY <1>2, <2>5, <2>7, <3>1, <3>2 DEF Follows
  <2>9. \A g \in GObjs : Owning(t, g) = Owning(stack, g)
    BY <1>2, <2>5, PlainFacts
  <2> QED BY <2>1, <2>6, <2>8, <2>9, MoveStep
<1> QED BY <1>5, <1>6

\* What another count makes of a GObject.
LEMMA GObjectUpdates ==
    ASSUME NEW o \in GObject, NEW n \in Nat, NEW b \in BOOLEAN
    PROVE  LET p == [o EXCEPT !.refs = n, !.native = b]
           IN  p \in GObject /\ p.refs = n /\ p.native = b /\ p.lost = o.lost
<1> DEFINE q == [o EXCEPT !.refs = n]
<1>1. q \in GObject /\ q.refs = n /\ q.native = o.native /\ q.lost = o.lost
  BY DEF GObject
<1>2. [o EXCEPT !.refs = n, !.native = b] = [q EXCEPT !.native = b]
  OBVIOUS
<1> HIDE DEF q
<1> QED BY <1>1, <1>2 DEF GObject

\* C code gives up a GObject.
LEMMA NativeUnrefInv == ASSUME NEW g \in GObjs, Inv, NativeUnref(g) PROVE Inv'
<1> DEFINE obj == [gobject[g] EXCEPT !.refs = @ - 1, !.native = FALSE]
<1>1. /\ ScriptRuns /\ gobject[g] # Null /\ gobject[g].native
      /\ stack' = AfterUnref(g, stack)
      /\ UNCHANGED <<phase, fault, request, zval, refcount, names, wrapper, closure>>
  BY DEF NativeUnref
<1>2. /\ phase = "active" /\ stack \in Seq(Frames) /\ Plain(stack)
      /\ \A f \in Elements(stack) : ~Is(f, {"marshal"})
  BY <1>1, ScriptStack DEF Is
<1>3. gobject \in [GObjs -> GObject \cup {Null}] /\ gobject[g] \in GObject
  BY <1>1 DEF Inv, TypeOK
<1>4. /\ Cardinality(Owning(stack, g)) \in Nat /\ gobject[g].lost \in Nat
      /\ gobject[g].refs \in Nat /\ ValuesIn(stack, g) \in Nat
      /\ gobject[g].refs =
           References(gobject[g], Cardinality(Owning(stack, g)), ValuesIn(stack, g))
  BY <1>1, <1>2, <1>3, CountsNat DEF Inv, Owned, GObject
<1>5. gobject[g].refs # 0
  BY <1>1, <1>4 DEF References
<1>6. /\ obj \in GObject /\ obj.refs = gobject[g].refs - 1
      /\ obj.lost = gobject[g].lost /\ obj.native = FALSE
  <2> DEFINE n == gobject[g].refs - 1
             o == gobject[g]
             p == [o EXCEPT !.refs = n, !.native = FALSE]
  <2>1. n \in Nat /\ o \in GObject /\ FALSE \in BOOLEAN
    BY <1>3, <1>4, <1>5
  <2> HIDE DEF n, o
  <2>2. p \in GObject /\ p.refs = n /\ p.native = FALSE /\ p.lost = o.lost
    BY <2>1, GObjectUpdates
  <2>3. obj = p
    BY DEF n, o
  <2> HIDE DEF p, obj
  <2> QED BY <2>2, <2>3 DEF n, o
<1>7. gobject' = [gobject EXCEPT ![g] = obj]
  BY <1>3 DEF NativeUnref
<1> HIDE DEF obj
<1>8. obj.refs = References(obj, Cardinality(Owning(stack, g)), ValuesIn(stack, g))
  BY <1>1, <1>4, <1>6 DEF References
<1>9. Follows(stack)
  BY <1>2 DEF Follows, Inv, Framed
<1>10. phase # "idle"
  BY <1>2
<1> QED BY <1>1, <1>2, <1>5, <1>6, <1>7, <1>8, <1>9, <1>10, UnrefStep

\* A destruction goes on to its next part.
LEMMA NextPart ==
    ASSUME Inv, stack # <<>>, Is(Top, FreeStorage),
           NEW a \in Frames, Is(a, {"list", "loop"}), a.zobject = Top.zobject,
           NEW t, Pushed(t, a, Below)
    PROVE  /\ t \in Seq(Frames) /\ Elements(t) = {a} \cup Elements(Below)
           /\ Stacked(t) /\ OnEmit(t)
           /\ \A b \in Elements(t) : ~Is(b, {"marshal"})
           /\ \A b \in Elements(Below) : /\ Live(b) /\ ~Twice(Top, b)
           /\ \A x : HeldIn(t, x) = HeldIn(stack, x) /\ ValuesIn(t, x) = ValuesIn(stack, x)
           /\ \A w : /\ FreeingIn(t, w) <=> FreeingIn(stack, w)
                     /\ GaveUp(t, w) <=> GaveUp(stack, w) \/ w = Top.zobject
<1>1. /\ Top \in Frames /\ Below \in Seq(Frames) /\ Stacked(Below) /\ OnEmit(Below)
      /\ Elements(stack) = {Top} \cup Elements(Below) /\ Elements(Below) \subseteq Frames
      /\ \A b \in Elements(Below) : Under(Top, b)
      /\ \A f \in Elements(stack) : Live(f)
      /\ \A x : HeldIn(stack, x) = HeldIn(Below, x) + ThisOf(Top, x) + ArgsOf(Top, x)
      /\ \A x : ValuesIn(stack, x) = ValuesIn(Below, x) + GivenOf(Top, x) + RetOf(Top, x)
  BY TopOfStack
<1>2. /\ t = <<a>> \o Below /\ t \in Seq(Frames)
      /\ Elements(t) = {a} \cup Elements(Below)
  BY <1>1, PushFacts DEF Pushed
<1>3. \A b \in Elements(Below) : ~Is(b, {"marshal"}) /\ ~Twice(Top, b)
  BY <1>1 DEF Under
<1>4. Is(a, Destructs) /\ Is(a, FreeStorage) /\ ~Is(a, {"marshal", "handler"})
      /\ ~Is(a, {"marshal"}) /\ ~Is(a, {"finalize"})
  BY DEF Is, Destructs, FreeStorage
<1>5. \A b \in Elements(Below) : Under(a, b)
  BY <1>3, <1>4 DEF Under, Twice
<1>6. Stacked(t) /\ OnEmit(t)
  BY <1>1, <1>2, <1>4, <1>5, StackedPush, OnEmitPush
<1>7. ASSUME NEW x PROVE HeldIn(t, x) = HeldIn(stack, x) /\ ValuesIn(t, x) = ValuesIn(stack, x)
  <2>1. /\ ThisOf(a, x) = 0 /\ ArgsOf(a, x) = 0 /\ GivenOf(a, x) = 0 /\ RetOf(a, x) = 0
        /\ ThisOf(Top, x) = 0 /\ ArgsOf(Top, x) = 0
        /\ GivenOf(Top, x) = 0 /\ RetOf(Top, x) = 0
    BY DEF Is, ThisOf, ArgsOf, GivenOf, RetOf, FreeStorage
  <2>2. /\ HeldIn(t, x) = HeldIn(Below, x) + ThisOf(a, x) + ArgsOf(a, x)
        /\ ValuesIn(t, x) = ValuesIn(Below, x) + GivenOf(a, x) + RetOf(a, x)
    BY <1>1, <1>2, HeldPush, ValuesPush
  <2> QED BY <1>1, <2>1, <2>2
<1>8. \A w : FreeingIn(t, w) <=> FreeingIn(stack, w)
  BY <1>1, <1>2, <1>4 DEF FreeingIn
<1>9. ASSUME NEW w PROVE GaveUp(t, w) <=> GaveUp(stack, w) \/ w = Top.zobject
  BY <1>1, <1>2 DEF GaveUp
<1> QED BY <1>1, <1>2, <1>3, <1>4, <1>6, <1>7, <1>8, <1>9

\* free_storage gives up the GObject.
LEMMA FreeGObjectInv == ASSUME Inv, phase # "idle", FreeGObject PROVE Inv'
<1> DEFINE w == Top.zobject
           g == wrapper[w].gobject
           a == ListFrame(w)
           t == <<a>> \o Below
<1>1. stack # <<>> /\ Top.at = "unref" /\ Is(Top, FreeStorage) /\ Is(Top, {"unref"})
  BY DEF FreeGObject, TopIs, Is, FreeStorage
<1>2. Top \in Frames /\ Top \in Elements(stack) /\ Live(Top) /\ w \in Wrappers
  BY <1>1, TopOfStack, FrameFields
<1>3. wrapper[w] # Null /\ wrapper[w] \in Wrapper /\ g \in GObjs \cup {Null}
  <2>1. wrapper[w] # Null
    BY <1>1, <1>2 DEF Live
  <2>2. wrapper[w] \in Wrapper
    BY <2>1, <1>2 DEF Inv, TypeOK
  <2> QED BY <2>1, <2>2 DEF Wrapper
<1>4. a \in Frames /\ a.at = "list" /\ a.zobject = w /\ Is(a, {"list", "loop"})
  BY <1>2 DEF ListFrame, Frames, Is
<1>5. Pushed(t, a, Below) /\ ClosuresNext(w) \o Below = t
  BY DEF Pushed, ClosuresNext
<1>6. /\ UNCHANGED <<phase, fault, request, zval, refcount, names, wrapper, closure>>
      /\ g = Null => stack' = t /\ gobject' = gobject
      /\ g # Null => /\ gobject' = [DataCleared(g) EXCEPT ![g].refs = @ - 1]
                     /\ stack' = AfterUnref(g, t)
  BY <1>5 DEF FreeGObject
<1> HIDE DEF a, t
<1>7. /\ t \in Seq(Frames) /\ Elements(t) = {a} \cup Elements(Below)
      /\ Stacked(t) /\ OnEmit(t)
      /\ \A b \in Elements(t) : ~Is(b, {"marshal"})
      /\ \A b \in Elements(Below) : Live(b) /\ ~Twice(Top, b)
      /\ \A x : HeldIn(t, x) = HeldIn(stack, x) /\ ValuesIn(t, x) = ValuesIn(stack, x)
      /\ \A v : /\ FreeingIn(t, v) <=> FreeingIn(stack, v)
                /\ GaveUp(t, v) <=> GaveUp(stack, v) \/ v = w
  BY <1>1, <1>4, <1>5, NextPart
<1>8. Follows(t)
  <2>1. Live(a)
    BY <1>3, <1>4 DEF Live, Is, FreeStorage
  <2> QED BY <1>7, <2>1 DEF Follows
<1>9. \A x : Owning(t, x) = Owning(stack, x) \ {w}
  BY <1>7 DEF Owning
<1>10. \A x \in GObjs \ {g} : Owning(t, x) = Owning(stack, x)
  BY <1>9 DEF Owning
<1>11. CASE g = Null
  <2>1. \A x \in GObjs : Owning(t, x) = Owning(stack, x)
    BY <1>10, <1>11, ConstantsAssumption
  <2> QED BY <2>1, <1>6, <1>7, <1>8, <1>11, MoveStep
<1>12. CASE g # Null
  <2> DEFINE obj == [gobject[g] EXCEPT !.data = Null, !.refs = @ - 1]
  <2>1. g \in GObjs
    BY <1>3, <1>12
  <2>2. ~GaveUp(stack, w)
    <3>1. \A b \in Elements(Below) : ~(Is(b, {"list", "loop"}) /\ b.zobject = w)
      BY <1>1, <1>7 DEF Twice, Is, FreeStorage
    <3>2. ~Is(Top, {"list", "loop"}) /\ Elements(stack) = {Top} \cup Elements(Below)
      BY <1>1, TopOfStack DEF Is
    <3> QED BY <3>1, <3>2 DEF GaveUp
  <2>3. w \in Owning(stack, g)
    BY <1>2, <1>3, <2>2 DEF Owning
  <2>4. /\ Cardinality(Owning(t, g)) \in Nat
        /\ Cardinality(Owning(stack, g)) = Cardinality(Owning(t, g)) + 1
    <3>1. IsFiniteSet(Owning(stack, g)) /\ Cardinality(Owning(stack, g)) \in Nat
      BY CountsNat
    <3>2. Cardinality(Owning(stack, g) \ {w}) = Cardinality(Owning(stack, g)) - 1
      BY <2>3, <3>1, FS_RemoveElement
    <3>3. Cardinality(Owning(t, g)) \in Nat
      BY CountsNat
    <3> QED BY <3>1, <3>2, <3>3, <1>9
  <2>5. gobject[g] # Null /\ gobject[g] \in GObject
    <3>1. gobject[g] # Null
      BY <2>1, <2>3 DEF Inv, Owned
    <3> QED BY <2>1, <3>1 DEF Inv, TypeOK
  <2>6. /\ gobject[g].lost \in Nat /\ gobject[g].refs \in Nat
        /\ gobject[g].native \in BOOLEAN
        /\ ValuesIn(stack, g) \in Nat
        /\ gobject[g].refs =
             References(gobject[g], Cardinality(Owning(stack, g)), ValuesIn(stack, g))
    BY <2>1, <2>5, CountsNat DEF Inv, TypeOK, Owned, GObject
  <2>7. gobject[g].refs # 0
    BY <2>4, <2>6 DEF References
  <2>8. /\ obj \in GObject /\ obj.refs = gobject[g].refs - 1
        /\ obj.lost = gobject[g].lost /\ obj.native = gobject[g].native
    <3> DEFINE n == gobject[g].refs - 1
               o == gobject[g]
               p == [o EXCEPT !.data = Null, !.refs = n]
    <3>1. n \in Nat /\ o \in GObject
      BY <2>5, <2>6, <2>7
    <3> HIDE DEF n, o
    <3>2. p \in GObject /\ p.refs = n /\ p.native = o.native /\ p.lost = o.lost
      <4> DEFINE e == [o EXCEPT !.data = Null]
      <4>1. e \in GObject /\ e.native = o.native /\ e.lost = o.lost
        BY <3>1 DEF GObject
      <4>2. p = [e EXCEPT !.refs = n]
        OBVIOUS
      <4> HIDE DEF e, p
      <4> QED BY <3>1, <4>1, <4>2 DEF GObject
    <3>3. obj = p
      BY DEF n, o
    <3> HIDE DEF p, obj
    <3> QED BY <3>2, <3>3 DEF n, o
  <2>9. gobject' = [gobject EXCEPT ![g] = obj]
    <3>1. gobject \in [GObjs -> GObject \cup {Null}]
      BY DEF Inv, TypeOK
    <3> QED BY <1>6, <1>12, <2>1, <2>5, <3>1 DEF DataCleared, GObject
  <2>10. stack' = AfterUnref(g, t)
    BY <1>6, <1>12
  <2> HIDE DEF obj, g
  <2>11. obj.refs = References(obj, Cardinality(Owning(t, g)), ValuesIn(t, g))
    <3>1. ValuesIn(t, g) = ValuesIn(stack, g)
      BY <1>7
    <3> QED BY <3>1, <2>4, <2>6, <2>8 DEF References
  <2>12. \A x \in GObjs \ {g} : /\ Owning(t, x) = Owning(stack, x)
                               /\ ValuesIn(t, x) = ValuesIn(stack, x)
    BY <1>7, <1>10
  <2> QED BY <1>6, <1>7, <1>8, <2>1, <2>5, <2>7, <2>8, <2>9, <2>10, <2>11, <2>12, UnrefStep
<1> QED BY <1>11, <1>12

\* free_storage invalidates the closures in the list, one at a time.
LEMMA FreeClosureInv ==
    ASSUME Inv, phase \in {"active", "shutdown"}, FreeClosure PROVE Inv'
<1> DEFINE w == Top.zobject
           list == wrapper[w].closures
           tmp == IF Is(Top, {"list"}) THEN FirstElement(list) ELSE Top.tmp
<1>1. /\ stack # <<>> /\ Is(Top, {"list", "loop"}) /\ Is(Top, FreeStorage)
      /\ Top.at \in {"list", "loop"}
      /\ Is(Top, {"list"}) \/ Is(Top, {"loop"})
  BY DEF FreeClosure, TopIs, Is, FreeStorage
<1>2. /\ Top \in Frames /\ Below \in Seq(Frames) /\ Stacked(Below) /\ OnEmit(Below)
      /\ Elements(stack) = {Top} \cup Elements(Below)
      /\ \A b \in Elements(Below) : Under(Top, b)
      /\ \A f \in Elements(stack) : Live(f)
      /\ \A x : HeldIn(stack, x) = HeldIn(Below, x) + ThisOf(Top, x) + ArgsOf(Top, x)
      /\ \A x : ValuesIn(stack, x) = ValuesIn(Below, x) + GivenOf(Top, x) + RetOf(Top, x)
      /\ \A x : HeldIn(Below, x) \in Nat /\ ValuesIn(Below, x) \in Nat
  BY <1>1, TopOfStack, CountsNat
<1>3. w \in Wrappers /\ Live(Top)
  BY <1>1, <1>2, FrameFields
<1>4. /\ wrapper[w] # Null /\ wrapper[w] \in Wrapper /\ list \in Seq(Closures)
      /\ Elements(list) = {c \in Closures : closure[c] # Null /\ closure[c].zobject = w}
  <2>1. wrapper[w] # Null
    BY <1>1, <1>3 DEF Live
  <2>2. wrapper[w] \in Wrapper
    BY <2>1, <1>3 DEF Inv, TypeOK
  <2> QED BY <2>1, <2>2, <1>3 DEF Wrapper, Inv, Listed
<1>5. Null \notin Closures
  BY ConstantsAssumption
<1>6. /\ tmp = Null => list = <<>>
      /\ tmp \in Elements(list) => tmp = Head(list)
  <2>1. CASE Is(Top, {"list"})
    <3>1. list # <<>> => Head(list) \in Closures
      BY <1>4
    <3> QED BY <2>1, <3>1, <1>5, <1>4, ElementsFacts DEF FirstElement
  <2>2. CASE ~Is(Top, {"list"})
    BY <2>2, <1>1, <1>3 DEF Live
  <2> QED BY <2>1, <2>2
<1> HIDE DEF tmp
<1>7. \/ /\ tmp = Null
         /\ wrapper' = [wrapper EXCEPT ![w] = Null]
         /\ stack' = Below
         /\ UNCHANGED <<phase, fault, request, zval, refcount, names, gobject, closure>>
      \/ Crash("stale_element")
      \/ /\ tmp \in Elements(list)
         /\ Invalidate(tmp, <<LoopFrame(w, NextElement(w, tmp))>> \o Below)
  BY DEF FreeClosure, tmp
<1>8. ASSUME tmp \in Elements(list), Invalidate(tmp, <<LoopFrame(w, NextElement(w, tmp))>> \o Below)
      PROVE  Inv'
  <2> DEFINE a == LoopFrame(w, NextElement(w, tmp))
             t == <<a>> \o Below
  <2>1. tmp \in Closures /\ closure[tmp] # Null /\ closure[tmp].zobject = w /\ tmp = Head(list)
    BY <1>4, <1>6, <1>8
  <2>2. NextElement(w, tmp) \in Closures \cup {Null}
    <3>1. list # <<>>
      BY <1>8, SmallElements
    <3>2. Injective(list)
      BY <1>3, <1>4 DEF Inv, Listed
    <3>3. Position(list, tmp) = 1
      BY <1>4, <1>8, <2>1, <3>2, WithoutFacts
    <3>4. Position(list, tmp) < Len(list) => list[Position(list, tmp) + 1] \in Closures
      BY <1>4, <3>3
    <3> QED BY <3>4 DEF NextElement
  <2>3. a \in Frames /\ a.at = "loop" /\ a.zobject = w /\ Is(a, {"list", "loop"})
    BY <1>3, <2>2 DEF LoopFrame, Frames, Is
  <2>4. Pushed(t, a, Below)
    BY DEF Pushed
  <2>5. a = LoopFrame(closure[tmp].zobject, NextElement(closure[tmp].zobject, tmp))
    BY <2>1
  <2> HIDE DEF a
  <2>6. Invalidate(tmp, t)
    BY <1>8 DEF a
  <2> HIDE DEF t
  <2>7. /\ t \in Seq(Frames) /\ Elements(t) = {a} \cup Elements(Below)
        /\ Stacked(t) /\ OnEmit(t)
        /\ \A b \in Elements(t) : ~Is(b, {"marshal"})
        /\ \A b \in Elements(Below) : Live(b)
        /\ \A x : HeldIn(t, x) = HeldIn(stack, x) /\ ValuesIn(t, x) = ValuesIn(stack, x)
        /\ \A v : /\ FreeingIn(t, v) <=> FreeingIn(stack, v)
                  /\ GaveUp(t, v) <=> GaveUp(stack, v) \/ v = w
    BY <1>1, <2>3, <2>4, NextPart
  <2>8. GaveUp(stack, w)
    BY <1>1, <1>2 DEF GaveUp
  <2>9. Replaces(t)
    BY <2>7, <2>8 DEF Replaces
  <2>10. \A f \in Elements(t) :
           \/ Live(f)
           \/ /\ f = LoopFrame(closure[tmp].zobject, NextElement(closure[tmp].zobject, tmp))
              /\ Head(wrapper[closure[tmp].zobject].closures) = tmp
    BY <2>1, <2>5, <2>7
  <2> QED BY <2>1, <2>6, <2>7, <2>9, <2>10, InvalidateStep
<1>9. ASSUME tmp = Null, wrapper' = [wrapper EXCEPT ![w] = Null], stack' = Below,
             UNCHANGED <<phase, fault, request, zval, refcount, names, gobject, closure>>
      PROVE  Inv'
  <2> USE <1>9
  <2>1. list = <<>> /\ \A c \in Closures : closure[c] # Null => closure[c].zobject # w
    <3>1. list = <<>> /\ Elements(list) = {}
      BY <1>6, SmallElements
    <3> QED BY <3>1, <1>4
  <2>2. /\ wrapper' \in [Wrappers -> Wrapper \cup {Null}] /\ wrapper'[w] = Null
        /\ \A v \in Wrappers : v # w => wrapper'[v] = wrapper[v]
    BY <1>3 DEF Inv, TypeOK
  <2>3. ASSUME NEW x
        PROVE  HeldIn(Below, x) = HeldIn(stack, x) /\ ValuesIn(Below, x) = ValuesIn(stack, x)
    <3>1. /\ ThisOf(Top, x) = 0 /\ ArgsOf(Top, x) = 0
          /\ GivenOf(Top, x) = 0 /\ RetOf(Top, x) = 0
      BY <1>1 DEF Is, ThisOf, ArgsOf, GivenOf, RetOf
    <3> QED BY <3>1, <1>2
  <2>4. \A b \in Elements(Below) : Is(b, FreeStorage) => b.zobject # w
    BY <1>1, <1>2 DEF Under, Twice
  <2>5. TypeOK'
    BY <1>2, <2>2 DEF Inv, TypeOK
  <2>6. Counted'
    <3>1. \A x : Params(x)' = Params(x)
      BY DEF Params
    <3>2. \A x : UsesIn(stack, x)' = UsesIn(stack, x)
      BY <2>3, <3>1 DEF UsesIn
    <3> QED BY <3>2 DEF Inv, Counted
  <2>7. Idle'
    BY DEF Idle
  <2>8. Settled'
    <3> SUFFICES ASSUME phase = "active", NEW z \in Zvals, zval[z] # Null
                 PROVE  wrapper'[zval[z]] # Null /\ ~FreeingIn(Below, zval[z])
      BY DEF Settled
    <3>1. wrapper[zval[z]] # Null /\ ~FreeingIn(stack, zval[z]) /\ zval[z] \in Wrappers
      BY DEF Inv, Settled, TypeOK
    <3>2. zval[z] # w
      BY <3>1, <1>1, <1>2 DEF FreeingIn
    <3>3. ~FreeingIn(Below, zval[z])
      BY <3>1, <1>2 DEF FreeingIn
    <3> QED BY <3>1, <3>2, <3>3, <2>2
  <2>9. Owned'
    <3>1. \A v : GaveUp(stack, v) <=> GaveUp(Below, v) \/ v = w
      BY <1>1, <1>2 DEF GaveUp
    <3>2. \A g : Owning(stack, g)' = Owning(stack, g)
      BY <2>2, <3>1 DEF Owning
    <3> QED BY <2>3, <3>2, OwnedKept
  <2>10. Listed'
    <3>1. ASSUME NEW c \in Closures, closure[c] # Null PROVE wrapper'[closure[c].zobject] # Null
      <4>1. closure[c].zobject \in Wrappers /\ wrapper[closure[c].zobject] # Null
        BY <3>1 DEF Inv, Listed, TypeOK, Closure
      <4> QED BY <4>1, <3>1, <2>1, <2>2
    <3>2. ASSUME NEW v \in Wrappers, wrapper'[v] # Null
          PROVE  /\ Elements(wrapper'[v].closures) =
                      {c \in Closures : closure[c] # Null /\ closure[c].zobject = v}
                 /\ Injective(wrapper'[v].closures)
      <4>1. v # w /\ wrapper'[v] = wrapper[v]
        BY <3>2, <2>2
      <4> QED BY <4>1, <3>2 DEF Inv, Listed
    <3> QED BY <3>1, <3>2 DEF Listed
  <2>11. ClosuresWatched'
    BY DEF Inv, ClosuresWatched
  <2>12. Framed'
    <3>1. ASSUME NEW f \in Elements(Below) PROVE Live(f)'
      <4>1. Live(f) /\ f \in Frames
        BY <1>2, ElementsFacts
      <4>2. Is(f, FreeStorage) => f.zobject \in Wrappers /\ wrapper'[f.zobject] = wrapper[f.zobject]
        <5> HAVE Is(f, FreeStorage)
        <5>1. f.zobject \in Wrappers /\ f.zobject # w
          BY <4>1, <2>4, FrameFields DEF Is, FreeStorage
        <5> QED BY <5>1, <2>2
      <4>3. Is(f, {"loop"}) => Is(f, FreeStorage)
        BY DEF Is, FreeStorage
      <4> QED BY <4>1, <4>2, <4>3 DEF Live
    <3> QED BY <1>2, <3>1 DEF Framed
  <2> QED BY <2>5, <2>6, <2>7, <2>8, <2>9, <2>10, <2>11, <2>12 DEF Inv
<1>10. ASSUME Crash("stale_element") PROVE Inv'
  <2>1. "stale_element" \in Faults
    BY DEF Faults
  <2> QED BY <1>10, <2>1, CrashInv
<1> QED BY <1>7, <1>8, <1>9, <1>10

\* GLib invalidates the closures that a GObject watched, and frees it.
LEMMA FinalizeInv ==
    ASSUME Inv, phase \in {"active", "shutdown"}, Finalize PROVE Inv'
<1> DEFINE g == Top.gobject
<1>1. stack # <<>> /\ Top.at = "finalize" /\ Is(Top, {"finalize"}) /\ Is(Top, Destructs)
  BY DEF Finalize, TopIs, Is, Destructs
<1>2. /\ Top \in Frames /\ Below \in Seq(Frames) /\ Stacked(Below) /\ OnEmit(Below)
      /\ stack \in Seq(Frames) /\ Stacked(stack) /\ OnEmit(stack)
      /\ Elements(stack) = {Top} \cup Elements(Below)
      /\ \A b \in Elements(Below) : Under(Top, b)
      /\ \A f \in Elements(stack) : Live(f)
      /\ \A x : HeldIn(stack, x) = HeldIn(Below, x) + ThisOf(Top, x) + ArgsOf(Top, x)
      /\ \A x : ValuesIn(stack, x) = ValuesIn(Below, x) + GivenOf(Top, x) + RetOf(Top, x)
      /\ \A x : HeldIn(Below, x) \in Nat /\ ValuesIn(Below, x) \in Nat
  BY <1>1, TopOfStack, CountsNat DEF Inv, Framed
<1>3. g \in GObjs /\ gobject[g] # Null /\ gobject[g].refs = 0 /\ gobject[g] \in GObject
  <2>1. g \in GObjs /\ gobject[g] # Null /\ gobject[g].refs = 0
    BY <1>1, <1>2, FrameFields DEF Live
  <2> QED BY <2>1 DEF Inv, TypeOK
<1>4. ASSUME NEW c \in WatchedBy(g), Invalidate(c, stack) PROVE Inv'
  <2>1. c \in Closures /\ closure[c] # Null
    BY <1>4 DEF WatchedBy
  <2>2. \A b \in Elements(stack) : ~Is(b, {"marshal"})
    BY <1>1, <1>2 DEF Under, Is
  <2>3. Replaces(stack)
    BY <1>2, <2>2 DEF Replaces
  <2>4. \A f \in Elements(stack) : Live(f)
    BY <1>2
  <2> QED BY <1>4, <2>1, <2>3, <2>4, InvalidateStep
<1>5. ASSUME WatchedBy(g) = {}, gobject' = [gobject EXCEPT ![g] = Null], stack' = Below,
             UNCHANGED <<phase, fault, request, zval, refcount, names, wrapper, closure>>
      PROVE  Inv'
  <2> USE <1>5
  <2>1. /\ gobject' \in [GObjs -> GObject \cup {Null}] /\ gobject'[g] = Null
        /\ \A x \in GObjs : x # g => gobject'[x] = gobject[x]
    BY <1>3 DEF Inv, TypeOK
  <2>2. ASSUME NEW x
        PROVE  HeldIn(Below, x) = HeldIn(stack, x) /\ ValuesIn(Below, x) = ValuesIn(stack, x)
    <3>1. /\ ThisOf(Top, x) = 0 /\ ArgsOf(Top, x) = 0
          /\ GivenOf(Top, x) = 0 /\ RetOf(Top, x) = 0
      BY <1>1 DEF Is, ThisOf, ArgsOf, GivenOf, RetOf
    <3> QED BY <3>1, <1>2
  <2>3. \A v : /\ GaveUp(Below, v) <=> GaveUp(stack, v)
               /\ FreeingIn(Below, v) <=> FreeingIn(stack, v)
    BY <1>1, <1>2 DEF GaveUp, FreeingIn, Is, FreeStorage
  <2>4. TypeOK'
    BY <1>2, <2>1 DEF Inv, TypeOK
  <2>5. Counted'
    <3>1. \A x : Params(x)' = Params(x)
      BY DEF Params
    <3>2. \A x : UsesIn(stack, x)' = UsesIn(stack, x)
      BY <2>2, <3>1 DEF UsesIn
    <3> QED BY <3>2 DEF Inv, Counted
  <2>6. Idle'
    BY DEF Idle
  <2>7. Settled'
    BY <2>3 DEF Inv, Settled
  <2>8. Owned'
    <3>1. \A x : Owning(stack, x)' = Owning(stack, x)
      BY <2>3 DEF Owning
    <3>2. Owning(stack, g) = {} /\ ValuesIn(stack, g) = 0
      <4>1. /\ Cardinality(Owning(stack, g)) \in Nat /\ IsFiniteSet(Owning(stack, g))
            /\ gobject[g].lost \in Nat /\ ValuesIn(stack, g) \in Nat
            /\ 0 = References(gobject[g], Cardinality(Owning(stack, g)), ValuesIn(stack, g))
        BY <1>2, <1>3, CountsNat DEF Inv, Owned, GObject
      <4>2. Cardinality(Owning(stack, g)) = 0 /\ ValuesIn(stack, g) = 0
        <5> DEFINE native == IF gobject[g].native THEN 1 ELSE 0
                   owners == Cardinality(Owning(stack, g))
                   lost == gobject[g].lost
                   values == ValuesIn(stack, g)
        <5>1. native \in Nat /\ 0 = owners + lost + native + values
          BY <4>1 DEF References
        <5>2. owners \in Nat /\ lost \in Nat /\ values \in Nat
          BY <4>1
        <5> HIDE DEF native, owners, lost, values
        <5>3. owners = 0 /\ values = 0
          BY <5>1, <5>2
        <5> QED BY <5>3 DEF owners, values
      <4> QED BY <4>1, <4>2, FS_EmptySet
    <3>3. ASSUME NEW x \in GObjs, x # g
          PROVE  IF gobject'[x] = Null
                   THEN Owning(stack, x)' = {} /\ ValuesIn(stack', x) = 0
                   ELSE gobject'[x].refs =
                          References(gobject'[x], Cardinality(Owning(stack, x)'), ValuesIn(stack', x))
      <4>1. /\ gobject'[x] = gobject[x] /\ Owning(stack, x)' = Owning(stack, x)
            /\ ValuesIn(stack', x) = ValuesIn(stack, x)
        BY <2>1, <2>2, <3>1, <3>3
      <4> QED BY <4>1 DEF Inv, Owned
    <3>4. ASSUME NEW x \in GObjs, x = g
          PROVE  Owning(stack, x)' = {} /\ ValuesIn(stack', x) = 0 /\ gobject'[x] = Null
      BY <2>1, <2>2, <3>1, <3>2, <3>4
    <3> QED BY <3>3, <3>4 DEF Owned
  <2>9. Listed'
    BY DEF Inv, Listed
  <2>10. ClosuresWatched'
    <3> SUFFICES ASSUME NEW c \in Closures, closure[c] # Null
                 PROVE  gobject'[closure[c].gobject] # Null
      BY DEF ClosuresWatched
    <3>1. gobject[closure[c].gobject] # Null /\ closure[c].gobject \in GObjs
      BY DEF Inv, ClosuresWatched, TypeOK, Closure
    <3>2. closure[c].gobject # g
      BY DEF WatchedBy
    <3> QED BY <3>1, <3>2, <2>1
  <2>11. Framed'
    <3>1. ASSUME NEW f \in Elements(Below) PROVE Live(f)'
      <4>1. Live(f) /\ f \in Frames
        BY <1>2, ElementsFacts
      <4>2. Is(f, {"finalize"}) => gobject'[f.gobject] = gobject[f.gobject]
        <5> HAVE Is(f, {"finalize"})
        <5>1. f.gobject \in GObjs /\ f.gobject # g
          BY <4>1, <1>1, <1>2, FrameFields DEF Is, Under, Twice
        <5> QED BY <5>1, <2>1
      <4> QED BY <4>1, <4>2 DEF Live
    <3> QED BY <1>2, <3>1 DEF Framed
  <2> QED BY <2>4, <2>5, <2>6, <2>7, <2>8, <2>9, <2>10, <2>11 DEF Inv
<1> QED BY <1>4, <1>5 DEF Finalize

-----------------------------------------------------------------------------
(* Steps without a destruction                                              *)

OwnersOf(g) == {w \in Wrappers : wrapper[w] # Null /\ wrapper[w].gobject = g}

\* The counts of a script that runs.
ActiveCount ==
    \A z \in Zvals : /\ refcount[z] = UsesIn(stack, z)
                     /\ zval[z] = Null <=> refcount[z] = 0
                     /\ zval[z] # Null => wrapper[zval[z]] # Null

Right(o, owners, values) ==
    IF o = Null THEN owners = 0 /\ values = 0 ELSE o.refs = References(o, owners, values)

PlainOwned ==
    \A g \in GObjs : Right(gobject[g], Cardinality(OwnersOf(g)), ValuesIn(stack, g))

\* Nothing has more than finitely many owners.
LEMMA OwnersNat ==
    /\ \A x : IsFiniteSet(OwnersOf(x)) /\ Cardinality(OwnersOf(x)) \in Nat
    /\ \A x : IsFiniteSet(OwnersOf(x)') /\ Cardinality(OwnersOf(x)') \in Nat
<1>1. ASSUME NEW x PROVE IsFiniteSet(OwnersOf(x)) /\ Cardinality(OwnersOf(x)) \in Nat
  <2>1. OwnersOf(x) \in SUBSET Wrappers
    BY DEF OwnersOf
  <2> QED BY <2>1, FS_Subset, FS_CardinalityType, ConstantsAssumption
<1>2. ASSUME NEW x PROVE IsFiniteSet(OwnersOf(x)') /\ Cardinality(OwnersOf(x)') \in Nat
  <2>1. OwnersOf(x)' \in SUBSET Wrappers
    BY DEF OwnersOf
  <2> QED BY <2>1, FS_Subset, FS_CardinalityType, ConstantsAssumption
<1> QED BY <1>1, <1>2

\* What the invariant says while no destruction is in progress, ...
LEMMA ActiveFacts ==
    ASSUME Inv, phase = "active", Plain(stack)
    PROVE  /\ ActiveCount /\ PlainOwned
           /\ \A z \in Zvals : /\ refcount[z] \in Nat
                               /\ names[z] \in Nat /\ names[z] \in 0 .. MaxVars
                               /\ HeldIn(stack, z) \in Nat /\ Cardinality(Params(z)) \in Nat
                               /\ refcount[z] = names[z] + HeldIn(stack, z)
                                                  + Cardinality(Params(z))
                               /\ zval[z] # Null => zval[z] \in Wrappers
           /\ \A g \in GObjs : /\ Cardinality(OwnersOf(g)) \in Nat /\ ValuesIn(stack, g) \in Nat
                               /\ gobject[g] # Null =>
                                    /\ gobject[g] \in GObject /\ gobject[g].refs \in Nat
                                    /\ gobject[g].lost \in Nat /\ gobject[g].native \in BOOLEAN
<1>1. \A g : Owning(stack, g) = OwnersOf(g)
  BY PlainFacts DEF OwnersOf
<1>2. ActiveCount
  BY DEF Inv, Counted, Settled, ActiveCount
<1>3. stack \in Seq(Frames)
  BY DEF Inv, TypeOK
<1>4. PlainOwned
  <2> SUFFICES ASSUME NEW g \in GObjs
               PROVE  Right(gobject[g], Cardinality(OwnersOf(g)), ValuesIn(stack, g))
    BY DEF PlainOwned
  <2>1. CASE gobject[g] = Null
    <3>1. OwnersOf(g) = {} /\ ValuesIn(stack, g) = 0
      BY <2>1, <1>1 DEF Inv, Owned
    <3> QED BY <2>1, <3>1, FS_EmptySet DEF Right
  <2>2. CASE gobject[g] # Null
    <3>1. gobject[g].refs =
            References(gobject[g], Cardinality(OwnersOf(g)), ValuesIn(stack, g))
      BY <2>2, <1>1 DEF Inv, Owned
    <3> QED BY <2>2, <3>1 DEF Right
  <2> QED BY <2>1, <2>2
<1>5. ASSUME NEW z \in Zvals
      PROVE  /\ refcount[z] \in Nat /\ names[z] \in Nat /\ names[z] \in 0 .. MaxVars
             /\ HeldIn(stack, z) \in Nat /\ Cardinality(Params(z)) \in Nat
             /\ refcount[z] = names[z] + HeldIn(stack, z) + Cardinality(Params(z))
             /\ zval[z] # Null => zval[z] \in Wrappers
  <2>1. names[z] \in 0 .. MaxVars /\ refcount[z] \in Nat /\ zval[z] \in Wrappers \cup {Null}
    BY DEF Inv, TypeOK
  <2>2. names[z] \in Nat
    BY <2>1, ConstantsAssumption
  <2> QED BY <1>2, <1>3, <2>1, <2>2, CountsNat DEF ActiveCount, UsesIn
<1>6. ASSUME NEW g \in GObjs
      PROVE  /\ Cardinality(OwnersOf(g)) \in Nat /\ ValuesIn(stack, g) \in Nat
             /\ gobject[g] # Null =>
                  /\ gobject[g] \in GObject /\ gobject[g].refs \in Nat
                  /\ gobject[g].lost \in Nat /\ gobject[g].native \in BOOLEAN
  <2>1. gobject[g] # Null => gobject[g] \in GObject
    BY DEF Inv, TypeOK
  <2> QED BY <1>3, <2>1, OwnersNat, CountsNat DEF GObject
<1> QED BY <1>2, <1>4, <1>5, <1>6

\* ... and what is enough for it to hold afterwards.
LEMMA PlainStep ==
    ASSUME phase' = "active", TypeOK', ActiveCount', PlainOwned', Listed', ClosuresWatched',
           Plain(stack'), Stacked(stack'), OnEmit(stack'),
           \A f \in Elements(stack') : Live(f)'
    PROVE  Inv'
<1>1. Counted'
  <2> SUFFICES ASSUME NEW z \in Zvals
               PROVE  /\ refcount'[z] >= UsesIn(stack, z)'
                      /\ refcount'[z] = UsesIn(stack, z)'
                      /\ zval'[z] = Null <=> refcount'[z] = 0
    BY DEF Counted
  <2>1. refcount'[z] \in Nat
    BY DEF TypeOK
  <2> QED BY <2>1 DEF ActiveCount
<1>2. Idle'
  BY DEF Idle
<1>3. Settled'
  BY PlainFacts DEF Settled, ActiveCount
<1>4. Owned'
  <2>1. \A w : ~GaveUp(stack', w)
    BY PlainFacts
  <2>2. \A g : Owning(stack, g)' = OwnersOf(g)'
    BY <2>1 DEF Owning, OwnersOf
  <2> SUFFICES ASSUME NEW g \in GObjs
               PROVE  IF gobject'[g] = Null
                        THEN OwnersOf(g)' = {} /\ ValuesIn(stack', g) = 0
                        ELSE gobject'[g].refs =
                               References(gobject'[g], Cardinality(OwnersOf(g)'), ValuesIn(stack', g))
    BY <2>2 DEF Owned
  <2>3. Right(gobject'[g], Cardinality(OwnersOf(g)'), ValuesIn(stack', g))
    BY DEF PlainOwned
  <2>4. Cardinality(OwnersOf(g)') = 0 => OwnersOf(g)' = {}
    BY OwnersNat, FS_EmptySet
  <2> QED BY <2>3, <2>4 DEF Right
<1>5. Framed'
  BY DEF Framed
<1> QED BY <1>1, <1>2, <1>3, <1>4, <1>5 DEF Inv

\* The same for a step of the script that calls nothing.
LEMMA ScriptStep ==
    ASSUME Inv, ScriptRuns, UNCHANGED <<phase, stack>>,
           TypeOK', ActiveCount', PlainOwned', Listed', ClosuresWatched'
    PROVE  Inv'
<1>1. /\ phase = "active" /\ Plain(stack)
      /\ \A f \in Elements(stack) : Is(f, {"emit", "handler"})
  BY ScriptStack
<1>2. Stacked(stack') /\ OnEmit(stack') /\ \A f \in Elements(stack) : Live(f)
  BY DEF Inv, Framed
<1>3. \A f \in Elements(stack') : Live(f)'
  BY <1>1, <1>2 DEF Live, Is, FreeStorage
<1>4. Plain(stack') /\ phase' = "active"
  BY <1>1
<1> QED BY <1>2, <1>3, <1>4, PlainStep

\* A frame that destroys nothing goes on.
LEMMA StillLive ==
    ASSUME NEW f, Live(f), ~Is(f, Destructs), closure' = closure
    PROVE  Live(f)'
BY DEF Live, Is, Destructs, FreeStorage

\* A container gets a reference more, or none does.
LEMMA Referenced ==
    ASSUME Inv, phase = "active", Plain(stack),
           NEW p \in Zvals \cup {Null}, p # Null => refcount[p] # 0,
           refcount' = IF p = Null THEN refcount ELSE [refcount EXCEPT ![p] = @ + 1],
           zval' = zval,
           \A w \in Wrappers : wrapper[w] # Null => wrapper'[w] # Null,
           \A x \in Zvals : names'[x] + HeldIn(stack', x) + Cardinality(Params(x)')
                              = names[x] + HeldIn(stack, x) + Cardinality(Params(x))
                                  + (IF x = p THEN 1 ELSE 0)
    PROVE  ActiveCount' /\ refcount' \in [Zvals -> Nat]
<1>1. /\ refcount \in [Zvals -> Nat] /\ Null \notin Zvals
      /\ ActiveCount
      /\ \A z \in Zvals : /\ refcount[z] = names[z] + HeldIn(stack, z) + Cardinality(Params(z))
                          /\ zval[z] # Null => zval[z] \in Wrappers
  BY ActiveFacts, ConstantsAssumption DEF Inv, TypeOK
<1>2. refcount' \in [Zvals -> Nat] /\
      \A x \in Zvals : refcount'[x] = refcount[x] + (IF x = p THEN 1 ELSE 0)
  BY <1>1
<1>3. ASSUME NEW x \in Zvals
      PROVE  /\ refcount'[x] = names'[x] + HeldIn(stack', x) + Cardinality(Params(x)')
             /\ zval'[x] = Null <=> refcount'[x] = 0
             /\ zval'[x] # Null => wrapper'[zval'[x]] # Null
  <2>1. refcount[x] \in Nat /\ (zval[x] = Null <=> refcount[x] = 0)
    BY <1>1 DEF ActiveCount
  <2>2. zval'[x] = Null <=> refcount'[x] = 0
    BY <1>2, <2>1
  <2>3. zval'[x] # Null => wrapper'[zval'[x]] # Null
    BY <1>1 DEF ActiveCount
  <2>4. refcount'[x] = names'[x] + HeldIn(stack', x) + Cardinality(Params(x)')
    BY <1>1, <1>2
  <2> QED BY <2>2, <2>3, <2>4
<1> QED BY <1>2, <1>3 DEF ActiveCount, UsesIn

\* A container that was free refers to a wrapper.
LEMMA NewContainer ==
    ASSUME Inv, phase = "active", Plain(stack),
           NEW z \in Zvals, FreshZval(z), NEW w \in Wrappers,
           zval' = [zval EXCEPT ![z] = w], refcount' = [refcount EXCEPT ![z] = 1],
           closure' = closure, wrapper'[w] # Null,
           \A v \in Wrappers : wrapper[v] # Null => wrapper'[v] # Null,
           \A x \in Zvals : names'[x] + HeldIn(stack', x)
                              = names[x] + HeldIn(stack, x) + (IF x = z THEN 1 ELSE 0)
    PROVE  /\ ActiveCount' /\ refcount' \in [Zvals -> Nat]
           /\ zval' \in [Zvals -> Wrappers \cup {Null}]
<1>1. /\ refcount \in [Zvals -> Nat] /\ zval \in [Zvals -> Wrappers \cup {Null}]
      /\ Null \notin Wrappers
      /\ ActiveCount
      /\ \A x \in Zvals : /\ refcount[x] = names[x] + HeldIn(stack, x) + Cardinality(Params(x))
                          /\ names[x] \in Nat /\ HeldIn(stack, x) \in Nat
                          /\ Cardinality(Params(x)) \in Nat
                          /\ zval[x] # Null => zval[x] \in Wrappers
  BY ActiveFacts, ConstantsAssumption DEF Inv, TypeOK
<1>2. refcount' \in [Zvals -> Nat] /\ zval' \in [Zvals -> Wrappers \cup {Null}]
  BY <1>1
<1>3. ASSUME NEW x \in Zvals
      PROVE  /\ refcount'[x] = names'[x] + HeldIn(stack', x) + Cardinality(Params(x))
             /\ zval'[x] = Null <=> refcount'[x] = 0
             /\ zval'[x] # Null => wrapper'[zval'[x]] # Null
  <2>1. CASE x = z
    <3>1. refcount'[x] = 1 /\ zval'[x] = w /\ refcount[x] = 0
      BY <1>1, <2>1 DEF FreshZval
    <3>2. names[x] + HeldIn(stack, x) = 0 /\ Cardinality(Params(x)) = 0
      <4> DEFINE n == names[x]
                 h == HeldIn(stack, x)
                 c == Cardinality(Params(x))
      <4>1. n \in Nat /\ h \in Nat /\ c \in Nat /\ 0 = n + h + c
        BY <1>1, <3>1
      <4> HIDE DEF n, h, c
      <4>2. n + h = 0 /\ c = 0
        BY <4>1
      <4> QED BY <4>2 DEF n, h, c
    <3> QED BY <1>1, <2>1, <3>1, <3>2
  <2>2. CASE x # z
    <3>1. refcount'[x] = refcount[x] /\ zval'[x] = zval[x]
      BY <1>1, <2>2
    <3>2. names'[x] + HeldIn(stack', x) = names[x] + HeldIn(stack, x)
      BY <1>1, <2>2
    <3> QED BY <1>1, <3>1, <3>2 DEF ActiveCount
  <2> QED BY <2>1, <2>2
<1>4. \A x : Params(x)' = Params(x)
  BY DEF Params
<1> QED BY <1>2, <1>3, <1>4 DEF ActiveCount, UsesIn

\* Wrappers that keep their lists.
LEMMA ListedKept ==
    ASSUME Inv, closure' = closure,
           \A w \in Wrappers : /\ wrapper'[w] = Null <=> wrapper[w] = Null
                               /\ wrapper[w] # Null =>
                                    wrapper'[w].closures = wrapper[w].closures
    PROVE  Listed'
<1>1. \A c \in Closures : closure[c] # Null => closure[c].zobject \in Wrappers
  BY DEF Inv, TypeOK, Closure
<1> QED BY <1>1 DEF Inv, Listed

\* A wrapper that was free, for g or for nothing yet.
LEMMA NewWrapperFacts ==
    ASSUME Inv, NEW w \in Wrappers, wrapper[w] = Null, NEW g \in GObjs \cup {Null},
           wrapper' = [wrapper EXCEPT ![w] = NewWrapper(g)], closure' = closure
    PROVE  /\ wrapper' \in [Wrappers -> Wrapper \cup {Null}]
           /\ wrapper'[w] # Null
           /\ \A v \in Wrappers : wrapper[v] # Null => wrapper'[v] # Null
           /\ Listed'
           /\ \A x : Cardinality(OwnersOf(x)') = Cardinality(OwnersOf(x)) + (IF x = g THEN 1 ELSE 0)
<1>1. NewWrapper(g) \in Wrapper /\ wrapper \in [Wrappers -> Wrapper \cup {Null}]
  BY DEF NewWrapper, Wrapper, Inv, TypeOK
<1>2. /\ NewWrapper(g) # Null /\ NewWrapper(g).gobject = g /\ NewWrapper(g).closures = <<>>
  BY <1>1, NullAssumption DEF NewWrapper
<1>3. /\ wrapper' \in [Wrappers -> Wrapper \cup {Null}]
      /\ wrapper'[w] = NewWrapper(g) /\ \A v \in Wrappers : v # w => wrapper'[v] = wrapper[v]
  BY <1>1
<1>4. Listed'
  <2>1. \A c \in Closures : closure[c] # Null => /\ closure[c].zobject \in Wrappers
                                                 /\ wrapper[closure[c].zobject] # Null
    BY DEF Inv, Listed, TypeOK, Closure
  <2>2. ASSUME NEW c \in Closures, closure[c] # Null PROVE wrapper'[closure[c].zobject] # Null
    BY <2>1, <2>2, <1>2, <1>3
  <2>3. ASSUME NEW v \in Wrappers, wrapper'[v] # Null
        PROVE  /\ Elements(wrapper'[v].closures) =
                    {c \in Closures : closure[c] # Null /\ closure[c].zobject = v}
               /\ Injective(wrapper'[v].closures)
    <3>1. CASE v = w
      <4>1. wrapper'[v].closures = <<>>
        BY <3>1, <1>2, <1>3
      <4>2. \A c \in Closures : ~(closure[c] # Null /\ closure[c].zobject = v)
        BY <3>1, <2>1
      <4>3. Injective(<<>>) /\ Elements(<<>>) = {}
        BY SmallElements DEF Injective
      <4> QED BY <4>1, <4>2, <4>3
    <3>2. CASE v # w
      BY <3>2, <2>3, <1>3 DEF Inv, Listed
    <3> QED BY <3>1, <3>2
  <2> QED BY <2>2, <2>3 DEF Listed
<1>5. ASSUME NEW x
      PROVE  Cardinality(OwnersOf(x)') = Cardinality(OwnersOf(x)) + (IF x = g THEN 1 ELSE 0)
  <2>1. CASE x = g
    <3>1. OwnersOf(x)' = OwnersOf(x) \cup {w}
      BY <2>1, <1>2, <1>3 DEF OwnersOf
    <3>2. w \notin OwnersOf(x) /\ IsFiniteSet(OwnersOf(x))
      BY OwnersNat DEF OwnersOf
    <3>3. Cardinality(OwnersOf(x) \cup {w}) = Cardinality(OwnersOf(x)) + 1
      BY <3>2, FS_AddElement
    <3> QED BY <2>1, <3>1, <3>3
  <2>2. CASE x # g
    <3>1. OwnersOf(x)' = OwnersOf(x)
      BY <2>2, <1>2, <1>3 DEF OwnersOf
    <3>2. Cardinality(OwnersOf(x)) \in Nat
      BY OwnersNat
    <3> QED BY <2>2, <3>1, <3>2
  <2> QED BY <2>1, <2>2
<1> QED BY <1>2, <1>3, <1>4, <1>5

-----------------------------------------------------------------------------
(* What the script does by itself                                           *)

\* An object of the script, without a GObject so far.
LEMMA NewInv == ASSUME NEW w \in Wrappers, NEW z \in Zvals, Inv, New(w, z) PROVE Inv'
<1>1. /\ ScriptRuns /\ FreshZval(z) /\ wrapper[w] = Null
      /\ wrapper' = [wrapper EXCEPT ![w] = NewWrapper(Null)]
      /\ zval' = [zval EXCEPT ![z] = w]
      /\ refcount' = [refcount EXCEPT ![z] = 1]
      /\ names' = [names EXCEPT ![z] = 1]
      /\ UNCHANGED <<phase, fault, request, gobject, closure, stack>>
  BY DEF New, FreshWrapper
<1>2. phase = "active" /\ Plain(stack)
  BY <1>1, ScriptStack
<1>3. /\ wrapper' \in [Wrappers -> Wrapper \cup {Null}]
      /\ wrapper'[w] # Null
      /\ \A v \in Wrappers : wrapper[v] # Null => wrapper'[v] # Null
      /\ Listed'
      /\ \A x : Cardinality(OwnersOf(x)') = Cardinality(OwnersOf(x)) + (IF x = Null THEN 1 ELSE 0)
  BY <1>1, NewWrapperFacts
<1>4. /\ PlainOwned
      /\ \A x \in Zvals : /\ names[x] \in Nat /\ HeldIn(stack, x) \in Nat
                          /\ Cardinality(Params(x)) \in Nat /\ refcount[x] \in Nat
                          /\ refcount[x] = names[x] + HeldIn(stack, x) + Cardinality(Params(x))
      /\ \A x \in GObjs : Cardinality(OwnersOf(x)) \in Nat
  BY <1>2, ActiveFacts
<1>5. names[z] = 0
  <2> DEFINE n == names[z]
             h == HeldIn(stack, z)
             c == Cardinality(Params(z))
  <2>1. n \in Nat /\ h \in Nat /\ c \in Nat /\ 0 = n + h + c
    BY <1>1, <1>4 DEF FreshZval
  <2> HIDE DEF n, h, c
  <2>2. n = 0
    BY <2>1
  <2> QED BY <2>2 DEF n
<1>6. names \in [Zvals -> 0 .. MaxVars] /\ 1 \in 0 .. MaxVars
  BY ConstantsAssumption DEF Inv, TypeOK
<1>7. names' \in [Zvals -> 0 .. MaxVars]
  BY <1>1, <1>6
<1>8. \A x \in Zvals : names'[x] + HeldIn(stack', x)
                         = names[x] + HeldIn(stack, x) + (IF x = z THEN 1 ELSE 0)
  <2> TAKE x \in Zvals
  <2>1. names'[x] = names[x] + (IF x = z THEN 1 ELSE 0)
    BY <1>1, <1>4, <1>5, <1>6
  <2> QED BY <2>1, <1>1, <1>4
<1>9. ActiveCount' /\ refcount' \in [Zvals -> Nat] /\ zval' \in [Zvals -> Wrappers \cup {Null}]
  BY <1>1, <1>2, <1>3, <1>8, NewContainer
<1>10. PlainOwned'
  <2> SUFFICES ASSUME NEW x \in GObjs
               PROVE  Right(gobject'[x], Cardinality(OwnersOf(x)'), ValuesIn(stack', x))
    BY DEF PlainOwned
  <2>1. Cardinality(OwnersOf(x)') = Cardinality(OwnersOf(x))
    BY <1>3, <1>4, ConstantsAssumption
  <2> QED BY <2>1, <1>1, <1>4 DEF PlainOwned
<1>11. TypeOK'
  BY <1>1, <1>3, <1>7, <1>9 DEF Inv, TypeOK
<1>12. ClosuresWatched'
  BY <1>1 DEF Inv, ClosuresWatched
<1> QED BY <1>1, <1>3, <1>9, <1>10, <1>11, <1>12, ScriptStep

\* One variable more.
LEMMA AddVarInv == ASSUME NEW z \in Zvals, Inv, AddVar(z) PROVE Inv'
<1>1. /\ ScriptRuns /\ Usable(z) /\ names[z] < MaxVars
      /\ refcount' = [refcount EXCEPT ![z] = @ + 1]
      /\ names' = [names EXCEPT ![z] = @ + 1]
      /\ UNCHANGED <<phase, fault, request, zval, wrapper, gobject, closure, stack>>
  BY DEF AddVar
<1>2. phase = "active" /\ Plain(stack) /\ refcount[z] # 0
  BY <1>1, ScriptStack, UsableFacts
<1>3. PlainOwned /\ \A x \in Zvals : /\ names[x] \in Nat /\ HeldIn(stack, x) \in Nat
                                     /\ Cardinality(Params(x)) \in Nat
  BY <1>2, ActiveFacts
<1>4. names \in [Zvals -> 0 .. MaxVars] /\ MaxVars \in Nat
  BY ConstantsAssumption DEF Inv, TypeOK
<1>5. names' \in [Zvals -> 0 .. MaxVars]
  BY <1>1, <1>4
<1>6. \A x : Params(x)' = Params(x) /\ OwnersOf(x)' = OwnersOf(x)
  BY <1>1 DEF Params, OwnersOf
<1>7. \A x \in Zvals : names'[x] + HeldIn(stack', x) + Cardinality(Params(x)')
                         = names[x] + HeldIn(stack, x) + Cardinality(Params(x))
                             + (IF x = z THEN 1 ELSE 0)
  <2> TAKE x \in Zvals
  <2>1. names'[x] = names[x] + (IF x = z THEN 1 ELSE 0)
    BY <1>1, <1>3, <1>4
  <2> QED BY <2>1, <1>1, <1>3, <1>6
<1>8. z \in Zvals \cup {Null} /\ z # Null
  BY ConstantsAssumption
<1>9. refcount' = IF z = Null THEN refcount ELSE [refcount EXCEPT ![z] = @ + 1]
  BY <1>1, <1>8
<1>10. ActiveCount' /\ refcount' \in [Zvals -> Nat]
  BY <1>1, <1>2, <1>7, <1>8, <1>9, Referenced
<1>11. PlainOwned'
  BY <1>1, <1>3, <1>6 DEF PlainOwned
<1>12. TypeOK'
  BY <1>1, <1>5, <1>10 DEF Inv, TypeOK
<1>13. ClosuresWatched' /\ Listed'
  BY <1>1 DEF Inv, ClosuresWatched, Listed
<1> QED BY <1>1, <1>10, <1>11, <1>12, <1>13, ScriptStep

\* Another container for the same wrapper.
LEMMA SeparateInv == ASSUME NEW z \in Zvals, NEW z2 \in Zvals, Inv, Separate(z, z2) PROVE Inv'
<1> DEFINE w == zval[z]
<1>1. /\ ScriptRuns /\ Usable(z) /\ FreshZval(z2)
      /\ zval' = [zval EXCEPT ![z2] = w]
      /\ refcount' = [refcount EXCEPT ![z2] = 1]
      /\ names' = [names EXCEPT ![z2] = 1]
      /\ UNCHANGED <<phase, fault, request, wrapper, gobject, closure, stack>>
  BY DEF Separate
<1>2. phase = "active" /\ Plain(stack) /\ w \in Wrappers /\ wrapper[w] # Null
  BY <1>1, ScriptStack, UsableFacts
<1>3. /\ PlainOwned
      /\ \A x \in Zvals : /\ names[x] \in Nat /\ HeldIn(stack, x) \in Nat
                          /\ Cardinality(Params(x)) \in Nat /\ refcount[x] \in Nat
                          /\ refcount[x] = names[x] + HeldIn(stack, x) + Cardinality(Params(x))
  BY <1>2, ActiveFacts
<1>4. names[z2] = 0
  <2> DEFINE n == names[z2]
             h == HeldIn(stack, z2)
             c == Cardinality(Params(z2))
  <2>1. n \in Nat /\ h \in Nat /\ c \in Nat /\ 0 = n + h + c
    BY <1>1, <1>3 DEF FreshZval
  <2> HIDE DEF n, h, c
  <2>2. n = 0
    BY <2>1
  <2> QED BY <2>2 DEF n
<1>5. names \in [Zvals -> 0 .. MaxVars] /\ 1 \in 0 .. MaxVars
  BY ConstantsAssumption DEF Inv, TypeOK
<1>6. names' \in [Zvals -> 0 .. MaxVars]
  BY <1>1, <1>5
<1>7. \A x \in Zvals : names'[x] + HeldIn(stack', x)
                         = names[x] + HeldIn(stack, x) + (IF x = z2 THEN 1 ELSE 0)
  <2> TAKE x \in Zvals
  <2>1. names'[x] = names[x] + (IF x = z2 THEN 1 ELSE 0)
    BY <1>1, <1>3, <1>4, <1>5
  <2> QED BY <2>1, <1>1, <1>3
<1>8. wrapper'[w] # Null /\ \A v \in Wrappers : wrapper[v] # Null => wrapper'[v] # Null
  BY <1>1, <1>2
<1> HIDE DEF w
<1>9. ActiveCount' /\ refcount' \in [Zvals -> Nat] /\ zval' \in [Zvals -> Wrappers \cup {Null}]
  BY <1>1, <1>2, <1>7, <1>8, NewContainer
<1>10. \A x : OwnersOf(x)' = OwnersOf(x)
  BY <1>1 DEF OwnersOf
<1>11. PlainOwned'
  BY <1>1, <1>3, <1>10 DEF PlainOwned
<1>12. TypeOK'
  BY <1>1, <1>6, <1>9 DEF Inv, TypeOK
<1>13. ClosuresWatched' /\ Listed'
  BY <1>1 DEF Inv, ClosuresWatched, Listed
<1> QED BY <1>1, <1>9, <1>11, <1>12, <1>13, ScriptStep

\* A step that changes GObjects only, one of them by what its owners or values
\* change; GObjects are neither made nor finalized by it.
LEMMA GObjectStep ==
    ASSUME Inv, ScriptRuns,
           UNCHANGED <<phase, fault, request, zval, refcount, names, wrapper, closure, stack>>,
           NEW g \in GObjs, NEW o \in GObject, gobject' = [gobject EXCEPT ![g] = o],
           Right(o, Cardinality(OwnersOf(g)), ValuesIn(stack, g))
    PROVE  Inv'
<1>1. phase = "active" /\ Plain(stack)
  BY ScriptStack
<1>2. PlainOwned /\ ActiveCount
  BY <1>1, ActiveFacts
<1>3. /\ gobject' \in [GObjs -> GObject \cup {Null}] /\ gobject'[g] = o /\ o # Null
      /\ \A x \in GObjs : x # g => gobject'[x] = gobject[x]
  BY NullAssumption DEF Inv, TypeOK
<1>4. TypeOK'
  BY <1>3 DEF Inv, TypeOK
<1>5. \A x : Params(x)' = Params(x) /\ OwnersOf(x)' = OwnersOf(x)
  BY DEF Params, OwnersOf
<1>6. \A x : UsesIn(stack, x)' = UsesIn(stack, x)
  BY <1>5 DEF UsesIn
<1>7. ActiveCount'
  BY <1>2, <1>6 DEF ActiveCount
<1>8. PlainOwned'
  <2> SUFFICES ASSUME NEW x \in GObjs
               PROVE  Right(gobject'[x], Cardinality(OwnersOf(x)), ValuesIn(stack, x))
    BY <1>5 DEF PlainOwned
  <2> QED BY <1>2, <1>3 DEF PlainOwned
<1>9. Listed'
  BY DEF Inv, Listed
<1>10. ClosuresWatched'
  <2> SUFFICES ASSUME NEW c \in Closures, closure[c] # Null
               PROVE  gobject'[closure[c].gobject] # Null
    BY DEF ClosuresWatched
  <2>1. gobject[closure[c].gobject] # Null /\ closure[c].gobject \in GObjs
    BY DEF Inv, ClosuresWatched, TypeOK, Closure
  <2> QED BY <2>1, <1>3
<1> QED BY <1>4, <1>7, <1>8, <1>9, <1>10, ScriptStep

\* A GObject of C code.
LEMMA NativeNewInv == ASSUME NEW g \in GObjs, Inv, NativeNew(g) PROVE Inv'
<1> DEFINE o == [refs |-> 1, data |-> Null, native |-> TRUE, lost |-> 0]
<1>1. /\ ScriptRuns /\ gobject[g] = Null
      /\ gobject' = [gobject EXCEPT ![g] = o]
      /\ UNCHANGED <<phase, fault, request, zval, refcount, names, wrapper, closure, stack>>
  BY DEF NativeNew
<1>2. Cardinality(OwnersOf(g)) = 0 /\ ValuesIn(stack, g) = 0
  <2>1. PlainOwned
    BY <1>1, ScriptStack, ActiveFacts
  <2> QED BY <1>1, <2>1 DEF PlainOwned, Right
<1>3. o \in GObject /\ o # Null /\ o.refs = 1 /\ o.native = TRUE /\ o.lost = 0
  <2>1. o \in GObject
    BY DEF GObject
  <2> QED BY <2>1, NullAssumption
<1> HIDE DEF o
<1>4. Right(o, Cardinality(OwnersOf(g)), ValuesIn(stack, g))
  BY <1>2, <1>3 DEF Right, References
<1> QED BY <1>1, <1>3, <1>4, GObjectStep

\* C code keeps a GObject of the script.
LEMMA NativeRefInv == ASSUME NEW z \in Zvals, Inv, NativeRef(z) PROVE Inv'
<1> DEFINE g == wrapper[zval[z]].gobject
           o == gobject[g]
           n == o.refs + 1
           p == [o EXCEPT !.refs = n, !.native = TRUE]
<1>1. /\ ScriptRuns /\ Usable(z) /\ g # Null /\ ~o.native
      /\ UNCHANGED <<phase, fault, request, zval, refcount, names, wrapper, closure, stack>>
  BY DEF NativeRef
<1>2. g \in GObjs /\ o # Null /\ o \in GObject
  BY <1>1, UsableFacts
<1>3. gobject' = [gobject EXCEPT ![g] = p]
  <2>1. gobject \in [GObjs -> GObject \cup {Null}]
    BY DEF Inv, TypeOK
  <2>2. gobject' = [gobject EXCEPT ![g].refs = @ + 1, ![g].native = TRUE]
    BY DEF NativeRef
  <2> QED BY <1>2, <2>1, <2>2 DEF GObject
<1> HIDE DEF g
<1>4. /\ n \in Nat /\ o.lost \in Nat
      /\ Cardinality(OwnersOf(g)) \in Nat /\ ValuesIn(stack, g) \in Nat
      /\ o.refs = References(o, Cardinality(OwnersOf(g)), ValuesIn(stack, g))
  <2>1. PlainOwned /\ Cardinality(OwnersOf(g)) \in Nat /\ ValuesIn(stack, g) \in Nat
    BY <1>1, <1>2, ScriptStack, ActiveFacts
  <2> QED BY <1>2, <2>1 DEF PlainOwned, Right, GObject
<1>5. o.refs \in Nat
  BY <1>2 DEF GObject
<1>6. p \in GObject /\ p.refs = n /\ p.native = TRUE /\ p.lost = o.lost /\ p # Null
  <2> HIDE DEF n, o
  <2>1. p \in GObject /\ p.refs = n /\ p.native = TRUE /\ p.lost = o.lost
    BY <1>2, <1>4, GObjectUpdates
  <2> QED BY <2>1, NullAssumption
<1>7. n = o.refs + 1
  OBVIOUS
<1> HIDE DEF n, o, p
<1>8. Right(p, Cardinality(OwnersOf(g)), ValuesIn(stack, g))
  BY <1>1, <1>4, <1>5, <1>6, <1>7 DEF Right, References
<1> QED BY <1>1, <1>2, <1>3, <1>6, <1>8, GObjectStep

\* emit() of an object that cannot be converted forgets a reference.
LEMMA EmitLostInv ==
    ASSUME Inv, ScriptRuns, NEW g \in GObjs, gobject[g] # Null,
           gobject' = [gobject EXCEPT ![g].refs = @ + 1, ![g].lost = @ + 1],
           UNCHANGED <<phase, fault, request, zval, refcount, names, wrapper, closure, stack>>
    PROVE  Inv'
<1> DEFINE o == gobject[g]
           n == o.refs + 1
           m == o.lost + 1
           p == [o EXCEPT !.refs = n, !.lost = m]
<1>1. gobject \in [GObjs -> GObject \cup {Null}] /\ o \in GObject
  BY DEF Inv, TypeOK
<1>2. gobject' = [gobject EXCEPT ![g] = p]
  BY <1>1 DEF GObject
<1>3. /\ n \in Nat /\ m \in Nat /\ n = o.refs + 1 /\ m = o.lost + 1
      /\ o.lost \in Nat /\ o.refs \in Nat
      /\ Cardinality(OwnersOf(g)) \in Nat /\ ValuesIn(stack, g) \in Nat
      /\ o.refs = References(o, Cardinality(OwnersOf(g)), ValuesIn(stack, g))
  <2>1. PlainOwned /\ Cardinality(OwnersOf(g)) \in Nat /\ ValuesIn(stack, g) \in Nat
    BY ScriptStack, ActiveFacts
  <2> QED BY <1>1, <2>1 DEF PlainOwned, Right, GObject
<1>4. p \in GObject /\ p.refs = n /\ p.native = o.native /\ p.lost = m /\ p # Null
  <2> DEFINE q == [o EXCEPT !.refs = n]
  <2> HIDE DEF n, m
  <2>1. q \in GObject /\ q.refs = n /\ q.native = o.native
    BY <1>1, <1>3 DEF GObject
  <2>2. p = [q EXCEPT !.lost = m]
    OBVIOUS
  <2> HIDE DEF q, p, o
  <2>3. p \in GObject /\ p.refs = n /\ p.native = o.native /\ p.lost = m
    BY <1>3, <2>1, <2>2 DEF GObject
  <2> QED BY <2>3, NullAssumption
<1> HIDE DEF n, o, m, p
<1>5. Right(p, Cardinality(OwnersOf(g)), ValuesIn(stack, g))
  BY <1>3, <1>4 DEF Right, References
<1> QED BY <1>2, <1>4, <1>5, GObjectStep

\* __construct makes a GObject, and forgets the one it had made before.
LEMMA ConstructInv ==
    ASSUME NEW z \in Zvals, NEW g \in GObjs, Inv, Construct(z, g) PROVE Inv'
<1> DEFINE w == zval[z]
           old == wrapper[w].gobject
           made == [refs |-> 1, data |-> z, native |-> FALSE, lost |-> 0]
           forgotten == [gobject[old] EXCEPT !.lost = @ + 1]
           new == [wrapper[w] EXCEPT !.gobject = g]
<1>1. /\ ScriptRuns /\ Usable(z) /\ gobject[g] = Null
      /\ wrapper' = [wrapper EXCEPT ![w].gobject = g]
      /\ gobject' = [x \in GObjs |-> CASE x = g -> made
                                       [] x = old -> [gobject[x] EXCEPT !.lost = @ + 1]
                                       [] OTHER -> gobject[x]]
      /\ UNCHANGED <<phase, fault, request, zval, refcount, names, closure, stack>>
  BY DEF Construct
<1>2. /\ w \in Wrappers /\ wrapper[w] # Null /\ wrapper[w] \in Wrapper
      /\ old \in GObjs \cup {Null}
      /\ old # Null => old \in GObjs /\ gobject[old] # Null /\ gobject[old] \in GObject
  BY <1>1, UsableFacts
<1>3. phase = "active" /\ Plain(stack) /\ ActiveCount /\ PlainOwned
  BY <1>1, ScriptStack, ActiveFacts
<1>4. old # g /\ g # Null
  BY <1>1, <1>2, ConstantsAssumption
<1>5. /\ wrapper \in [Wrappers -> Wrapper \cup {Null}]
      /\ gobject \in [GObjs -> GObject \cup {Null}]
  BY DEF Inv, TypeOK
<1>6. /\ wrapper' = [wrapper EXCEPT ![w] = new]
      /\ new \in Wrapper /\ new # Null /\ new.gobject = g /\ new.closures = wrapper[w].closures
  <2>1. new \in Wrapper /\ new.gobject = g /\ new.closures = wrapper[w].closures
    BY <1>2 DEF Wrapper
  <2>2. new # Null
    BY <2>1, NullAssumption
  <2> QED BY <1>1, <1>2, <1>5, <2>1, <2>2
<1>7. made \in GObject /\ made # Null /\ made.refs = 1 /\ made.native = FALSE /\ made.lost = 0
  <2>1. made \in GObject
    BY DEF GObject
  <2> QED BY <2>1, NullAssumption
<1>8. old # Null => /\ forgotten \in GObject /\ forgotten # Null
                    /\ forgotten.refs = gobject[old].refs
                    /\ forgotten.native = gobject[old].native
                    /\ gobject[old].lost \in Nat /\ forgotten.lost = gobject[old].lost + 1
  <2> HAVE old # Null
  <2>1. /\ forgotten \in GObject /\ forgotten.refs = gobject[old].refs
        /\ forgotten.native = gobject[old].native
        /\ gobject[old].lost \in Nat /\ forgotten.lost = gobject[old].lost + 1
    BY <1>2 DEF GObject
  <2> QED BY <2>1, NullAssumption
<1>9. /\ gobject'[g] = made
      /\ old # Null => gobject'[old] = forgotten
      /\ \A x \in GObjs : x # g /\ x # old => gobject'[x] = gobject[x]
      /\ gobject' \in [GObjs -> GObject \cup {Null}]
  <2>1. gobject'[g] = made
    <3> HIDE DEF made
    <3> QED BY <1>1, <1>4
  <2>2. old # Null => gobject'[old] = forgotten
    BY <1>1, <1>2, <1>4
  <2>3. \A x \in GObjs : x # g /\ x # old => gobject'[x] = gobject[x]
    BY <1>1
  <2>4. \A x \in GObjs : gobject'[x] \in GObject \cup {Null}
    <3> HIDE DEF made, forgotten, old
    <3>1. TAKE x \in GObjs
    <3>2. CASE x = g
      BY <3>2, <2>1, <1>7
    <3>3. CASE x = old
      <4>1. old # Null
        BY <3>3, ConstantsAssumption
      <4> QED BY <3>3, <4>1, <2>2, <1>8
    <3>4. CASE x # g /\ x # old
      BY <3>4, <2>3, <1>5
    <3> QED BY <3>2, <3>3, <3>4
  <2>5. gobject' = [x \in GObjs |-> gobject'[x]]
    BY <1>1
  <2> HIDE DEF made, forgotten
  <2> QED BY <2>1, <2>2, <2>3, <2>4, <2>5
<1> HIDE DEF w, old, made, forgotten, new
<1>10. /\ wrapper' \in [Wrappers -> Wrapper \cup {Null}]
       /\ \A v \in Wrappers : /\ wrapper'[v] = Null <=> wrapper[v] = Null
                              /\ wrapper[v] # Null =>
                                   wrapper'[v].closures = wrapper[v].closures
       /\ wrapper'[w] = new /\ \A v \in Wrappers : v # w => wrapper'[v] = wrapper[v]
  BY <1>2, <1>5, <1>6
<1>11. TypeOK'
  BY <1>1, <1>9, <1>10 DEF Inv, TypeOK
<1>12. \A x : UsesIn(stack, x)' = UsesIn(stack, x)
  BY <1>1 DEF UsesIn, Params
<1>13. ActiveCount'
  <2>1. \A x \in Zvals : zval[x] # Null => zval[x] \in Wrappers
    BY <1>3, ActiveFacts
  <2> QED BY <1>1, <1>3, <1>10, <1>12, <2>1 DEF ActiveCount
<1>14. Listed'
  BY <1>1, <1>10, ListedKept
<1>15. ASSUME NEW x \in GObjs
       PROVE  Right(gobject'[x], Cardinality(OwnersOf(x)'), ValuesIn(stack', x))
  <2>1. Right(gobject[x], Cardinality(OwnersOf(x)), ValuesIn(stack, x))
    BY <1>3 DEF PlainOwned
  <2>2. Cardinality(OwnersOf(x)) \in Nat /\ ValuesIn(stack, x) \in Nat /\ IsFiniteSet(OwnersOf(x))
    BY <1>3, ActiveFacts, OwnersNat
  <2>3. ValuesIn(stack', x) = ValuesIn(stack, x)
    BY <1>1
  <2>4. CASE x = g
    <3>1. Cardinality(OwnersOf(x)) = 0 /\ ValuesIn(stack, x) = 0
      BY <2>1, <2>4, <1>1 DEF Right
    <3>2. OwnersOf(x) = {}
      BY <2>2, <3>1, FS_EmptySet
    <3>3. OwnersOf(x)' = {w}
      BY <2>4, <3>2, <1>2, <1>6, <1>10 DEF OwnersOf
    <3>4. Cardinality(OwnersOf(x)') = 1
      BY <3>3, FS_Singleton
    <3> QED BY <2>3, <2>4, <3>1, <3>4, <1>7, <1>9 DEF Right, References
  <2>5. CASE x = old
    <3>1. old # Null
      BY <2>5, ConstantsAssumption
    <3>2. OwnersOf(x)' = OwnersOf(x) \ {w} /\ w \in OwnersOf(x)
      <4>1. new.gobject # x
        BY <1>4, <1>6, <2>5
      <4>2. wrapper[w].gobject = x
        BY <2>5 DEF old
      <4> QED BY <4>1, <4>2, <1>2, <1>10 DEF OwnersOf
    <3>3. Cardinality(OwnersOf(x)') = Cardinality(OwnersOf(x)) - 1
      BY <2>2, <3>2, FS_RemoveElement
    <3>4. gobject[x].refs = References(gobject[x], Cardinality(OwnersOf(x)), ValuesIn(stack, x))
      BY <2>1, <2>5, <3>1, <1>2 DEF Right
    <3>5. /\ forgotten # Null /\ forgotten.refs = gobject[x].refs
          /\ forgotten.native = gobject[x].native
          /\ gobject[x].lost \in Nat /\ forgotten.lost = gobject[x].lost + 1
      BY <2>5, <3>1, <1>8
    <3>6. gobject'[x] = forgotten
      BY <2>5, <3>1, <1>9
    <3> QED BY <2>2, <2>3, <3>3, <3>4, <3>5, <3>6 DEF Right, References
  <2>6. CASE x # g /\ x # old
    <3>1. OwnersOf(x)' = OwnersOf(x)
      <4>1. new.gobject # x /\ wrapper[w].gobject # x
        BY <2>6, <1>6 DEF old
      <4> QED BY <4>1, <1>2, <1>10 DEF OwnersOf
    <3> QED BY <2>1, <2>3, <2>6, <3>1, <1>9
  <2> QED BY <2>4, <2>5, <2>6
<1>16. PlainOwned'
  BY <1>15 DEF PlainOwned
<1>17. ClosuresWatched'
  <2> SUFFICES ASSUME NEW c \in Closures, closure[c] # Null
               PROVE  gobject'[closure[c].gobject] # Null
    BY <1>1 DEF ClosuresWatched
  <2>1. gobject[closure[c].gobject] # Null /\ closure[c].gobject \in GObjs
    BY DEF Inv, ClosuresWatched, TypeOK, Closure
  <2>2. CASE closure[c].gobject = old
    BY <2>1, <2>2, <1>8, <1>9, ConstantsAssumption
  <2> QED BY <2>1, <2>2, <1>1, <1>9
<1> QED BY <1>1, <1>11, <1>13, <1>14, <1>16, <1>17, ScriptStep

\* signal_connect of a callback.
LEMMA SignalConnectInv ==
    ASSUME NEW z \in Zvals, NEW c \in Closures, NEW p \in Zvals \cup {Null},
           Inv, SignalConnect(z, c, p)
    PROVE  Inv'
<1> DEFINE w == zval[z]
           g == wrapper[w].gobject
           list == wrapper[w].closures
           k == [gobject |-> g, zobject |-> w, param |-> p, connected |-> TRUE]
           new == [wrapper[w] EXCEPT !.closures = <<c>> \o list]
<1>1. /\ ScriptRuns /\ Usable(z) /\ FreshClosure(c) /\ (p # Null => Usable(p))
  BY DEF SignalConnect
<1>2. CASE g = Null /\ Crash("no_gobject")
  BY <1>2, CrashInv DEF Faults
<1>3. CASE g # Null
  <2>1. /\ closure' = [closure EXCEPT ![c] = k]
        /\ refcount' = ParamReferenced(p)
        /\ wrapper' = [wrapper EXCEPT ![w].closures = <<c>> \o @]
        /\ UNCHANGED <<phase, fault, request, zval, names, gobject, stack>>
    BY <1>3 DEF SignalConnect, RegisterGobjectClosure
  <2>2. /\ w \in Wrappers /\ wrapper[w] # Null /\ wrapper[w] \in Wrapper
        /\ g \in GObjs /\ gobject[g] # Null /\ closure[c] = Null
    BY <1>1, <1>3, UsableFacts DEF FreshClosure
  <2>3. phase = "active" /\ Plain(stack) /\ ActiveCount /\ PlainOwned
    BY <1>1, ScriptStack, ActiveFacts
  <2>4. /\ wrapper \in [Wrappers -> Wrapper \cup {Null}]
        /\ closure \in [Closures -> Closure \cup {Null}]
    BY DEF Inv, TypeOK
  <2>5. list \in Seq(Closures) /\ Injective(list) /\ c \notin Elements(list)
    BY <2>2 DEF Inv, Listed, Wrapper
  <2>6. /\ <<c>> \o list \in Seq(Closures) /\ Elements(<<c>> \o list) = {c} \cup Elements(list)
        /\ Injective(<<c>> \o list)
    <3> HIDE DEF list
    <3> QED BY <2>5, InjectivePush, PushFacts
  <2>7. /\ wrapper' = [wrapper EXCEPT ![w] = new] /\ new \in Wrapper /\ new # Null
        /\ new.gobject = g /\ new.closures = <<c>> \o list
    <3>1. new \in Wrapper /\ new.gobject = g /\ new.closures = <<c>> \o list
      BY <2>2, <2>6 DEF Wrapper
    <3> QED BY <2>1, <2>2, <2>4, <3>1, NullAssumption
  <2>8. k \in Closure /\ k # Null /\ k.gobject = g /\ k.zobject = w /\ k.param = p
    <3>1. k \in Closure
      BY <2>2 DEF Closure
    <3> QED BY <3>1, NullAssumption
  <2> HIDE DEF k, new, list, w, g
  <2>9. /\ closure' \in [Closures -> Closure \cup {Null}]
        /\ closure'[c] = k /\ \A d \in Closures : d # c => closure'[d] = closure[d]
    BY <2>1, <2>4, <2>8
  <2>10. /\ wrapper' \in [Wrappers -> Wrapper \cup {Null}]
         /\ wrapper'[w] = new /\ \A v \in Wrappers : v # w => wrapper'[v] = wrapper[v]
         /\ \A v \in Wrappers : wrapper'[v] = Null <=> wrapper[v] = Null
    BY <2>2, <2>4, <2>7
  <2>11. \A x \in Zvals :
            Cardinality(Params(x)') = Cardinality(Params(x)) + (IF x = p THEN 1 ELSE 0)
    <3> TAKE x \in Zvals
    <3>1. CASE x = p
      <4>1. Params(x)' = Params(x) \cup {c} /\ c \notin Params(x)
        BY <3>1, <2>2, <2>8, <2>9 DEF Params
      <4>2. IsFiniteSet(Params(x))
        BY CountsNat
      <4> QED BY <3>1, <4>1, <4>2, FS_AddElement
    <3>2. CASE x # p
      <4>1. Params(x)' = Params(x)
        BY <3>2, <2>2, <2>8, <2>9 DEF Params
      <4>2. Cardinality(Params(x)) \in Nat
        BY CountsNat
      <4> QED BY <3>2, <4>1, <4>2
    <3> QED BY <3>1, <3>2
  <2>12. \A x \in Zvals : names'[x] + HeldIn(stack', x) + Cardinality(Params(x)')
                            = names[x] + HeldIn(stack, x) + Cardinality(Params(x))
                                + (IF x = p THEN 1 ELSE 0)
    <3> TAKE x \in Zvals
    <3>1. /\ names[x] \in Nat /\ HeldIn(stack, x) \in Nat /\ Cardinality(Params(x)) \in Nat
      BY <2>3, ActiveFacts
    <3>2. names'[x] = names[x] /\ HeldIn(stack', x) = HeldIn(stack, x)
      BY <2>1
    <3> QED BY <2>11, <3>1, <3>2
  <2>13. refcount' = IF p = Null THEN refcount ELSE [refcount EXCEPT ![p] = @ + 1]
    BY <2>1 DEF ParamReferenced
  <2>14. p # Null => refcount[p] # 0
    BY <1>1, UsableFacts
  <2>15. ActiveCount' /\ refcount' \in [Zvals -> Nat]
    <3>1. zval' = zval /\ \A v \in Wrappers : wrapper[v] # Null => wrapper'[v] # Null
      BY <2>1, <2>10
    <3> QED BY <2>3, <2>12, <2>13, <2>14, <3>1, Referenced
  <2>16. TypeOK'
    BY <2>1, <2>9, <2>10, <2>15 DEF Inv, TypeOK
  <2>17. PlainOwned'
    <3>1. \A x : OwnersOf(x)' = OwnersOf(x)
      <4>1. wrapper[w].gobject = g
        BY DEF g
      <4> QED BY <4>1, <2>2, <2>7, <2>10 DEF OwnersOf
    <3> QED BY <2>1, <2>3, <3>1 DEF PlainOwned
  <2>18. Listed'
    <3>1. \A d \in Closures : closure[d] # Null => /\ closure[d].zobject \in Wrappers
                                                   /\ wrapper[closure[d].zobject] # Null
      BY DEF Inv, Listed, TypeOK, Closure
    <3>2. ASSUME NEW d \in Closures, closure'[d] # Null PROVE wrapper'[closure'[d].zobject] # Null
      <4>1. CASE d = c
        BY <4>1, <2>7, <2>8, <2>9, <2>10
      <4>2. CASE d # c
        BY <4>2, <3>1, <3>2, <2>9, <2>10
      <4> QED BY <4>1, <4>2
    <3>3. ASSUME NEW v \in Wrappers, wrapper'[v] # Null
          PROVE  /\ Elements(wrapper'[v].closures) =
                      {d \in Closures : closure'[d] # Null /\ closure'[d].zobject = v}
                 /\ Injective(wrapper'[v].closures)
      <4>1. /\ Elements(wrapper[v].closures) =
                 {d \in Closures : closure[d] # Null /\ closure[d].zobject = v}
            /\ Injective(wrapper[v].closures)
        BY <3>3, <2>10 DEF Inv, Listed
      <4>2. CASE v = w
        <5>1. wrapper'[v].closures = <<c>> \o list /\ list = wrapper[v].closures
          BY <4>2, <2>7, <2>10 DEF list
        <5>2. {d \in Closures : closure'[d] # Null /\ closure'[d].zobject = v}
                = {c} \cup {d \in Closures : closure[d] # Null /\ closure[d].zobject = v}
          BY <4>2, <2>2, <2>8, <2>9
        <5> QED BY <4>1, <5>1, <5>2, <2>6
      <4>3. CASE v # w
        <5>1. {d \in Closures : closure'[d] # Null /\ closure'[d].zobject = v}
                = {d \in Closures : closure[d] # Null /\ closure[d].zobject = v}
          BY <4>3, <2>2, <2>8, <2>9
        <5> QED BY <4>1, <4>3, <5>1, <2>10
      <4> QED BY <4>2, <4>3
    <3> QED BY <3>2, <3>3 DEF Listed
  <2>19. ClosuresWatched'
    <3> SUFFICES ASSUME NEW d \in Closures, closure'[d] # Null
                 PROVE  gobject[closure'[d].gobject] # Null
      BY <2>1 DEF ClosuresWatched
    <3>1. CASE d = c
      BY <3>1, <2>2, <2>8, <2>9
    <3>2. CASE d # c
      BY <3>2, <2>9 DEF Inv, ClosuresWatched
    <3> QED BY <3>1, <3>2
  <2> QED BY <1>1, <2>1, <2>15, <2>16, <2>17, <2>18, <2>19, ScriptStep
<1> QED BY <1>2, <1>3 DEF SignalConnect

\* signal_disconnect: at once, or when the handler returns.
LEMMA SignalDisconnectInv ==
    ASSUME NEW z \in Zvals, NEW c \in Closures, Inv, SignalDisconnect(z, c) PROVE Inv'
<1>1. ScriptRuns /\ closure[c] # Null
  BY DEF SignalDisconnect
<1>2. /\ phase = "active" /\ Plain(stack) /\ ActiveCount /\ PlainOwned
      /\ \A f \in Elements(stack) : Is(f, {"emit", "handler"})
      /\ stack \in Seq(Frames)
  BY <1>1, ScriptStack, ActiveFacts
<1>3. CASE Invalidate(c, stack)
  <2>1. \A f \in Elements(stack) : Live(f)
    BY DEF Inv, Framed
  <2>2. Replaces(stack)
    <3>1. Stacked(stack) /\ OnEmit(stack) /\ \A b \in Elements(stack) : ~Is(b, {"marshal"})
      BY <1>2 DEF Inv, Framed, Is
    <3> QED BY <1>2, <3>1, PlainReplaces
  <2> QED BY <1>1, <1>2, <1>3, <2>1, <2>2, InvalidateStep
<1>4. CASE /\ closure' = [closure EXCEPT ![c].connected = FALSE]
           /\ UNCHANGED <<phase, fault, request, zval, refcount, names, wrapper, gobject, stack>>
  <2> DEFINE k == [closure[c] EXCEPT !.connected = FALSE]
  <2>1. closure \in [Closures -> Closure \cup {Null}] /\ closure[c] \in Closure
    BY <1>1 DEF Inv, TypeOK
  <2>2. /\ k \in Closure /\ k # Null /\ k.gobject = closure[c].gobject
        /\ k.zobject = closure[c].zobject /\ k.param = closure[c].param
    <3>1. /\ k \in Closure /\ k.gobject = closure[c].gobject
          /\ k.zobject = closure[c].zobject /\ k.param = closure[c].param
      BY <2>1 DEF Closure
    <3> QED BY <3>1, NullAssumption
  <2>3. closure' = [closure EXCEPT ![c] = k]
    BY <1>4, <2>1
  <2> HIDE DEF k
  <2>4. /\ closure' \in [Closures -> Closure \cup {Null}]
        /\ \A d \in Closures : /\ closure'[d] = Null <=> closure[d] = Null
                               /\ closure[d] # Null =>
                                    /\ closure'[d].gobject = closure[d].gobject
                                    /\ closure'[d].zobject = closure[d].zobject
                                    /\ closure'[d].param = closure[d].param
    BY <1>1, <2>1, <2>2, <2>3
  <2>5. TypeOK'
    BY <1>4, <2>4 DEF Inv, TypeOK
  <2>6. \A x : Params(x)' = Params(x) /\ OwnersOf(x)' = OwnersOf(x)
    BY <1>4, <2>4 DEF Params, OwnersOf
  <2>7. \A x : UsesIn(stack, x)' = UsesIn(stack, x)
    BY <1>4, <2>6 DEF UsesIn
  <2>8. ActiveCount' /\ PlainOwned'
    BY <1>2, <1>4, <2>6, <2>7 DEF ActiveCount, PlainOwned
  <2>9. Listed' /\ ClosuresWatched'
    <3>1. \A v : {d \in Closures : closure'[d] # Null /\ closure'[d].zobject = v}
                   = {d \in Closures : closure[d] # Null /\ closure[d].zobject = v}
      BY <2>4
    <3> QED BY <1>4, <2>4, <3>1 DEF Inv, Listed, ClosuresWatched
  <2> QED BY <1>1, <1>4, <2>5, <2>8, <2>9, ScriptStep
<1> QED BY <1>3, <1>4 DEF SignalDisconnect

-----------------------------------------------------------------------------
(* Emissions and callbacks                                                  *)

\* A stack of calls that destroy nothing.
Going(t) ==
    /\ t \in Seq(Frames) /\ Stacked(t) /\ OnEmit(t) /\ Plain(t)
    /\ \A f \in Elements(t) : Live(f)

\* A step from calls that destroy nothing to others, which frees nothing.
LEMMA GoingStep ==
    ASSUME Inv, phase = "active", Going(stack'), UNCHANGED <<phase, fault, request, closure>>,
           zval' \in [Zvals -> Wrappers \cup {Null}], refcount' \in [Zvals -> Nat],
           names' \in [Zvals -> 0 .. MaxVars],
           wrapper' \in [Wrappers -> Wrapper \cup {Null}],
           gobject' \in [GObjs -> GObject \cup {Null}],
           \A g \in GObjs : gobject[g] # Null => gobject'[g] # Null,
           Listed', ActiveCount', PlainOwned'
    PROVE  Inv'
<1>1. TypeOK'
  BY DEF Inv, TypeOK, Going
<1>2. ClosuresWatched'
  <2> SUFFICES ASSUME NEW c \in Closures, closure[c] # Null
               PROVE  gobject'[closure[c].gobject] # Null
    BY DEF ClosuresWatched
  <2>1. gobject[closure[c].gobject] # Null /\ closure[c].gobject \in GObjs
    BY DEF Inv, ClosuresWatched, TypeOK, Closure
  <2> QED BY <2>1
<1>3. \A f \in Elements(stack') : Live(f)'
  BY StillLive DEF Going, Plain
<1> QED BY <1>1, <1>2, <1>3, PlainStep DEF Going

\* What changes one GObject frees none.
LEMMA OneGObject ==
    ASSUME Inv, PlainOwned, NEW g \in GObjs, NEW o \in GObject,
           gobject' = [gobject EXCEPT ![g] = o],
           \A x \in GObjs \ {g} : /\ Cardinality(OwnersOf(x)') = Cardinality(OwnersOf(x))
                                  /\ ValuesIn(stack', x) = ValuesIn(stack, x),
           Right(o, Cardinality(OwnersOf(g)'), ValuesIn(stack', g))
    PROVE  /\ PlainOwned' /\ gobject' \in [GObjs -> GObject \cup {Null}]
           /\ \A x \in GObjs : gobject[x] # Null => gobject'[x] # Null
<1>1. /\ gobject' \in [GObjs -> GObject \cup {Null}] /\ gobject'[g] = o /\ o # Null
      /\ \A x \in GObjs : x # g => gobject'[x] = gobject[x]
  BY NullAssumption DEF Inv, TypeOK
<1>2. PlainOwned'
  <2> SUFFICES ASSUME NEW x \in GObjs
               PROVE  Right(gobject'[x], Cardinality(OwnersOf(x)'), ValuesIn(stack', x))
    BY DEF PlainOwned
  <2>1. CASE x = g
    BY <2>1, <1>1
  <2>2. CASE x # g
    BY <2>2, <1>1 DEF PlainOwned
  <2> QED BY <2>1, <2>2
<1> QED BY <1>1, <1>2

\* GObjects, their owners and the values in the frames as they were.
LEMMA SameGObjects ==
    ASSUME PlainOwned, gobject' = gobject, wrapper' = wrapper,
           \A x \in GObjs : ValuesIn(stack', x) = ValuesIn(stack, x)
    PROVE  PlainOwned'
<1>1. \A x : OwnersOf(x)' = OwnersOf(x)
  BY DEF OwnersOf
<1> QED BY <1>1 DEF PlainOwned

\* What is a value of an emission in progress is there.
LEMMA ValueIsThere ==
    ASSUME Inv, NEW g \in GObjs, ValuesIn(stack, g) \in Nat \ {0}
    PROVE  gobject[g] # Null /\ gobject[g] \in GObject
<1>1. gobject[g] # Null
  BY DEF Inv, Owned
<1> QED BY <1>1 DEF Inv, TypeOK

\* The emission that calls the marshaller or callback at the top.
LEMMA EmitBelow ==
    ASSUME Inv, stack # <<>>, Is(Top, {"marshal", "handler"})
    PROVE  LET e == Head(Below)
               rest == Tail(Below)
           IN  /\ e \in Frames /\ e.at = "emit" /\ Live(e) /\ Sits(Top, e)
               /\ e.values \in Seq(GObjs) /\ e.values # <<>>
               /\ Below # <<>> /\ Pushed(Below, e, rest) /\ Base(rest)
               /\ \A f \in Elements(rest) : Live(f)
               /\ \A x : /\ HeldIn(rest, x) \in Nat /\ ValuesIn(rest, x) \in Nat
                         /\ Uses(e, x) \in Nat /\ Gives(e, x) \in Nat
                         /\ HeldIn(Below, x) = HeldIn(rest, x) + Uses(e, x)
                         /\ ValuesIn(Below, x) = ValuesIn(rest, x) + Gives(e, x)
               /\ \A x \in Elements(e.values) : /\ x \in GObjs /\ gobject[x] # Null
                                                /\ gobject[x] \in GObject
<1> DEFINE e == Head(Below)
           rest == Tail(Below)
<1>1. /\ Top \in Frames /\ Below \in Seq(Frames) /\ Base(Below) /\ Fits(Top, Below)
      /\ \A b \in Elements(Below) : Is(b, {"emit", "handler"}) /\ Live(b)
      /\ \A x : /\ ValuesIn(Below, x) \in Nat /\ Gives(Top, x) \in Nat
                /\ ValuesIn(stack, x) = ValuesIn(Below, x) + Gives(Top, x)
  <2>1. ~Is(Top, Destructs)
    BY DEF Is, Destructs
  <2> QED BY <2>1, PlainTop
<1>2. Below # <<>> /\ Sits(Top, e)
  BY <1>1 DEF Fits
<1>3. /\ e \in Frames /\ rest \in Seq(Frames) /\ Below = <<e>> \o rest
      /\ Elements(Below) = {e} \cup Elements(rest)
  BY <1>1, <1>2, TopFacts
<1> HIDE DEF e, rest
<1>4. e.at = "emit" /\ Live(e)
  BY <1>1, <1>2, <1>3 DEF Sits, Is
<1>5. e.values \in Seq(GObjs) /\ e.values # <<>>
  BY <1>3, <1>4, FrameFields DEF Live, Is
<1>6. Base(rest)
  <2>1. Stacked(<<e>> \o rest) /\ OnEmit(<<e>> \o rest)
    BY <1>1, <1>3 DEF Base
  <2>2. Stacked(rest) /\ OnEmit(rest)
    BY <1>3, <2>1, StackedPush, OnEmitPush
  <2> QED BY <1>1, <1>3, <2>2 DEF Base
<1>7. Pushed(Below, e, rest) /\ Fits(e, rest) /\ ~Is(e, Destructs)
  BY <1>3, <1>4 DEF Pushed, Fits, Is, Destructs
<1>8. \A x : /\ HeldIn(rest, x) \in Nat /\ ValuesIn(rest, x) \in Nat
             /\ Uses(e, x) \in Nat /\ Gives(e, x) \in Nat
             /\ HeldIn(Below, x) = HeldIn(rest, x) + Uses(e, x)
             /\ ValuesIn(Below, x) = ValuesIn(rest, x) + Gives(e, x)
  BY <1>3, <1>6, <1>7, PushFrame
<1>9. ASSUME NEW x \in Elements(e.values)
      PROVE  x \in GObjs /\ gobject[x] # Null /\ gobject[x] \in GObject
  <2>1. x \in GObjs
    BY <1>5, ElementsFacts
  <2>2. Count(x, e.values) \in Nat \ {0}
    BY <1>5, CountFacts
  <2>3. GivenOf(e, x) = Count(x, e.values) /\ RetOf(e, x) \in Nat
    BY <1>3, <1>4, FrameHolds DEF GivenOf, Is
  <2>4. Gives(e, x) \in Nat \ {0}
    BY <2>2, <2>3 DEF Gives
  <2>5. ValuesIn(stack, x) \in Nat \ {0}
    BY <1>1, <1>8, <2>4
  <2> QED BY <2>1, <2>5, ValueIsThere
<1> QED BY <1>1, <1>2, <1>3, <1>4, <1>5, <1>6, <1>7, <1>8, <1>9 DEF e, rest

PushedTwo(t, a, e, s) == t = <<a, e>> \o s

\* A frame on an emission that is as it was but for what it has to do or returns.
LEMMA TwoFrames ==
    ASSUME NEW s, Base(s), NEW e \in Frames, e.at = "emit",
           NEW a \in Frames, ~Is(a, Destructs),
           Is(a, {"marshal"}) => Elements(a.values) \subseteq Elements(e.values),
           NEW t, PushedTwo(t, a, e, s)
    PROVE  /\ t \in Seq(Frames) /\ Elements(t) = {a, e} \cup Elements(s)
           /\ Stacked(t) /\ OnEmit(t) /\ Plain(t)
           /\ \A x : /\ HeldIn(s, x) \in Nat /\ ValuesIn(s, x) \in Nat
                     /\ Uses(a, x) \in Nat /\ Gives(a, x) \in Nat
                     /\ Uses(e, x) \in Nat /\ Gives(e, x) \in Nat
                     /\ HeldIn(t, x) = HeldIn(s, x) + Uses(e, x) + Uses(a, x)
                     /\ ValuesIn(t, x) = ValuesIn(s, x) + Gives(e, x) + Gives(a, x)
<1> DEFINE u == <<e>> \o s
<1>1. Pushed(u, e, s) /\ Fits(e, s) /\ ~Is(e, Destructs)
  BY DEF Pushed, Fits, Is, Destructs
<1>2. t = <<a>> \o u
  BY DEF Base, PushedTwo
<1> HIDE DEF u
<1>3. /\ u \in Seq(Frames) /\ Elements(u) = {e} \cup Elements(s)
      /\ u # <<>> /\ Head(u) = e /\ Stacked(u) /\ OnEmit(u)
      /\ \A x : /\ HeldIn(s, x) \in Nat /\ ValuesIn(s, x) \in Nat
                /\ Uses(e, x) \in Nat /\ Gives(e, x) \in Nat
                /\ HeldIn(u, x) = HeldIn(s, x) + Uses(e, x)
                /\ ValuesIn(u, x) = ValuesIn(s, x) + Gives(e, x)
  BY <1>1, PushFrame
<1>4. Base(u)
  <2>1. Is(e, {"emit", "handler"})
    BY DEF Is
  <2> QED BY <1>3, <2>1 DEF Base
<1>5. Fits(a, u) /\ Pushed(t, a, u)
  <2>1. Is(e, {"emit"})
    BY DEF Is
  <2> QED BY <1>2, <1>3, <2>1 DEF Fits, Sits, Pushed
<1>6. /\ t \in Seq(Frames) /\ Elements(t) = {a} \cup Elements(u)
      /\ Stacked(t) /\ OnEmit(t) /\ Plain(t)
      /\ \A x : /\ Uses(a, x) \in Nat /\ Gives(a, x) \in Nat
                /\ HeldIn(t, x) = HeldIn(u, x) + Uses(a, x)
                /\ ValuesIn(t, x) = ValuesIn(u, x) + Gives(a, x)
  <2>1. a \in Frames /\ ~Is(a, Destructs) /\ Base(u) /\ Fits(a, u) /\ Pushed(t, a, u)
    BY <1>4, <1>5
  <2> QED BY <2>1, PushFrame
<1>7. Elements(t) = {a, e} \cup Elements(s)
  BY <1>3, <1>6
<1>8. \A x : /\ HeldIn(t, x) = HeldIn(s, x) + Uses(e, x) + Uses(a, x)
             /\ ValuesIn(t, x) = ValuesIn(s, x) + Gives(e, x) + Gives(a, x)
  BY <1>3, <1>6
<1> QED BY <1>3, <1>6, <1>7, <1>8

\* An emission with other handlers to call, ...
WithTodo(f, cs) == [f EXCEPT !.todo = cs]

\* It holds the same.
LEMMA TodoChanges ==
    ASSUME NEW f \in Frames, f.at = "emit", NEW cs, cs \subseteq Closures
    PROVE  /\ WithTodo(f, cs) \in Frames /\ WithTodo(f, cs).at = "emit"
           /\ WithTodo(f, cs).values = f.values
           /\ \A x : /\ Uses(WithTodo(f, cs), x) = Uses(f, x)
                     /\ Gives(WithTodo(f, cs), x) = Gives(f, x)
<1> DEFINE e == WithTodo(f, cs)
<1>1. f \in [at : {"emit"}, this : Zvals \cup {Null}, values : Seq(GObjs),
             todo : SUBSET Closures, ret : BOOLEAN]
  BY FrameFields
<1>2. e \in [at : {"emit"}, this : Zvals \cup {Null}, values : Seq(GObjs),
             todo : SUBSET Closures, ret : BOOLEAN]
  BY <1>1 DEF WithTodo
<1>3. e \in Frames
  BY <1>2 DEF Frames
<1>4. e.at = "emit" /\ e.values = f.values /\ e.this = f.this /\ e.ret = f.ret
  BY <1>1 DEF WithTodo
<1> HIDE DEF e
<1>5. \A x : /\ ThisOf(e, x) = ThisOf(f, x) /\ ArgsOf(e, x) = ArgsOf(f, x)
             /\ GivenOf(e, x) = GivenOf(f, x) /\ RetOf(e, x) = RetOf(f, x)
  BY <1>4 DEF ThisOf, ArgsOf, GivenOf, RetOf, Is
<1> QED BY <1>3, <1>4, <1>5 DEF Uses, Gives, e

\* ... or that returns the emitter, or nothing.
WithRet(f, ret) == [f EXCEPT !.ret = ret]

\* It holds the value that is returned besides.
LEMMA RetChanges ==
    ASSUME NEW f \in Frames, f.at = "emit", NEW ret \in BOOLEAN
    PROVE  /\ WithRet(f, ret) \in Frames /\ WithRet(f, ret).at = "emit"
           /\ WithRet(f, ret).values = f.values
           /\ \A x : /\ Uses(WithRet(f, ret), x) = Uses(f, x)
                     /\ Gives(WithRet(f, ret), x)
                          = GivenOf(f, x) + (IF ret /\ Head(f.values) = x THEN 1 ELSE 0)
                     /\ Gives(f, x)
                          = GivenOf(f, x) + (IF f.ret /\ Head(f.values) = x THEN 1 ELSE 0)
                     /\ GivenOf(f, x) \in Nat
<1> DEFINE e == WithRet(f, ret)
<1>1. f \in [at : {"emit"}, this : Zvals \cup {Null}, values : Seq(GObjs),
             todo : SUBSET Closures, ret : BOOLEAN]
  BY FrameFields
<1>2. e \in [at : {"emit"}, this : Zvals \cup {Null}, values : Seq(GObjs),
             todo : SUBSET Closures, ret : BOOLEAN]
  BY <1>1 DEF WithRet
<1>3. e \in Frames
  BY <1>2 DEF Frames
<1>4. e.at = "emit" /\ e.values = f.values /\ e.this = f.this /\ e.ret = ret
  BY <1>1 DEF WithRet
<1> HIDE DEF e
<1>5. \A x : /\ ThisOf(e, x) = ThisOf(f, x) /\ ArgsOf(e, x) = ArgsOf(f, x)
             /\ GivenOf(e, x) = GivenOf(f, x)
             /\ RetOf(e, x) = (IF ret /\ Head(f.values) = x THEN 1 ELSE 0)
             /\ RetOf(f, x) = (IF f.ret /\ Head(f.values) = x THEN 1 ELSE 0)
             /\ GivenOf(f, x) \in Nat
  <2>1. \A x : GivenOf(f, x) \in Nat
    BY FrameHolds
  <2> QED BY <1>4, <2>1 DEF ThisOf, ArgsOf, GivenOf, RetOf, Is
<1> QED BY <1>3, <1>4, <1>5 DEF Uses, Gives, e

\* What the emission at the top holds.
LEMMA EmitTop ==
    ASSUME Inv, TopIs({"emit"})
    PROVE  LET z == Top.this
               gs == Top.values
           IN  /\ stack # <<>> /\ Top.at = "emit" /\ ~Is(Top, Destructs)
               /\ z \in Zvals \cup {Null} /\ gs \in Seq(GObjs) /\ gs # <<>>
               /\ Top.todo \subseteq Closures /\ Top.ret \in BOOLEAN
               /\ Head(gs) \in GObjs
               /\ \A x : /\ Uses(Top, x) = (IF z = x THEN 1 ELSE 0)
                         /\ Gives(Top, x) = Count(x, gs) + (IF Top.ret /\ Head(gs) = x THEN 1 ELSE 0)
                         /\ Count(x, gs) \in Nat
<1>1. stack # <<>> /\ Top.at = "emit" /\ ~Is(Top, Destructs)
  BY DEF TopIs, Is, Destructs
<1>2. Top \in Frames /\ Live(Top)
  BY <1>1, PlainTop
<1> DEFINE z == Top.this
           gs == Top.values
           cs == Top.todo
           ret == Top.ret
<1>3. /\ z \in Zvals \cup {Null} /\ gs \in Seq(GObjs) /\ cs \in SUBSET Closures
      /\ ret \in BOOLEAN /\ Top = EmitOf(z, gs, cs, ret)
  BY <1>1, <1>2, FrameFields, FrameShapes
<1>4. gs # <<>>
  BY <1>1, <1>2 DEF Live, Is
<1>5. Head(gs) \in GObjs
  BY <1>3, <1>4, TopFacts
<1> HIDE DEF z, gs, cs, ret
<1>6. \A x : /\ Uses(Top, x) = (IF z = x THEN 1 ELSE 0)
             /\ Gives(Top, x) = Count(x, gs) + (IF ret /\ Head(gs) = x THEN 1 ELSE 0)
             /\ Count(x, gs) \in Nat
  <2>1. z \in Zvals \cup {Null} /\ gs \in Seq(GObjs) /\ cs \in SUBSET Closures /\ ret \in BOOLEAN
    BY <1>3
  <2>2. LET f == EmitOf(z, gs, cs, ret)
        IN  \A x : /\ Uses(f, x) = (IF z = x THEN 1 ELSE 0)
                   /\ Gives(f, x) = Count(x, gs) + (IF ret /\ Head(gs) = x THEN 1 ELSE 0)
                   /\ Count(x, gs) \in Nat
    BY <2>1, EmitMakes
  <2> QED BY <1>3, <2>2
<1> QED BY <1>1, <1>3, <1>4, <1>5, <1>6 DEF z, gs, cs, ret

\* The marshaller of the next handler begins.
LEMMA MarshalInv ==
    ASSUME NEW c \in Closures, Inv, phase = "active", Marshal(c) PROVE Inv'
<1> DEFINE cs == Top.todo \ {c}
           e == WithTodo(Top, cs)
           a == MarshalFrame(c, Top.values, <<>>)
<1>1. /\ TopIs({"emit"}) /\ closure[c] # Null
      /\ stack' = <<a, [Top EXCEPT !.todo = cs]>> \o Below
      /\ UNCHANGED <<phase, fault, request, zval, refcount, names, wrapper, gobject, closure>>
  BY DEF Marshal, ConnectedTo
<1>2. /\ stack # <<>> /\ Top.at = "emit" /\ ~Is(Top, Destructs)
      /\ Top.this \in Zvals \cup {Null} /\ Top.values \in Seq(GObjs) /\ Top.values # <<>>
      /\ Top.todo \subseteq Closures /\ Top.ret \in BOOLEAN
      /\ \A x : /\ Uses(Top, x) = (IF Top.this = x THEN 1 ELSE 0)
                /\ Gives(Top, x) = Count(x, Top.values)
                                     + (IF Top.ret /\ Head(Top.values) = x THEN 1 ELSE 0)
  BY <1>1, EmitTop
<1>3. /\ Top \in Frames /\ Base(Below) /\ Plain(stack)
      /\ \A b \in Elements(Below) : Live(b)
      /\ \A x : /\ HeldIn(stack, x) = HeldIn(Below, x) + Uses(Top, x)
                /\ ValuesIn(stack, x) = ValuesIn(Below, x) + Gives(Top, x)
  BY <1>2, PlainTop
<1>4. /\ e \in Frames /\ e.at = "emit" /\ e.values = Top.values
      /\ \A x : Uses(e, x) = Uses(Top, x) /\ Gives(e, x) = Gives(Top, x)
  <2>1. cs \subseteq Closures
    BY <1>2
  <2> HIDE DEF cs
  <2> QED BY <1>2, <1>3, <2>1, TodoChanges
<1>5. /\ a \in Frames /\ a.at = "marshal" /\ a.closure = c /\ a.values = Top.values
      /\ ~Is(a, Destructs) /\ \A x : Uses(a, x) = 0 /\ Gives(a, x) = 0
  <2> DEFINE args == <<>>
  <2>1. args \in Seq(Zvals) /\ \A x : Count(x, args) = 0
    BY CountEmpty
  <2> HIDE DEF args
  <2> DEFINE f == MarshalFrame(c, Top.values, args)
  <2>2. /\ f \in Frames /\ f.at = "marshal" /\ f.closure = c /\ f.values = Top.values
        /\ ~Is(f, Destructs) /\ \A x : Uses(f, x) = 0 /\ Gives(f, x) = 0
    BY <1>2, <2>1, MarshalMakes
  <2> QED BY <2>2 DEF args
<1>6. PushedTwo(stack', a, e, Below)
  BY <1>1 DEF PushedTwo, WithTodo
<1> HIDE DEF a, e
<1>7. /\ stack' \in Seq(Frames) /\ Elements(stack') = {a, e} \cup Elements(Below)
      /\ Stacked(stack') /\ OnEmit(stack') /\ Plain(stack')
      /\ \A x : /\ HeldIn(Below, x) \in Nat /\ ValuesIn(Below, x) \in Nat
                /\ Uses(e, x) \in Nat /\ Gives(e, x) \in Nat
                /\ HeldIn(stack', x) = HeldIn(Below, x) + Uses(e, x) + Uses(a, x)
                /\ ValuesIn(stack', x) = ValuesIn(Below, x) + Gives(e, x) + Gives(a, x)
  BY <1>3, <1>4, <1>5, <1>6, TwoFrames
<1>8. \A x : HeldIn(stack', x) = HeldIn(stack, x) /\ ValuesIn(stack', x) = ValuesIn(stack, x)
  BY <1>3, <1>4, <1>5, <1>7
<1>9. Live(a) /\ Live(e)
  BY <1>1, <1>2, <1>4, <1>5 DEF Live, Is, FreeStorage
<1>10. Follows(stack')
  <2>1. \A w : ~FreeingIn(stack', w)
    BY <1>7, PlainFacts
  <2> QED BY <1>3, <1>7, <1>8, <1>9, <2>1 DEF Follows
<1>11. \A g : Owning(stack', g) = Owning(stack, g)
  BY <1>3, <1>7, PlainFacts
<1>12. phase # "idle"
  OBVIOUS
<1> QED BY <1>1, <1>8, <1>10, <1>11, <1>12, MoveStep

\* The last handler has returned.
LEMMA EmitEndInv == ASSUME Inv, phase = "active", EmitEnd PROVE Inv'
<1> DEFINE g == Head(Top.values)
           gs == IF Top.ret THEN Append(Top.values, g) ELSE Top.values
           a == UnsetFrame(Top.this, gs)
<1>1. /\ TopIs({"emit"})
      /\ stack' = <<a>> \o Below
      /\ UNCHANGED <<phase, fault, request, zval, refcount, names, wrapper, gobject, closure>>
  BY DEF EmitEnd
<1>2. /\ stack # <<>> /\ Top.at = "emit" /\ ~Is(Top, Destructs)
      /\ Top.this \in Zvals \cup {Null} /\ Top.values \in Seq(GObjs)
      /\ Top.ret \in BOOLEAN /\ g \in GObjs
      /\ \A x : /\ Uses(Top, x) = (IF Top.this = x THEN 1 ELSE 0)
                /\ Gives(Top, x) = Count(x, Top.values) + (IF Top.ret /\ g = x THEN 1 ELSE 0)
                /\ Count(x, Top.values) \in Nat
  BY <1>1, EmitTop
<1>3. /\ Top \in Frames /\ Base(Below) /\ Plain(stack)
      /\ \A b \in Elements(Below) : Live(b)
      /\ \A x : /\ HeldIn(stack, x) = HeldIn(Below, x) + Uses(Top, x)
                /\ ValuesIn(stack, x) = ValuesIn(Below, x) + Gives(Top, x)
  BY <1>2, PlainTop
<1>4. /\ gs \in Seq(GObjs)
      /\ \A x : Count(x, gs) = Count(x, Top.values) + (IF Top.ret /\ g = x THEN 1 ELSE 0)
  <2> HIDE DEF g
  <2>1. CASE Top.ret
    <3> DEFINE r == Append(Top.values, g)
    <3>1. r \in Seq(GObjs)
      BY <1>2
    <3>2. \A x : Count(x, r) = Count(x, Top.values) + (IF g = x THEN 1 ELSE 0)
      BY <1>2, CountAppend
    <3>3. gs = r
      BY <2>1
    <3> HIDE DEF r, gs
    <3> QED BY <2>1, <3>1, <3>2, <3>3
  <2>2. CASE ~Top.ret
    <3>1. gs = Top.values
      BY <2>2
    <3> HIDE DEF gs
    <3> QED BY <2>2, <3>1, <1>2
  <2> QED BY <2>1, <2>2
<1> HIDE DEF gs
<1>5. /\ a \in Frames /\ a.at = "unset" /\ ~Is(a, Destructs)
      /\ \A x : Uses(a, x) = Uses(Top, x) /\ Gives(a, x) = Gives(Top, x)
  <2>1. LET f == UnsetFrame(Top.this, gs)
        IN  /\ f \in Frames /\ f.at = "unset" /\ ~Is(f, Destructs)
            /\ \A x : /\ Uses(f, x) = (IF Top.this = x THEN 1 ELSE 0)
                      /\ Gives(f, x) = Count(x, gs)
    BY <1>2, <1>4, UnsetMakes
  <2> HIDE DEF g
  <2> QED BY <2>1, <1>2, <1>4
<1> HIDE DEF a, g
<1>6. Pushed(stack', a, Below) /\ Fits(a, Below)
  BY <1>1, <1>5 DEF Pushed, Fits, Is
<1>7. /\ stack' \in Seq(Frames) /\ Elements(stack') = {a} \cup Elements(Below)
      /\ Stacked(stack') /\ OnEmit(stack') /\ Plain(stack')
      /\ \A x : /\ HeldIn(stack', x) = HeldIn(Below, x) + Uses(a, x)
                /\ ValuesIn(stack', x) = ValuesIn(Below, x) + Gives(a, x)
  BY <1>3, <1>5, <1>6, PushFrame
<1>8. \A x : HeldIn(stack', x) = HeldIn(stack, x) /\ ValuesIn(stack', x) = ValuesIn(stack, x)
  BY <1>3, <1>5, <1>7
<1>9. Follows(stack')
  <2>1. Live(a)
    BY <1>5 DEF Live, Is, FreeStorage
  <2>2. \A w : ~FreeingIn(stack', w)
    BY <1>7, PlainFacts
  <2> QED BY <1>3, <1>7, <1>8, <2>1, <2>2 DEF Follows
<1>10. \A x : Owning(stack', x) = Owning(stack, x)
  BY <1>3, <1>7, PlainFacts
<1>11. phase # "idle"
  OBVIOUS
<1> QED BY <1>1, <1>8, <1>9, <1>10, <1>11, MoveStep

\* An emission begins: its GValues take references, and so does $this.
LEMMA EmitStep ==
    ASSUME Inv, ScriptRuns,
           NEW z \in Zvals \cup {Null}, z # Null => refcount[z] # 0,
           NEW gs \in Seq(GObjs), gs # <<>>, \A x \in Elements(gs) : gobject[x] # Null,
           NEW cs \in SUBSET Closures,
           gobject' = ValuesReferenced(gs),
           refcount' = IF z = Null THEN refcount ELSE [refcount EXCEPT ![z] = @ + 1],
           Pushed(stack', EmitFrame(z, gs, cs), stack),
           UNCHANGED <<phase, fault, request, zval, names, wrapper, closure>>
    PROVE  Inv'
<1> DEFINE a == EmitFrame(z, gs, cs)
<1>1. /\ phase = "active" /\ Plain(stack) /\ stack \in Seq(Frames)
      /\ \A f \in Elements(stack) : Is(f, {"emit", "handler"}) /\ Live(f)
      /\ Stacked(stack) /\ OnEmit(stack) /\ ActiveCount /\ PlainOwned
  BY ScriptStack, ActiveFacts DEF Inv, Framed
<1>2. /\ a \in Frames /\ a.at = "emit" /\ a.this = z /\ a.values = gs /\ a.ret = FALSE
  BY DEF EmitFrame, Frames
<1>3. Pushed(stack', a, stack)
  OBVIOUS
<1> HIDE DEF a
<1>4. \A x : Uses(a, x) = (IF z = x THEN 1 ELSE 0) /\ Gives(a, x) = Count(x, gs)
  <2>1. \A x : /\ ThisOf(a, x) = (IF z = x THEN 1 ELSE 0) /\ ArgsOf(a, x) = 0
               /\ GivenOf(a, x) = Count(x, gs) /\ RetOf(a, x) = 0 /\ Count(x, gs) \in Nat
    BY <1>2, CountFacts DEF ThisOf, ArgsOf, GivenOf, RetOf, Is
  <2> QED BY <2>1 DEF Uses, Gives
<1>5. /\ stack' \in Seq(Frames) /\ Elements(stack') = {a} \cup Elements(stack)
      /\ Stacked(stack') /\ OnEmit(stack') /\ Plain(stack')
      /\ \A x : /\ HeldIn(stack, x) \in Nat /\ ValuesIn(stack, x) \in Nat
                /\ HeldIn(stack', x) = HeldIn(stack, x) + Uses(a, x)
                /\ ValuesIn(stack', x) = ValuesIn(stack, x) + Gives(a, x)
  <2>1. Base(stack) /\ ~Is(a, Destructs) /\ Fits(a, stack) /\ Pushed(stack', a, stack)
    BY <1>1, <1>2, <1>3 DEF Base, Is, Destructs, Fits
  <2> QED BY <1>2, <2>1, PushFrame
<1>6. Going(stack')
  <2>1. Live(a)
    BY <1>2 DEF Live, Is, FreeStorage
  <2> QED BY <1>1, <1>5, <2>1 DEF Going
<1>7. /\ gobject' \in [GObjs -> GObject \cup {Null}]
      /\ \A x \in GObjs : gobject[x] # Null => gobject'[x] # Null
      /\ PlainOwned'
  <2>1. ASSUME NEW x \in GObjs
        PROVE  /\ gobject'[x] \in GObject \cup {Null}
               /\ gobject[x] # Null => gobject'[x] # Null
               /\ Right(gobject'[x], Cardinality(OwnersOf(x)'), ValuesIn(stack', x))
    <3> DEFINE n == Count(x, gs)
               r == gobject[x].refs + n
               o == [gobject[x] EXCEPT !.refs = r]
    <3>1. /\ n \in Nat /\ (n = 0 <=> x \notin Elements(gs))
          /\ ValuesIn(stack, x) \in Nat /\ ValuesIn(stack', x) = ValuesIn(stack, x) + n
      BY <1>4, <1>5, CountFacts
    <3>2. OwnersOf(x)' = OwnersOf(x) /\ Cardinality(OwnersOf(x)) \in Nat
      BY OwnersNat DEF OwnersOf
    <3>3. Right(gobject[x], Cardinality(OwnersOf(x)), ValuesIn(stack, x))
      BY <1>1 DEF PlainOwned
    <3>4. gobject[x] \in GObject \cup {Null}
      BY DEF Inv, TypeOK
    <3>5. CASE x \in Elements(gs)
      <4>1. gobject'[x] = o
        BY <3>5 DEF ValuesReferenced
      <4>2. gobject[x] # Null /\ gobject[x] \in GObject
        BY <3>4, <3>5
      <4>3. /\ gobject[x].refs \in Nat /\ gobject[x].lost \in Nat
            /\ r \in Nat /\ r = gobject[x].refs + n
        BY <3>1, <4>2 DEF GObject
      <4> HIDE DEF n, r
      <4>4. /\ o \in GObject /\ o # Null /\ o.refs = r /\ o.lost = gobject[x].lost
            /\ o.native = gobject[x].native
        <5>1. /\ o \in GObject /\ o.refs = r /\ o.lost = gobject[x].lost
              /\ o.native = gobject[x].native
          BY <4>2, <4>3 DEF GObject
        <5> QED BY <5>1, NullAssumption
      <4> HIDE DEF o
      <4>5. o.refs = References(o, Cardinality(OwnersOf(x)), ValuesIn(stack', x))
        BY <3>1, <3>2, <3>3, <4>2, <4>3, <4>4 DEF Right, References
      <4> QED BY <3>2, <4>1, <4>4, <4>5 DEF Right
    <3>6. CASE x \notin Elements(gs)
      <4>1. gobject'[x] = gobject[x]
        BY <3>6 DEF ValuesReferenced
      <4>2. ValuesIn(stack', x) = ValuesIn(stack, x)
        BY <3>1, <3>6
      <4> QED BY <3>2, <3>3, <3>4, <4>1, <4>2
    <3> QED BY <3>5, <3>6
  <2>2. gobject' = [x \in GObjs |-> gobject'[x]]
    BY DEF ValuesReferenced
  <2> QED BY <2>1, <2>2 DEF PlainOwned
<1>8. ActiveCount' /\ refcount' \in [Zvals -> Nat]
  <2>1. \A x : Params(x)' = Params(x)
    BY DEF Params
  <2>2. \A x \in Zvals : names'[x] + HeldIn(stack', x) + Cardinality(Params(x)')
                           = names[x] + HeldIn(stack, x) + Cardinality(Params(x))
                               + (IF x = z THEN 1 ELSE 0)
    <3> TAKE x \in Zvals
    <3>1. names[x] \in Nat /\ HeldIn(stack, x) \in Nat /\ Cardinality(Params(x)) \in Nat
      BY <1>1, ActiveFacts
    <3>2. HeldIn(stack', x) = HeldIn(stack, x) + (IF x = z THEN 1 ELSE 0)
      BY <1>4, <1>5
    <3> QED BY <2>1, <3>1, <3>2
  <2>3. \A w \in Wrappers : wrapper[w] # Null => wrapper'[w] # Null
    OBVIOUS
  <2> QED BY <1>1, <2>2, <2>3, Referenced
<1>9. Listed'
  BY DEF Inv, Listed
<1>10. /\ zval' \in [Zvals -> Wrappers \cup {Null}] /\ names' \in [Zvals -> 0 .. MaxVars]
       /\ wrapper' \in [Wrappers -> Wrapper \cup {Null}]
  BY DEF Inv, TypeOK
<1> QED BY <1>1, <1>6, <1>7, <1>8, <1>9, <1>10, GoingStep

\* emit() of the script.
LEMMA EmitInv ==
    ASSUME NEW z \in Zvals, NEW p \in Zvals \cup {Null}, Inv, Emit(z, p) PROVE Inv'
<1> DEFINE g == wrapper[zval[z]].gobject
           g2 == IF p = Null THEN Null ELSE wrapper[zval[p]].gobject
           gs == IF p = Null THEN <<g>> ELSE <<g, g2>>
<1>1. ScriptRuns /\ Usable(z) /\ (p # Null => Usable(p))
  BY DEF Emit
<1>2. CASE Crash("no_gobject")
  BY <1>2, CrashInv DEF Faults
<1>3. CASE /\ g # Null /\ p # Null /\ g2 = Null
           /\ gobject' = [gobject EXCEPT ![g].refs = @ + 1, ![g].lost = @ + 1]
           /\ UNCHANGED <<phase, fault, request, zval, refcount, names, wrapper,
                          closure, stack>>
  <2>1. g \in GObjs /\ gobject[g] # Null
    BY <1>1, <1>3, UsableFacts
  <2> HIDE DEF g
  <2> QED BY <1>1, <1>3, <2>1, EmitLostInv
<1>4. CASE /\ g # Null /\ (p # Null => g2 # Null)
           /\ gobject' = ValuesReferenced(gs)
           /\ refcount' = [refcount EXCEPT ![z] = @ + 1]
           /\ stack' = <<EmitFrame(z, gs, ConnectedTo(g))>> \o stack
           /\ UNCHANGED <<phase, fault, request, zval, names, wrapper, closure>>
  <2>1. g \in GObjs /\ gobject[g] # Null /\ refcount[z] # 0
    BY <1>1, <1>4, UsableFacts
  <2>2. p # Null => g2 \in GObjs /\ gobject[g2] # Null
    BY <1>1, <1>4, UsableFacts
  <2> HIDE DEF g, g2
  <2>3. gs \in Seq(GObjs) /\ gs # <<>> /\ Elements(gs) \subseteq {g, IF p = Null THEN g ELSE g2}
    BY <2>1, <2>2 DEF Elements
  <2>4. \A x \in Elements(gs) : gobject[x] # Null
    BY <2>1, <2>2, <2>3
  <2>5. ConnectedTo(g) \in SUBSET Closures
    BY DEF ConnectedTo
  <2>6. z \in Zvals \cup {Null} /\ z # Null
    BY ConstantsAssumption
  <2>7. refcount' = IF z = Null THEN refcount ELSE [refcount EXCEPT ![z] = @ + 1]
    BY <1>4, <2>6
  <2>8. Pushed(stack', EmitFrame(z, gs, ConnectedTo(g)), stack)
    BY <1>4 DEF Pushed
  <2> HIDE DEF gs
  <2> QED BY <1>1, <1>4, <2>1, <2>3, <2>4, <2>5, <2>6, <2>7, <2>8, EmitStep
<1> QED BY <1>2, <1>3, <1>4 DEF Emit

\* A signal that C code emits.
LEMMA NativeEmitInv ==
    ASSUME NEW g \in GObjs, NEW g2 \in GObjs, Inv, NativeEmit(g, g2) PROVE Inv'
<1> DEFINE gs == <<g, g2>>
<1>1. /\ ScriptRuns /\ gobject[g] # Null /\ gobject[g2] # Null
      /\ gobject' = ValuesReferenced(gs)
      /\ stack' = <<EmitFrame(Null, gs, ConnectedTo(g))>> \o stack
      /\ UNCHANGED <<phase, fault, request, zval, refcount, names, wrapper, closure>>
  BY DEF NativeEmit
<1>2. gs \in Seq(GObjs) /\ gs # <<>> /\ \A x \in Elements(gs) : gobject[x] # Null
  BY <1>1 DEF Elements
<1>3. Null \in Zvals \cup {Null} /\ ConnectedTo(g) \in SUBSET Closures
  BY DEF ConnectedTo
<1>4. refcount' = IF Null = Null THEN refcount ELSE [refcount EXCEPT ![Null] = @ + 1]
  BY <1>1
<1>5. Pushed(stack', EmitFrame(Null, gs, ConnectedTo(g)), stack)
  BY <1>1 DEF Pushed
<1> HIDE DEF gs
<1> QED BY <1>1, <1>2, <1>3, <1>4, <1>5, EmitStep

\* The next parameter of a marshaller is converted.
Passed(f, z) == [f EXCEPT !.values = Tail(@), !.args = Append(@, z)]

\* It holds the container besides.
LEMMA PassedFrame ==
    ASSUME NEW f \in Frames, f.at = "marshal", f.values # <<>>, NEW z \in Zvals
    PROVE  /\ Passed(f, z) \in Frames /\ Passed(f, z).at = "marshal"
           /\ Passed(f, z).closure = f.closure
           /\ Elements(Passed(f, z).values) \subseteq Elements(f.values)
           /\ \A x : /\ Uses(f, x) \in Nat
                     /\ Uses(Passed(f, z), x) = Uses(f, x) + (IF z = x THEN 1 ELSE 0)
                     /\ Gives(Passed(f, z), x) = 0 /\ Gives(f, x) = 0
<1> DEFINE gs == Tail(f.values)
           zs == Append(f.args, z)
           a == Passed(f, z)
           Shape == [at : {"marshal"}, closure : Closures, values : Seq(GObjs), args : Seq(Zvals)]
           q == [f EXCEPT !.values = gs]
<1>1. f \in Shape /\ f.values \in Seq(GObjs) /\ f.args \in Seq(Zvals)
  BY FrameFields
<1>2. gs \in Seq(GObjs) /\ zs \in Seq(Zvals) /\ Elements(gs) \subseteq Elements(f.values)
  BY <1>1, ElementsFacts
<1>3. a = [q EXCEPT !.args = zs]
  BY <1>1 DEF Passed
<1> HIDE DEF gs, zs, a
<1>4. q \in Shape /\ q.values = gs /\ q.closure = f.closure
  BY <1>1, <1>2
<1> HIDE DEF q
<1>5. a \in Shape /\ a.values = gs /\ a.args = zs /\ a.closure = f.closure /\ a.at = "marshal"
  BY <1>2, <1>3, <1>4
<1>6. a \in Frames
  BY <1>5 DEF Frames
<1>7. \A x : Count(x, zs) = Count(x, f.args) + (IF z = x THEN 1 ELSE 0) /\ Count(x, f.args) \in Nat
  BY <1>1, CountAppend, CountFacts DEF zs
<1>8. \A x : /\ ThisOf(a, x) = 0 /\ ArgsOf(a, x) = Count(x, zs)
             /\ GivenOf(a, x) = 0 /\ RetOf(a, x) = 0
             /\ ThisOf(f, x) = 0 /\ ArgsOf(f, x) = Count(x, f.args)
             /\ GivenOf(f, x) = 0 /\ RetOf(f, x) = 0
  BY <1>5 DEF ThisOf, ArgsOf, GivenOf, RetOf, Is
<1>9. \A x : /\ Uses(f, x) \in Nat
             /\ Uses(a, x) = Uses(f, x) + (IF z = x THEN 1 ELSE 0)
             /\ Gives(a, x) = 0 /\ Gives(f, x) = 0
  BY <1>7, <1>8 DEF Uses, Gives
<1> QED BY <1>2, <1>5, <1>6, <1>9 DEF a

\* What is to be converted is a value of the emission, which keeps it.
LEMMA MarshalledThere ==
    ASSUME Inv, TopIs({"marshal"}), Top.values # <<>>
    PROVE  /\ Head(Top.values) \in GObjs
           /\ gobject[Head(Top.values)] # Null /\ gobject[Head(Top.values)] \in GObject
<1> DEFINE e == Head(Below)
<1>1. /\ stack # <<>> /\ Top.at = "marshal"
      /\ Is(Top, {"marshal"}) /\ Is(Top, {"marshal", "handler"})
  BY DEF TopIs, Is
<1>2. /\ Sits(Top, e)
      /\ \A x \in Elements(e.values) : /\ x \in GObjs /\ gobject[x] # Null
                                       /\ gobject[x] \in GObject
  BY <1>1, EmitBelow
<1>3. Elements(Top.values) \subseteq Elements(e.values)
  BY <1>1, <1>2 DEF Sits
<1>4. Head(Top.values) \in Elements(Top.values)
  <2>1. Top.values \in Seq(GObjs)
    BY <1>1, TopOfStack, FrameFields
  <2> QED BY <2>1, ElementsFacts
<1> QED BY <1>2, <1>3, <1>4

\* The step that passes it.
LEMMA PassStep ==
    ASSUME Inv, TopIs({"marshal"}), Top.values # <<>>, NEW z \in Zvals,
           Pushed(stack', Passed(Top, z), Below)
    PROVE  /\ Plain(stack) /\ Going(stack')
           /\ \A x : /\ HeldIn(stack, x) \in Nat /\ ValuesIn(stack, x) \in Nat
                     /\ HeldIn(stack', x) = HeldIn(stack, x) + (IF z = x THEN 1 ELSE 0)
                     /\ ValuesIn(stack', x) = ValuesIn(stack, x)
<1> DEFINE a == Passed(Top, z)
           e == Head(Below)
<1>1. /\ stack # <<>> /\ Top.at = "marshal" /\ ~Is(Top, Destructs)
      /\ Is(Top, {"marshal"}) /\ Is(Top, {"marshal", "handler"})
  BY DEF TopIs, Is, Destructs
<1>2. /\ Top \in Frames /\ Base(Below) /\ Plain(stack) /\ Live(Top)
      /\ \A b \in Elements(Below) : Live(b)
      /\ \A x : /\ HeldIn(stack, x) \in Nat /\ ValuesIn(stack, x) \in Nat
                /\ HeldIn(Below, x) \in Nat /\ ValuesIn(Below, x) \in Nat
                /\ HeldIn(stack, x) = HeldIn(Below, x) + Uses(Top, x)
                /\ ValuesIn(stack, x) = ValuesIn(Below, x) + Gives(Top, x)
  BY <1>1, PlainTop
<1>3. /\ a \in Frames /\ a.at = "marshal" /\ a.closure = Top.closure
      /\ Elements(a.values) \subseteq Elements(Top.values)
      /\ \A x : /\ Uses(Top, x) \in Nat
                /\ Uses(a, x) = Uses(Top, x) + (IF z = x THEN 1 ELSE 0)
                /\ Gives(a, x) = 0 /\ Gives(Top, x) = 0
  BY <1>1, <1>2, PassedFrame
<1> HIDE DEF a
<1>4. /\ Below # <<>> /\ Is(e, {"emit"}) /\ Elements(Top.values) \subseteq Elements(e.values)
  <2>1. /\ Below # <<>> /\ Sits(Top, e)
    BY <1>1, EmitBelow
  <2> QED BY <1>1, <2>1 DEF Sits
<1>5. Fits(a, Below) /\ ~Is(a, Destructs)
  BY <1>3, <1>4 DEF Fits, Sits, Is, Destructs
<1>6. /\ stack' \in Seq(Frames) /\ Elements(stack') = {a} \cup Elements(Below)
      /\ Stacked(stack') /\ OnEmit(stack') /\ Plain(stack')
      /\ \A x : /\ HeldIn(stack', x) = HeldIn(Below, x) + Uses(a, x)
                /\ ValuesIn(stack', x) = ValuesIn(Below, x) + Gives(a, x)
  <2>1. Pushed(stack', a, Below)
    BY DEF a
  <2> QED BY <1>2, <1>3, <1>5, <2>1, PushFrame
<1>7. Going(stack')
  <2>1. Live(a)
    BY <1>1, <1>2, <1>3 DEF Live, Is, FreeStorage
  <2> QED BY <1>2, <1>6, <2>1 DEF Going
<1>8. \A x : /\ HeldIn(stack', x) = HeldIn(stack, x) + (IF z = x THEN 1 ELSE 0)
             /\ ValuesIn(stack', x) = ValuesIn(stack, x)
  BY <1>2, <1>3, <1>6
<1> QED BY <1>2, <1>7, <1>8

\* The marshaller passes a GObject: in its container, or in a new one.
LEMMA MarshalValueInv == ASSUME Inv, phase = "active", MarshalValue PROVE Inv'
<1> DEFINE g == Head(Top.values)
           self == gobject[g].data
<1>1. TopIs({"marshal"}) /\ Top.values # <<>>
  BY DEF MarshalValue
<1>2. CASE Crash("stale_zval")
  BY <1>2, CrashInv DEF Faults
<1>3. CASE /\ self # Null /\ zval[self] # Null
           /\ refcount' = SelfReferenced(self)
           /\ stack' = <<Passed(Top, self)>> \o Below
           /\ UNCHANGED <<phase, fault, request, zval, names, wrapper, gobject, closure>>
  <2>1. self \in Zvals
    <3>1. g \in GObjs /\ gobject[g] # Null /\ gobject[g] \in GObject
      BY <1>1, MarshalledThere
    <3> QED BY <1>3, <3>1 DEF GObject
  <2>2. Pushed(stack', Passed(Top, self), Below)
    BY <1>3 DEF Pushed
  <2> HIDE DEF self
  <2>3. /\ Plain(stack) /\ Going(stack')
        /\ \A x : /\ HeldIn(stack, x) \in Nat /\ ValuesIn(stack, x) \in Nat
                  /\ HeldIn(stack', x) = HeldIn(stack, x) + (IF self = x THEN 1 ELSE 0)
                  /\ ValuesIn(stack', x) = ValuesIn(stack, x)
    BY <1>1, <2>1, <2>2, PassStep
  <2>4. ActiveCount /\ PlainOwned
    BY <2>3, ActiveFacts
  <2>5. ActiveCount' /\ refcount' \in [Zvals -> Nat]
    <3>1. \A x : Params(x)' = Params(x)
      BY <1>3 DEF Params
    <3>2. \A x \in Zvals : names'[x] + HeldIn(stack', x) + Cardinality(Params(x)')
                             = names[x] + HeldIn(stack, x) + Cardinality(Params(x))
                                 + (IF x = self THEN 1 ELSE 0)
      <4> TAKE x \in Zvals
      <4>1. names[x] \in Nat /\ HeldIn(stack, x) \in Nat /\ Cardinality(Params(x)) \in Nat
        BY <2>3, ActiveFacts
      <4>2. HeldIn(stack', x) = HeldIn(stack, x) + (IF x = self THEN 1 ELSE 0)
        BY <2>3
      <4> QED BY <1>3, <3>1, <4>1, <4>2
    <3>3. zval' = zval /\ \A w \in Wrappers : wrapper[w] # Null => wrapper'[w] # Null
      BY <1>3
    <3>4. /\ self \in Zvals \cup {Null} /\ refcount[self] # 0
          /\ refcount' = IF self = Null THEN refcount ELSE [refcount EXCEPT ![self] = @ + 1]
      BY <1>3, <2>1, <2>4 DEF SelfReferenced, ActiveCount
    <3> QED BY <2>3, <3>2, <3>3, <3>4, Referenced
  <2>6. PlainOwned'
    BY <1>3, <2>3, <2>4, SameGObjects
  <2>7. Listed'
    BY <1>3 DEF Inv, Listed
  <2>8. /\ zval' \in [Zvals -> Wrappers \cup {Null}] /\ names' \in [Zvals -> 0 .. MaxVars]
        /\ wrapper' \in [Wrappers -> Wrapper \cup {Null}]
        /\ gobject' \in [GObjs -> GObject \cup {Null}]
        /\ \A x \in GObjs : gobject[x] # Null => gobject'[x] # Null
    BY <1>3 DEF Inv, TypeOK
  <2> QED BY <1>3, <2>3, <2>5, <2>6, <2>7, <2>8, GoingStep
<1>4. ASSUME NEW w \in Wrappers, NEW z \in Zvals, FreshWrapper(w), FreshZval(z),
             wrapper' = [wrapper EXCEPT ![w] = NewWrapper(g)],
             zval' = [zval EXCEPT ![z] = w],
             refcount' = [refcount EXCEPT ![z] = 1],
             stack' = <<Passed(Top, z)>> \o Below,
             gobject' = WrapReferenced(g),
             UNCHANGED <<phase, fault, request, names, closure>>
      PROVE  Inv'
  <2> DEFINE o == gobject[g]
             n == o.refs + 1
             p == [o EXCEPT !.refs = n]
  <2>1. Pushed(stack', Passed(Top, z), Below)
    BY <1>4 DEF Pushed
  <2>2. /\ Plain(stack) /\ Going(stack')
        /\ \A x : /\ HeldIn(stack, x) \in Nat /\ ValuesIn(stack, x) \in Nat
                  /\ HeldIn(stack', x) = HeldIn(stack, x) + (IF z = x THEN 1 ELSE 0)
                  /\ ValuesIn(stack', x) = ValuesIn(stack, x)
    BY <1>1, <2>1, PassStep
  <2>3. g \in GObjs /\ o # Null /\ o \in GObject
    BY <1>1, MarshalledThere
  <2>4. ActiveCount /\ PlainOwned
    BY <2>2, ActiveFacts
  <2>5. gobject' = [gobject EXCEPT ![g] = p]
    BY <1>4, <2>3 DEF WrapReferenced, Inv, TypeOK
  <2>6. /\ n \in Nat /\ n = o.refs + 1 /\ o.refs \in Nat /\ o.lost \in Nat
        /\ o.refs = References(o, Cardinality(OwnersOf(g)), ValuesIn(stack, g))
        /\ Cardinality(OwnersOf(g)) \in Nat
    BY <2>3, <2>4, OwnersNat DEF PlainOwned, Right, GObject
  <2>7. /\ p \in GObject /\ p # Null /\ p.refs = n /\ p.lost = o.lost /\ p.native = o.native
    <3> HIDE DEF n, o
    <3>1. /\ p \in GObject /\ p.refs = n /\ p.lost = o.lost /\ p.native = o.native
      BY <2>3, <2>6 DEF GObject
    <3> QED BY <3>1, NullAssumption
  <2> HIDE DEF p, n, o, g
  <2>8. /\ wrapper' \in [Wrappers -> Wrapper \cup {Null}] /\ wrapper'[w] # Null
        /\ \A v \in Wrappers : wrapper[v] # Null => wrapper'[v] # Null
        /\ Listed'
        /\ \A x : Cardinality(OwnersOf(x)') = Cardinality(OwnersOf(x)) + (IF x = g THEN 1 ELSE 0)
    <3>1. wrapper[w] = Null /\ g \in GObjs \cup {Null} /\ closure' = closure
      BY <1>4, <2>3 DEF FreshWrapper
    <3> QED BY <1>4, <3>1, NewWrapperFacts
  <2>9. /\ ActiveCount' /\ refcount' \in [Zvals -> Nat]
        /\ zval' \in [Zvals -> Wrappers \cup {Null}]
    <3>1. \A x \in Zvals : names'[x] + HeldIn(stack', x)
                             = names[x] + HeldIn(stack, x) + (IF x = z THEN 1 ELSE 0)
      <4> TAKE x \in Zvals
      <4>1. names[x] \in Nat
        BY <2>2, ActiveFacts
      <4> QED BY <1>4, <2>2, <4>1
    <3> QED BY <1>4, <2>2, <2>8, <3>1, NewContainer
  <2>10. /\ PlainOwned' /\ gobject' \in [GObjs -> GObject \cup {Null}]
        /\ \A x \in GObjs : gobject[x] # Null => gobject'[x] # Null
    <3> SUFFICES ASSUME NEW y \in GObjs, y = g
                 PROVE  /\ PlainOwned' /\ gobject' \in [GObjs -> GObject \cup {Null}]
                        /\ \A x \in GObjs : gobject[x] # Null => gobject'[x] # Null
      BY <2>3
    <3>1. \A x \in GObjs \ {y} : /\ Cardinality(OwnersOf(x)') = Cardinality(OwnersOf(x))
                                 /\ ValuesIn(stack', x) = ValuesIn(stack, x)
      BY <2>2, <2>8, OwnersNat
    <3>2. /\ Cardinality(OwnersOf(y)') = Cardinality(OwnersOf(y)) + 1
          /\ ValuesIn(stack', y) = ValuesIn(stack, y) /\ ValuesIn(stack, y) \in Nat
      BY <2>2, <2>8
    <3>3. Right(p, Cardinality(OwnersOf(y)'), ValuesIn(stack', y))
      BY <2>6, <2>7, <3>2 DEF Right, References
    <3>4. p \in GObject /\ gobject' = [gobject EXCEPT ![y] = p]
      BY <2>5, <2>7
    <3> QED BY <2>4, <3>1, <3>3, <3>4, OneGObject
  <2>11. names' \in [Zvals -> 0 .. MaxVars]
    BY <1>4 DEF Inv, TypeOK
  <2> QED BY <1>4, <2>2, <2>8, <2>9, <2>10, <2>11, GoingStep
<1>5. CASE \E w \in Wrappers, z \in Zvals :
             /\ FreshWrapper(w) /\ FreshZval(z)
             /\ wrapper' = [wrapper EXCEPT ![w] = NewWrapper(g)]
             /\ zval' = [zval EXCEPT ![z] = w]
             /\ refcount' = [refcount EXCEPT ![z] = 1]
             /\ stack' = <<Passed(Top, z)>> \o Below
             /\ gobject' = WrapReferenced(g)
             /\ UNCHANGED <<phase, fault, request, names, closure>>
  BY <1>4, <1>5
<1> HIDE DEF g, self
<1> QED BY <1>2, <1>3, <1>5 DEF MarshalValue, Passed, g, self

\* The marshaller calls the callback.
LEMMA CallInv == ASSUME Inv, phase = "active", Call PROVE Inv'
<1> DEFINE c == Top.closure
           p == closure[c].param
           args == Top.args
           zs == IF p = Null THEN args ELSE Append(args, p)
           a == HandlerFrame(c, zs)
<1>1. /\ TopIs({"marshal"})
      /\ refcount' = IF p = Null THEN refcount ELSE [refcount EXCEPT ![p] = @ + 1]
      /\ stack' = <<a>> \o Below
      /\ UNCHANGED <<phase, fault, request, zval, names, wrapper, gobject, closure>>
  BY DEF Call
<1>2. /\ stack # <<>> /\ Top.at = "marshal" /\ ~Is(Top, Destructs)
      /\ Is(Top, {"marshal"}) /\ Is(Top, {"marshal", "handler"})
  BY <1>1 DEF TopIs, Is, Destructs
<1>3. /\ Top \in Frames /\ Base(Below) /\ Fits(Top, Below) /\ Plain(stack) /\ Live(Top)
      /\ \A b \in Elements(Below) : Live(b)
      /\ \A x : /\ HeldIn(stack, x) \in Nat /\ ValuesIn(stack, x) \in Nat
                /\ HeldIn(Below, x) \in Nat /\ ValuesIn(Below, x) \in Nat
                /\ HeldIn(stack, x) = HeldIn(Below, x) + Uses(Top, x)
                /\ ValuesIn(stack, x) = ValuesIn(Below, x) + Gives(Top, x)
  BY <1>2, PlainTop
<1>4. c \in Closures /\ args \in Seq(Zvals) /\ closure[c] # Null
  BY <1>2, <1>3, FrameFields DEF Live
<1>5. p \in Zvals \cup {Null} /\ Null \notin Zvals
  BY <1>4, ConstantsAssumption DEF Inv, TypeOK, Closure
<1>6. \A x : Uses(Top, x) = Count(x, args) /\ Gives(Top, x) = 0 /\ Count(x, args) \in Nat
  <2>1. \A x : /\ ThisOf(Top, x) = 0 /\ ArgsOf(Top, x) = Count(x, args)
               /\ GivenOf(Top, x) = 0 /\ RetOf(Top, x) = 0 /\ Count(x, args) \in Nat
    BY <1>2, <1>4, CountFacts DEF ThisOf, ArgsOf, GivenOf, RetOf, Is
  <2> QED BY <2>1 DEF Uses, Gives
<1>7. ActiveCount /\ PlainOwned
  BY <1>3, ActiveFacts
<1>8. p # Null => refcount[p] # 0
  <2> SUFFICES ASSUME NEW y \in Zvals, y = p PROVE refcount[y] # 0
    BY <1>5
  <2>1. c \in Params(y) /\ IsFiniteSet(Params(y)) /\ Cardinality(Params(y)) \in Nat
    BY <1>4, CountsNat DEF Params
  <2>2. Cardinality(Params(y)) # 0
    BY <2>1, FS_EmptySet
  <2>3. /\ refcount[y] = names[y] + HeldIn(stack, y) + Cardinality(Params(y))
        /\ names[y] \in Nat /\ HeldIn(stack, y) \in Nat
    BY <1>3, ActiveFacts
  <2> DEFINE n == names[y]
             h == HeldIn(stack, y)
             k == Cardinality(Params(y))
  <2>4. n \in Nat /\ h \in Nat /\ k \in Nat /\ k # 0 /\ refcount[y] = n + h + k
    BY <2>1, <2>2, <2>3
  <2> HIDE DEF n, h, k
  <2> QED BY <2>4
<1> HIDE DEF p, args
<1>9. /\ zs \in Seq(Zvals)
      /\ \A x \in Zvals : Count(x, zs) = Count(x, args) + (IF p = x THEN 1 ELSE 0)
  <2>1. CASE p = Null
    <3>1. zs = args
      BY <2>1
    <3> HIDE DEF zs
    <3> QED BY <2>1, <3>1, <1>4, <1>5, <1>6
  <2>2. CASE p # Null
    <3> DEFINE r == Append(args, p)
    <3>1. r \in Seq(Zvals)
      BY <2>2, <1>4, <1>5
    <3>2. \A x : Count(x, r) = Count(x, args) + (IF p = x THEN 1 ELSE 0)
      BY <2>2, <1>4, <1>5, CountAppend
    <3>3. zs = r
      BY <2>2
    <3> HIDE DEF r, zs
    <3> QED BY <3>1, <3>2, <3>3
  <2> QED BY <2>1, <2>2
<1> HIDE DEF zs, c
<1>10. /\ a \in Frames /\ a.at = "handler" /\ a.args = zs
  BY <1>4, <1>9 DEF HandlerFrame, Frames
<1>11. Pushed(stack', a, Below)
  BY <1>1 DEF Pushed
<1> HIDE DEF a
<1>12. \A x : Uses(a, x) = Count(x, zs) /\ Gives(a, x) = 0
  <2>1. \A x : /\ ThisOf(a, x) = 0 /\ ArgsOf(a, x) = Count(x, zs)
               /\ GivenOf(a, x) = 0 /\ RetOf(a, x) = 0 /\ Count(x, zs) \in Nat
    BY <1>9, <1>10, CountFacts DEF ThisOf, ArgsOf, GivenOf, RetOf, Is
  <2> QED BY <2>1 DEF Uses, Gives
<1>13. Fits(a, Below) /\ ~Is(a, Destructs)
  BY <1>2, <1>3, <1>10 DEF Fits, Sits, Is, Destructs
<1>14. /\ stack' \in Seq(Frames) /\ Elements(stack') = {a} \cup Elements(Below)
       /\ Stacked(stack') /\ OnEmit(stack') /\ Plain(stack')
       /\ \A x : /\ HeldIn(stack', x) = HeldIn(Below, x) + Uses(a, x)
                 /\ ValuesIn(stack', x) = ValuesIn(Below, x) + Gives(a, x)
  BY <1>3, <1>10, <1>11, <1>13, PushFrame
<1>15. Going(stack')
  <2>1. Live(a)
    BY <1>10 DEF Live, Is, FreeStorage
  <2> QED BY <1>3, <1>14, <2>1 DEF Going
<1>16. /\ \A x : ValuesIn(stack', x) = ValuesIn(stack, x)
       /\ \A x \in Zvals : HeldIn(stack', x) = HeldIn(stack, x) + (IF x = p THEN 1 ELSE 0)
  <2>1. \A x : ValuesIn(stack', x) = ValuesIn(stack, x)
    BY <1>3, <1>6, <1>12, <1>14
  <2>2. ASSUME NEW x \in Zvals
        PROVE  HeldIn(stack', x) = HeldIn(stack, x) + (IF x = p THEN 1 ELSE 0)
    BY <1>3, <1>6, <1>9, <1>12, <1>14
  <2> QED BY <2>1, <2>2
<1>17. ActiveCount' /\ refcount' \in [Zvals -> Nat]
  <2>1. \A x : Params(x)' = Params(x)
    BY <1>1 DEF Params
  <2>2. \A x \in Zvals : names'[x] + HeldIn(stack', x) + Cardinality(Params(x)')
                           = names[x] + HeldIn(stack, x) + Cardinality(Params(x))
                               + (IF x = p THEN 1 ELSE 0)
    <3> TAKE x \in Zvals
    <3>1. names[x] \in Nat /\ HeldIn(stack, x) \in Nat /\ Cardinality(Params(x)) \in Nat
      BY <1>3, ActiveFacts
    <3> QED BY <1>1, <1>16, <2>1, <3>1
  <2>3. zval' = zval /\ \A w \in Wrappers : wrapper[w] # Null => wrapper'[w] # Null
    BY <1>1
  <2>4. refcount' = IF p = Null THEN refcount ELSE [refcount EXCEPT ![p] = @ + 1]
    BY <1>1 DEF p, c
  <2>5. p # Null => refcount[p] # 0
    BY <1>8
  <2> QED BY <1>3, <1>5, <2>2, <2>3, <2>4, <2>5, Referenced
<1>18. PlainOwned'
  BY <1>1, <1>7, <1>16, SameGObjects
<1>19. Listed'
  BY <1>1 DEF Inv, Listed
<1>20. /\ zval' \in [Zvals -> Wrappers \cup {Null}] /\ names' \in [Zvals -> 0 .. MaxVars]
       /\ wrapper' \in [Wrappers -> Wrapper \cup {Null}]
       /\ gobject' \in [GObjs -> GObject \cup {Null}]
       /\ \A x \in GObjs : gobject[x] # Null => gobject'[x] # Null
  BY <1>1 DEF Inv, TypeOK
<1> QED BY <1>1, <1>15, <1>17, <1>18, <1>19, <1>20, GoingStep

\* The callback returns, with the emitter or without.
LEMMA HandlerReturnInv == ASSUME NEW ret \in BOOLEAN, Inv, HandlerReturn(ret) PROVE Inv'
<1> DEFINE e == Head(Below)
           rest == Tail(Below)
           g == Head(e.values)
           a == ReleaseFrame(Top.closure, Top.args)
           b == WithRet(e, e.ret \/ ret)
<1>1. /\ phase = "active" /\ TopIs({"handler"})
      /\ UNCHANGED <<phase, fault, request, zval, refcount, names, wrapper, closure>>
  BY DEF HandlerReturn
<1>2. /\ stack # <<>> /\ Top.at = "handler" /\ ~Is(Top, Destructs)
      /\ Is(Top, {"marshal", "handler"})
  BY <1>1 DEF TopIs, Is, Destructs
<1>3. /\ Top \in Frames /\ Plain(stack) /\ stack = <<Top>> \o Below /\ Below \in Seq(Frames)
      /\ \A x : /\ HeldIn(stack, x) \in Nat /\ ValuesIn(stack, x) \in Nat
                /\ HeldIn(stack, x) = HeldIn(Below, x) + Uses(Top, x)
                /\ ValuesIn(stack, x) = ValuesIn(Below, x) + Gives(Top, x)
  BY <1>2, PlainTop
<1>4. /\ e \in Frames /\ e.at = "emit" /\ Live(e)
      /\ e.values \in Seq(GObjs) /\ e.values # <<>>
      /\ Below # <<>> /\ Base(rest)
      /\ \A f \in Elements(rest) : Live(f)
      /\ \A x : /\ HeldIn(Below, x) = HeldIn(rest, x) + Uses(e, x)
                /\ ValuesIn(Below, x) = ValuesIn(rest, x) + Gives(e, x)
      /\ \A x \in Elements(e.values) : /\ x \in GObjs /\ gobject[x] # Null
                                       /\ gobject[x] \in GObject
  BY <1>2, EmitBelow
<1>5. g \in GObjs /\ gobject[g] # Null /\ gobject[g] \in GObject
  <2>1. g \in Elements(e.values)
    BY <1>4, ElementsFacts
  <2> QED BY <2>1, <1>4
<1>6. stack[2] = e
  BY <1>3, <1>4
<1>7. /\ ret => ~e.ret
      /\ PushedTwo(stack', a, b, rest)
      /\ gobject' = IF ret THEN [gobject EXCEPT ![g].refs = @ + 1] ELSE gobject
  BY <1>6 DEF HandlerReturn, WithRet, PushedTwo
<1>8. /\ a \in Frames /\ a.at = "release"
      /\ \A x : Uses(a, x) = Uses(Top, x) /\ Gives(a, x) = Gives(Top, x)
  <2>1. Top.closure \in Closures \cup {Null} /\ Top.args \in Seq(Zvals)
    BY <1>2, <1>3, FrameFields
  <2>2. a \in Frames /\ a.at = "release" /\ a.args = Top.args
    BY <2>1 DEF ReleaseFrame, Frames
  <2> HIDE DEF a
  <2>3. \A x : /\ ThisOf(a, x) = ThisOf(Top, x) /\ ArgsOf(a, x) = ArgsOf(Top, x)
               /\ GivenOf(a, x) = GivenOf(Top, x) /\ RetOf(a, x) = RetOf(Top, x)
    BY <1>2, <2>2 DEF ThisOf, ArgsOf, GivenOf, RetOf, Is
  <2> QED BY <2>2, <2>3 DEF Uses, Gives
<1>9. /\ b \in Frames /\ b.at = "emit" /\ b.values = e.values
      /\ \A x : /\ Uses(b, x) = Uses(e, x)
                /\ Gives(b, x) = Gives(e, x) + (IF ret /\ g = x THEN 1 ELSE 0)
  <2> DEFINE r == e.ret \/ ret
  <2>1. r \in BOOLEAN
    OBVIOUS
  <2> HIDE DEF r, e
  <2>2. /\ WithRet(e, r) \in Frames /\ WithRet(e, r).at = "emit"
        /\ WithRet(e, r).values = e.values
        /\ \A x : /\ Uses(WithRet(e, r), x) = Uses(e, x)
                  /\ Gives(WithRet(e, r), x) = GivenOf(e, x) + (IF r /\ g = x THEN 1 ELSE 0)
                  /\ Gives(e, x) = GivenOf(e, x) + (IF e.ret /\ g = x THEN 1 ELSE 0)
                  /\ GivenOf(e, x) \in Nat
    BY <1>4, <2>1, RetChanges
  <2>3. b = WithRet(e, r)
    BY DEF r
  <2>4. r <=> (e.ret \/ ret)
    BY DEF r
  <2> HIDE DEF b, g
  <2> QED BY <1>7, <2>2, <2>3, <2>4
<1> HIDE DEF e, rest, a, b
<1>10. /\ stack' \in Seq(Frames) /\ Elements(stack') = {a, b} \cup Elements(rest)
       /\ Stacked(stack') /\ OnEmit(stack') /\ Plain(stack')
       /\ \A x : /\ HeldIn(rest, x) \in Nat /\ ValuesIn(rest, x) \in Nat
                 /\ Uses(a, x) \in Nat /\ Gives(a, x) \in Nat
                 /\ Uses(b, x) \in Nat /\ Gives(b, x) \in Nat
                 /\ HeldIn(stack', x) = HeldIn(rest, x) + Uses(b, x) + Uses(a, x)
                 /\ ValuesIn(stack', x) = ValuesIn(rest, x) + Gives(b, x) + Gives(a, x)
  <2>1. ~Is(a, Destructs) /\ ~Is(a, {"marshal"})
    BY <1>8 DEF Is, Destructs
  <2> QED BY <1>4, <1>7, <1>8, <1>9, <2>1, TwoFrames
<1>11. Going(stack')
  <2>1. Live(a) /\ Live(b)
    BY <1>4, <1>8, <1>9 DEF Live, Is, FreeStorage
  <2> QED BY <1>4, <1>10, <2>1 DEF Going
<1>12. /\ \A x : HeldIn(stack', x) = HeldIn(stack, x)
       /\ \A x : ValuesIn(stack', x) = ValuesIn(stack, x) + (IF ret /\ g = x THEN 1 ELSE 0)
  <2> HIDE DEF g
  <2>1. \A x : Gives(e, x) \in Nat /\ Uses(e, x) \in Nat
    BY <1>4, FrameHolds DEF Uses, Gives
  <2>2. ASSUME NEW x
        PROVE  /\ HeldIn(stack', x) = HeldIn(stack, x)
               /\ ValuesIn(stack', x)
                    = ValuesIn(stack, x) + (IF ret /\ g = x THEN 1 ELSE 0)
    <3> DEFINE k == IF ret /\ g = x THEN 1 ELSE 0
    <3>1. /\ HeldIn(stack, x) = HeldIn(Below, x) + Uses(Top, x)
          /\ HeldIn(Below, x) = HeldIn(rest, x) + Uses(e, x)
          /\ HeldIn(stack', x) = HeldIn(rest, x) + Uses(b, x) + Uses(a, x)
          /\ Uses(a, x) = Uses(Top, x) /\ Uses(b, x) = Uses(e, x)
          /\ HeldIn(rest, x) \in Nat /\ Uses(e, x) \in Nat /\ Uses(a, x) \in Nat
      BY <1>3, <1>4, <1>8, <1>9, <1>10, <2>1
    <3>2. /\ ValuesIn(stack, x) = ValuesIn(Below, x) + Gives(Top, x)
          /\ ValuesIn(Below, x) = ValuesIn(rest, x) + Gives(e, x)
          /\ ValuesIn(stack', x) = ValuesIn(rest, x) + Gives(b, x) + Gives(a, x)
          /\ Gives(a, x) = Gives(Top, x) /\ Gives(b, x) = Gives(e, x) + k
          /\ ValuesIn(rest, x) \in Nat /\ Gives(e, x) \in Nat /\ Gives(a, x) \in Nat
          /\ k \in Nat
      BY <1>3, <1>4, <1>8, <1>9, <1>10, <2>1
    <3>3. HeldIn(stack', x) = HeldIn(stack, x)
      BY <3>1
    <3> HIDE DEF k
    <3>4. ValuesIn(stack', x) = ValuesIn(stack, x) + k
      BY <3>2
    <3> QED BY <3>3, <3>4 DEF k
  <2> QED BY <2>2
<1>13. ActiveCount /\ PlainOwned
  BY <1>1, <1>3, ActiveFacts
<1>14. ActiveCount'
  <2>1. \A x : UsesIn(stack, x)' = UsesIn(stack, x)
    BY <1>1, <1>12 DEF UsesIn, Params
  <2> QED BY <1>1, <1>13, <2>1 DEF ActiveCount
<1>15. /\ PlainOwned' /\ gobject' \in [GObjs -> GObject \cup {Null}]
       /\ \A x \in GObjs : gobject[x] # Null => gobject'[x] # Null
  <2>1. CASE ~ret
    <3>1. gobject' = gobject /\ wrapper' = wrapper
      BY <1>1, <1>7, <2>1
    <3>2. \A x \in GObjs : ValuesIn(stack', x) = ValuesIn(stack, x)
      BY <1>3, <1>12, <2>1
    <3>3. PlainOwned'
      BY <1>13, <3>1, <3>2, SameGObjects
    <3> QED BY <3>1, <3>3 DEF Inv, TypeOK
  <2>2. CASE ret
    <3> SUFFICES ASSUME NEW y \in GObjs, y = g
                 PROVE  /\ PlainOwned' /\ gobject' \in [GObjs -> GObject \cup {Null}]
                        /\ \A x \in GObjs : gobject[x] # Null => gobject'[x] # Null
      BY <1>5
    <3> HIDE DEF g
    <3> DEFINE o == gobject[y]
               n == o.refs + 1
               p == [o EXCEPT !.refs = n]
    <3>1. o \in GObject /\ o # Null
      BY <1>5
    <3>2. gobject' = [gobject EXCEPT ![y] = p]
      BY <1>7, <2>2 DEF Inv, TypeOK
    <3>3. \A x : OwnersOf(x)' = OwnersOf(x)
      BY <1>1 DEF OwnersOf
    <3>4. /\ n \in Nat /\ n = o.refs + 1 /\ o.refs \in Nat /\ o.lost \in Nat
          /\ o.refs = References(o, Cardinality(OwnersOf(y)), ValuesIn(stack, y))
          /\ Cardinality(OwnersOf(y)) \in Nat /\ ValuesIn(stack, y) \in Nat
          /\ ValuesIn(stack', y) = ValuesIn(stack, y) + 1
      BY <1>3, <1>12, <1>13, <2>2, <3>1, OwnersNat DEF PlainOwned, Right, GObject
    <3> HIDE DEF n, o
    <3>5. /\ p \in GObject /\ p.refs = n /\ p.lost = o.lost /\ p.native = o.native /\ p # Null
      <4>1. /\ p \in GObject /\ p.refs = n /\ p.lost = o.lost /\ p.native = o.native
        BY <3>1, <3>4 DEF GObject
      <4> QED BY <4>1, NullAssumption
    <3> HIDE DEF p
    <3>6. Right(p, Cardinality(OwnersOf(y)'), ValuesIn(stack', y))
      BY <3>3, <3>4, <3>5 DEF Right, References
    <3>7. \A x \in GObjs \ {y} : /\ Cardinality(OwnersOf(x)') = Cardinality(OwnersOf(x))
                                 /\ ValuesIn(stack', x) = ValuesIn(stack, x)
      BY <1>3, <1>12, <3>3
    <3> QED BY <1>13, <3>2, <3>5, <3>6, <3>7, OneGObject
  <2> QED BY <2>1, <2>2
<1>16. Listed'
  BY <1>1 DEF Inv, Listed
<1>17. /\ zval' \in [Zvals -> Wrappers \cup {Null}] /\ names' \in [Zvals -> 0 .. MaxVars]
       /\ wrapper' \in [Wrappers -> Wrapper \cup {Null}] /\ refcount' \in [Zvals -> Nat]
  BY <1>1 DEF Inv, TypeOK
<1> QED BY <1>1, <1>11, <1>14, <1>15, <1>16, <1>17, GoingStep

\* emit() wraps the object that a callback returned.
LEMMA EmitReturnInv == ASSUME Inv, phase = "active", EmitReturn PROVE Inv'
<1> DEFINE g == Head(Top.values)
           e == WithRet(Top, FALSE)
<1>1. /\ TopIs({"emit"}) /\ Top.ret
      /\ gobject' = [WrapReferenced(g) EXCEPT ![g].lost = @ + 1]
      /\ Pushed(stack', e, Below)
      /\ UNCHANGED <<phase, fault, request, closure>>
  BY DEF EmitReturn, Pushed, WithRet
<1>2. PICK w \in Wrappers, z \in Zvals :
        /\ FreshWrapper(w) /\ FreshZval(z)
        /\ wrapper' = [wrapper EXCEPT ![w] = NewWrapper(g)]
        /\ zval' = [zval EXCEPT ![z] = w]
        /\ refcount' = [refcount EXCEPT ![z] = 1]
        /\ names' = [names EXCEPT ![z] = 1]
  BY DEF EmitReturn
<1>3. /\ stack # <<>> /\ Top.at = "emit" /\ ~Is(Top, Destructs)
      /\ Top.values \in Seq(GObjs) /\ Top.values # <<>> /\ g \in GObjs
      /\ \A x : /\ Gives(Top, x) = Count(x, Top.values) + (IF Top.ret /\ g = x THEN 1 ELSE 0)
                /\ Count(x, Top.values) \in Nat
  BY <1>1, EmitTop
<1>4. /\ Top \in Frames /\ Base(Below) /\ Plain(stack) /\ Live(Top)
      /\ \A b \in Elements(Below) : Live(b)
      /\ \A x : /\ HeldIn(stack, x) \in Nat /\ ValuesIn(stack, x) \in Nat
                /\ HeldIn(Below, x) \in Nat /\ ValuesIn(Below, x) \in Nat
                /\ HeldIn(stack, x) = HeldIn(Below, x) + Uses(Top, x)
                /\ ValuesIn(stack, x) = ValuesIn(Below, x) + Gives(Top, x)
  BY <1>3, PlainTop
<1>5. /\ e \in Frames /\ e.at = "emit" /\ e.values = Top.values
      /\ \A x : /\ Uses(e, x) = Uses(Top, x)
                /\ Gives(Top, x) = Gives(e, x) + (IF g = x THEN 1 ELSE 0)
  <2> DEFINE r == FALSE
  <2>1. r \in BOOLEAN /\ ~r /\ e = WithRet(Top, r)
    OBVIOUS
  <2> HIDE DEF r, e
  <2>2. /\ WithRet(Top, r) \in Frames /\ WithRet(Top, r).at = "emit"
        /\ WithRet(Top, r).values = Top.values
        /\ \A x : /\ Uses(WithRet(Top, r), x) = Uses(Top, x)
                  /\ Gives(WithRet(Top, r), x) = GivenOf(Top, x) + (IF r /\ g = x THEN 1 ELSE 0)
                  /\ Gives(Top, x) = GivenOf(Top, x) + (IF Top.ret /\ g = x THEN 1 ELSE 0)
                  /\ GivenOf(Top, x) \in Nat
    BY <1>3, <1>4, <2>1, RetChanges
  <2> HIDE DEF g
  <2> QED BY <1>1, <2>1, <2>2
<1> HIDE DEF e
<1>6. /\ stack' \in Seq(Frames) /\ Elements(stack') = {e} \cup Elements(Below)
      /\ Stacked(stack') /\ OnEmit(stack') /\ Plain(stack')
      /\ \A x : /\ Uses(e, x) \in Nat /\ Gives(e, x) \in Nat
                /\ HeldIn(stack', x) = HeldIn(Below, x) + Uses(e, x)
                /\ ValuesIn(stack', x) = ValuesIn(Below, x) + Gives(e, x)
  <2>1. Fits(e, Below) /\ ~Is(e, Destructs)
    BY <1>5 DEF Fits, Is, Destructs
  <2> QED BY <1>1, <1>4, <1>5, <2>1, PushFrame
<1>7. Going(stack')
  <2>1. Live(e)
    BY <1>3, <1>5 DEF Live, Is, FreeStorage
  <2> QED BY <1>4, <1>6, <2>1 DEF Going
<1>8. \A x : /\ HeldIn(stack', x) = HeldIn(stack, x)
             /\ ValuesIn(stack', x) \in Nat
             /\ ValuesIn(stack, x) = ValuesIn(stack', x) + (IF g = x THEN 1 ELSE 0)
  <2> HIDE DEF g
  <2> QED BY <1>4, <1>5, <1>6
<1> SUFFICES ASSUME NEW y \in GObjs, y = g PROVE Inv'
  BY <1>3
<1> HIDE DEF g
<1>9. ActiveCount /\ PlainOwned
  BY <1>4, ActiveFacts
<1> DEFINE o == gobject[y]
           n == o.refs + 1
           m == o.lost + 1
           q == [o EXCEPT !.refs = n]
           p == [q EXCEPT !.lost = m]
<1>10. o \in GObject /\ o # Null
  <2>1. ValuesIn(stack, y) \in Nat \ {0}
    BY <1>8
  <2> QED BY <2>1, ValueIsThere
<1>11. gobject' = [gobject EXCEPT ![y] = p]
  <2>1. gobject \in [GObjs -> GObject \cup {Null}]
    BY DEF Inv, TypeOK
  <2>2. WrapReferenced(y) = [gobject EXCEPT ![y] = q]
    BY <2>1 DEF WrapReferenced
  <2>3. /\ gobject' = [WrapReferenced(y) EXCEPT ![y].lost = @ + 1]
        /\ q.lost = o.lost
    BY <1>1, <1>10 DEF GObject
  <2> HIDE DEF q
  <2> QED BY <2>1, <2>2, <2>3
<1>12. /\ n \in Nat /\ n = o.refs + 1 /\ o.refs \in Nat
       /\ m \in Nat /\ m = o.lost + 1 /\ o.lost \in Nat
       /\ o.refs = References(o, Cardinality(OwnersOf(y)), ValuesIn(stack, y))
       /\ Cardinality(OwnersOf(y)) \in Nat
  BY <1>9, <1>10, OwnersNat DEF PlainOwned, Right, GObject
<1>13. p \in GObject /\ p # Null /\ p.refs = n /\ p.lost = m /\ p.native = o.native
  <2> HIDE DEF n, m, o
  <2>1. q \in GObject /\ q.refs = n /\ q.native = o.native
    BY <1>10, <1>12 DEF GObject
  <2> HIDE DEF q
  <2>2. p \in GObject /\ p.refs = n /\ p.lost = m /\ p.native = o.native
    BY <1>12, <2>1 DEF GObject
  <2> QED BY <2>2, NullAssumption
<1> HIDE DEF p, q, n, m, o
<1>14. /\ wrapper' \in [Wrappers -> Wrapper \cup {Null}] /\ wrapper'[w] # Null
       /\ \A v \in Wrappers : wrapper[v] # Null => wrapper'[v] # Null
       /\ Listed'
       /\ \A x : Cardinality(OwnersOf(x)') = Cardinality(OwnersOf(x)) + (IF x = y THEN 1 ELSE 0)
  <2>1. /\ wrapper[w] = Null /\ y \in GObjs \cup {Null} /\ closure' = closure
        /\ wrapper' = [wrapper EXCEPT ![w] = NewWrapper(y)]
    BY <1>1, <1>2 DEF FreshWrapper
  <2> QED BY <2>1, NewWrapperFacts
<1>15. \A x \in Zvals : /\ names[x] \in Nat /\ HeldIn(stack, x) \in Nat
                        /\ Cardinality(Params(x)) \in Nat /\ refcount[x] \in Nat
                        /\ refcount[x] = names[x] + HeldIn(stack, x) + Cardinality(Params(x))
  BY <1>4, ActiveFacts
<1>16. names[z] = 0
  <2> DEFINE i == names[z]
             h == HeldIn(stack, z)
             k == Cardinality(Params(z))
  <2>1. i \in Nat /\ h \in Nat /\ k \in Nat /\ 0 = i + h + k
    BY <1>2, <1>15 DEF FreshZval
  <2> HIDE DEF i, h, k
  <2>2. i = 0
    BY <2>1
  <2> QED BY <2>2 DEF i
<1>17. names \in [Zvals -> 0 .. MaxVars] /\ 1 \in 0 .. MaxVars
  BY ConstantsAssumption DEF Inv, TypeOK
<1>18. names' \in [Zvals -> 0 .. MaxVars]
  BY <1>2, <1>17
<1>19. /\ ActiveCount' /\ refcount' \in [Zvals -> Nat]
       /\ zval' \in [Zvals -> Wrappers \cup {Null}]
  <2>1. \A x \in Zvals : names'[x] + HeldIn(stack', x)
                           = names[x] + HeldIn(stack, x) + (IF x = z THEN 1 ELSE 0)
    <3> TAKE x \in Zvals
    <3>1. names'[x] = names[x] + (IF x = z THEN 1 ELSE 0)
      BY <1>2, <1>15, <1>16, <1>17
    <3>2. HeldIn(stack', x) = HeldIn(stack, x)
      BY <1>8
    <3> QED BY <1>15, <3>1, <3>2
  <2> QED BY <1>1, <1>2, <1>4, <1>14, <2>1, NewContainer
<1>20. /\ PlainOwned' /\ gobject' \in [GObjs -> GObject \cup {Null}]
       /\ \A x \in GObjs : gobject[x] # Null => gobject'[x] # Null
  <2>1. \A x \in GObjs \ {y} : /\ Cardinality(OwnersOf(x)') = Cardinality(OwnersOf(x))
                               /\ ValuesIn(stack', x) = ValuesIn(stack, x)
    BY <1>4, <1>8, <1>14, OwnersNat
  <2>2. Right(p, Cardinality(OwnersOf(y)'), ValuesIn(stack', y))
    <3>1. /\ Cardinality(OwnersOf(y)') = Cardinality(OwnersOf(y)) + 1
          /\ ValuesIn(stack, y) = ValuesIn(stack', y) + 1 /\ ValuesIn(stack', y) \in Nat
      BY <1>8, <1>14
    <3> QED BY <1>12, <1>13, <3>1 DEF Right, References
  <2> QED BY <1>9, <1>11, <1>13, <2>1, <2>2, OneGObject
<1> QED BY <1>1, <1>7, <1>14, <1>18, <1>19, <1>20, GoingStep

-----------------------------------------------------------------------------
(* The invariant holds                                                      *)

\* A step that changes nothing.
LEMMA StutterInv == Inv /\ UNCHANGED vars => Inv'
<1> SUFFICES ASSUME Inv, UNCHANGED vars PROVE Inv'
  OBVIOUS
<1> USE DEF vars
<1>1. TypeOK' /\ Idle' /\ ClosuresWatched'
  BY DEF Inv, TypeOK, Idle, ClosuresWatched
<1>2. Counted'
  BY DEF Inv, Counted, UsesIn, Params
<1>3. Settled' /\ Listed'
  BY DEF Inv, Settled, Listed
<1>4. Owned'
  BY DEF Inv, Owned, Owning
<1>5. Framed'
  BY DEF Inv, Framed, Live
<1> QED BY <1>1, <1>2, <1>3, <1>4, <1>5 DEF Inv

\* Every step of the program, of PHP and of GLib keeps the invariant.
LEMMA InvStep == Inv /\ [Next]_vars => Inv'
<1> SUFFICES ASSUME Inv, [Next]_vars PROVE Inv'
  OBVIOUS
<1>1. CASE \/ Begin \/ RequestEnd \/ Exit
           \/ \E w \in Wrappers : Sweep(w)
  BY <1>1, BeginInv, RequestEndInv, ExitInv, SweepInv
<1>2. CASE \/ \E w \in Wrappers, z \in Zvals : New(w, z)
           \/ \E z \in Zvals, g \in GObjs : Construct(z, g)
           \/ \E z \in Zvals : AddVar(z) \/ DropVar(z)
           \/ \E z, z2 \in Zvals : Separate(z, z2)
  BY <1>2, NewInv, ConstructInv, AddVarInv, DropVarInv, SeparateInv
<1>3. CASE \/ \E z \in Zvals, c \in Closures, p \in Zvals \cup {Null} : SignalConnect(z, c, p)
           \/ \E z \in Zvals, c \in Closures : SignalDisconnect(z, c)
           \/ \E z \in Zvals, p \in Zvals \cup {Null} : Emit(z, p)
  BY <1>3, SignalConnectInv, SignalDisconnectInv, EmitInv
<1>4. CASE \/ \E g \in GObjs : NativeNew(g) \/ NativeUnref(g)
           \/ \E z \in Zvals : NativeRef(z)
           \/ \E g, g2 \in GObjs : NativeEmit(g, g2)
  BY <1>4, NativeNewInv, NativeUnrefInv, NativeRefInv, NativeEmitInv
<1>5. CASE Emission \/ \E ret \in BOOLEAN : HandlerReturn(ret)
  BY <1>5, MarshalInv, MarshalValueInv, CallInv, EmitReturnInv, EmitEndInv, HandlerReturnInv
     DEF Emission
<1>6. CASE Unwind
  <2>1. phase \in {"active", "shutdown"} /\ phase # "idle"
    BY <1>6 DEF Unwind
  <2> QED BY <1>6, <2>1, ReleaseArgumentInv, UnsetValueInv, FreeGObjectInv, FreeClosureInv,
             FinalizeInv DEF Unwind
<1>7. CASE Halted \/ UNCHANGED vars
  BY <1>7, StutterInv DEF Halted
<1> QED BY <1>1, <1>2, <1>3, <1>4, <1>5, <1>6, <1>7 DEF Next

\* The invariant holds in every state.
LEMMA InvHolds == Spec => []Inv
BY InitInv, InvStep, PTL DEF Spec

\* What the variables of the model hold, among it that no count of containers and
\* GObjects falls below 0.
THEOREM TypeCorrect == Spec => []TypeOK
<1>1. Inv => TypeOK
  BY DEF Inv
<1> QED BY <1>1, InvHolds, PTL

\* While the script runs, a container counts exactly the variables, arguments, $this
\* of emissions and callbacks that use it, and is freed with the last: the
\* zval_add_ref and zval_ptr_dtor of emit(), of the marshaller and of the closures
\* match, however emissions and destructions are nested.
THEOREM ContainersCounted == Spec => []ZvalRefcountsExact
<1>1. Inv => ZvalRefcountsExact
  BY FramesOfStack DEF Inv, Counted, UsesIn, Params, ZvalRefcountsExact
<1> QED BY <1>1, InvHolds, PTL

\* A GObject counts its wrappers, its GValues and the C code that has it, besides the
\* references that emit(), a second __construct and exit() forgot: the unref of
\* free_storage is never one too many, and no owner's GObject is finalized.
THEOREM GObjectsCounted == Spec => []GObjectRefsExact
<1>1. Inv => GObjectRefsExact
  <2> SUFFICES ASSUME Inv, NEW g \in GObjs
               PROVE  IF gobject[g] = Null
                        THEN Owners(g) = {}
                        ELSE gobject[g].refs = Cardinality(Owners(g)) + gobject[g].lost
                               + (IF gobject[g].native THEN 1 ELSE 0) + ValuesOf(g)
    BY DEF GObjectRefsExact
  <2>1. Owners(g) = Owning(stack, g) /\ ValuesOf(g) = ValuesIn(stack, g)
    BY FramesOfStack, FramesOfWrappers
  <2> QED BY <2>1 DEF Inv, Owned, References
<1> QED BY <1>1, InvHolds, PTL

\* A wrapper lists exactly the closures whose invalidation writes to it, each once:
\* unregister_gobject_closure never writes to a wrapper that is freed, and
\* free_storage never invalidates a closure that is not there any more.
THEOREM ListsExact == Spec => []ClosureListsExact
<1>1. Inv => ClosureListsExact
  <2> SUFFICES ASSUME Inv, NEW w \in Wrappers, wrapper[w] # Null
               PROVE  LET list == wrapper[w].closures
                      IN  Cardinality(Elements(list)) = Len(list)
    BY DEF Inv, Listed, ClosureListsExact
  <2>1. wrapper[w].closures \in Seq(Closures) /\ Injective(wrapper[w].closures)
    BY DEF Inv, TypeOK, Wrapper, Listed
  <2> QED BY <2>1, InjectiveLength
<1> QED BY <1>1, InvHolds, PTL

\* A handler never outlives the GObject it was connected to: g_object_watch_closure
\* invalidates it while the GObject is finalized, whoever dropped it.
THEOREM HandlersWatched == Spec => []ClosuresWatched
<1>1. Inv => ClosuresWatched
  BY DEF Inv
<1> QED BY <1>1, InvHolds, PTL

-----------------------------------------------------------------------------
(* Resources of the request                                                 *)

\* Wrappers and closures come, or they go.
Grows ==
    /\ \A w \in Wrappers : wrapper[w] # Null => wrapper'[w] # Null
    /\ \A c \in Closures : closure[c] # Null => closure'[c] # Null
Shrinks ==
    /\ \A w \in Wrappers : wrapper'[w] # Null => wrapper[w] # Null
    /\ \A c \in Closures : closure'[c] # Null => closure[c] # Null

\* A request goes on, and so does its memory.
GoesOn ==
    /\ phase \in {"active", "shutdown"} /\ phase' \in {"active", "shutdown"}
    /\ Grows \/ Shrinks
    /\ fault' = fault

\* The process dies, and not for a wrapper that was freed under a closure.
Dies ==
    /\ phase \in {"active", "shutdown"} /\ phase' = "crashed"
    /\ fault' # "stale_zobject"

\* One wrapper comes, changes or goes.
LEMMA OneWrapper ==
    ASSUME NEW w, NEW r, NEW f \in [Wrappers -> Wrapper \cup {Null}], wrapper = f,
           wrapper' = [f EXCEPT ![w] = r], closure' = closure
    PROVE  Grows \/ Shrinks
BY DEF Grows, Shrinks

\* A closure is invalidated only while its wrapper is there.
LEMMA InvalidateShrinks ==
    ASSUME Inv, NEW c \in Closures, closure[c] # Null, NEW frames, Invalidate(c, frames),
           phase \in {"active", "shutdown"}
    PROVE  GoesOn
<1> DEFINE w == closure[c].zobject
<1>1. wrapper[w] # Null
  BY DEF Inv, Listed
<1>2. /\ wrapper' = [wrapper EXCEPT ![w].closures = Without(@, c)]
      /\ closure' = [closure EXCEPT ![c] = Null]
      /\ phase' = phase /\ fault' = fault
  BY <1>1 DEF Invalidate, UnregisterGobjectClosure
<1>3. /\ \A x \in Wrappers \ {w} : wrapper'[x] = wrapper[x]
      /\ \A x \in Closures : closure'[x] # Null => closure[x] # Null
  BY <1>2 DEF Inv, TypeOK
<1> QED BY <1>1, <1>2, <1>3 DEF GoesOn, Shrinks

\* A callback is connected to a wrapper that is there.
LEMMA ConnectGrows ==
    ASSUME Inv, NEW z \in Zvals, NEW c \in Closures, NEW p \in Zvals \cup {Null},
           SignalConnect(z, c, p)
    PROVE  GoesOn \/ Dies
<1> DEFINE w == zval[z]
           g == wrapper[w].gobject
           made == [gobject |-> g, zobject |-> w, param |-> p, connected |-> TRUE]
<1>1. phase = "active" /\ ScriptRuns /\ Usable(z)
  BY DEF SignalConnect, ScriptRuns
<1>2. CASE g = Null
  BY <1>1, <1>2 DEF SignalConnect, Crash, Dies
<1>3. CASE g # Null
  <2>1. w \in Wrappers /\ wrapper[w] \in Wrapper /\ g \in GObjs
    BY <1>1, <1>3, UsableFacts
  <2> DEFINE list == <<c>> \o wrapper[w].closures
             r == [wrapper[w] EXCEPT !.closures = list]
  <2>2. /\ wrapper' = [wrapper EXCEPT ![w] = r]
        /\ closure' = [closure EXCEPT ![c] = made]
        /\ phase' = phase /\ fault' = fault
    BY <1>3, <2>1 DEF SignalConnect, RegisterGobjectClosure, Inv, TypeOK
  <2>3. list \in Seq(Closures)
    BY <2>1 DEF Wrapper
  <2> HIDE DEF list
  <2>4. r \in Wrapper /\ made \in Closure
    BY <2>1, <2>3 DEF Wrapper, Closure
  <2>5. r # Null /\ made # Null
    <3> HIDE DEF r, made
    <3> QED BY <2>4, NullAssumption
  <2> HIDE DEF r, made, w
  <2>6. Grows
    BY <2>2, <2>5 DEF Grows, Inv, TypeOK
  <2> QED BY <1>1, <2>2, <2>6 DEF GoesOn
<1> QED BY <1>2, <1>3

\* What every step does to the phase and to the resources of the request.
LEMMA StepKinds ==
    ASSUME Inv, [Next]_vars
    PROVE  \/ GoesOn \/ Dies \/ Begin \/ RequestEnd
           \/ UNCHANGED <<phase, fault, wrapper, closure>>
<1>1. CASE Begin \/ RequestEnd
  BY <1>1
<1>2. CASE Exit \/ \E w \in Wrappers : Sweep(w)
  BY <1>2 DEF Exit, Sweep, ScriptRuns, GoesOn, Grows
<1>3. CASE \E w \in Wrappers, z \in Zvals : New(w, z)
  <2>1. PICK w \in Wrappers, z \in Zvals : New(w, z)
    BY <1>3
  <2>2. /\ wrapper' = [wrapper EXCEPT ![w] = NewWrapper(Null)]
        /\ closure' = closure /\ phase = "active" /\ phase' = phase /\ fault' = fault
    BY <2>1 DEF New, ScriptRuns
  <2>3. wrapper \in [Wrappers -> Wrapper \cup {Null}]
    BY DEF Inv, TypeOK
  <2>4. Grows \/ Shrinks
    BY <2>2, <2>3, OneWrapper
  <2> QED BY <2>2, <2>4 DEF GoesOn
<1>4. CASE \E z \in Zvals, g \in GObjs : Construct(z, g)
  <2>1. PICK z \in Zvals, g \in GObjs : Construct(z, g)
    BY <1>4
  <2> DEFINE w == zval[z]
             r == [wrapper[w] EXCEPT !.gobject = g]
  <2>2. /\ wrapper' = [wrapper EXCEPT ![w] = r]
        /\ closure' = closure /\ phase = "active" /\ phase' = phase /\ fault' = fault
    BY <2>1 DEF Construct, ScriptRuns
  <2> HIDE DEF w, r
  <2>3. wrapper \in [Wrappers -> Wrapper \cup {Null}]
    BY DEF Inv, TypeOK
  <2>4. Grows \/ Shrinks
    BY <2>2, <2>3, OneWrapper
  <2> QED BY <2>2, <2>4 DEF GoesOn
<1>5. CASE \E z, z2 \in Zvals : Separate(z, z2)
  BY <1>5 DEF Separate
<1>6. CASE \E z \in Zvals : AddVar(z) \/ DropVar(z)
  BY <1>6 DEF AddVar, DropVar
<1>7. CASE \E z \in Zvals, c \in Closures, p \in Zvals \cup {Null} : SignalConnect(z, c, p)
  BY <1>7, ConnectGrows
<1>8. CASE \E z \in Zvals, c \in Closures : SignalDisconnect(z, c)
  <2>1. PICK z \in Zvals, c \in Closures : SignalDisconnect(z, c)
    BY <1>8
  <2>2. closure[c] # Null /\ phase = "active"
    BY <2>1 DEF SignalDisconnect, ScriptRuns
  <2>3. CASE c \in RunningIn(stack)
    <3>1. closure' = [closure EXCEPT ![c].connected = FALSE] /\ wrapper' = wrapper
          /\ phase' = phase /\ fault' = fault
      BY <2>1, <2>3 DEF SignalDisconnect
    <3>2. Shrinks
      BY <2>2, <3>1 DEF Shrinks, Inv, TypeOK
    <3> QED BY <2>2, <3>1, <3>2 DEF GoesOn
  <2>4. CASE c \notin RunningIn(stack)
    <3>1. Invalidate(c, stack)
      BY <2>1, <2>4 DEF SignalDisconnect
    <3> QED BY <2>2, <3>1, InvalidateShrinks
  <2> QED BY <2>3, <2>4
<1>9. CASE \E z \in Zvals, p \in Zvals \cup {Null} : Emit(z, p)
  BY <1>9 DEF Emit, Crash, ScriptRuns, Dies
<1>10. CASE \/ \E g \in GObjs : NativeNew(g) \/ NativeUnref(g)
            \/ \E z \in Zvals : NativeRef(z)
            \/ \E g, g2 \in GObjs : NativeEmit(g, g2)
            \/ \E ret \in BOOLEAN : HandlerReturn(ret)
  BY <1>10 DEF NativeNew, NativeUnref, NativeRef, NativeEmit, HandlerReturn
<1>11. CASE Emission
  <2>1. phase = "active"
    BY <1>11 DEF Emission
  <2>2. CASE \/ \E c \in Closures : Marshal(c)
             \/ Call \/ EmitEnd
    BY <2>2 DEF Marshal, Call, EmitEnd
  <2>3. CASE MarshalValue
    BY <2>1, <2>3, OneWrapper DEF MarshalValue, Crash, GoesOn, Dies, Inv, TypeOK
  <2>4. CASE EmitReturn
    BY <2>1, <2>4, OneWrapper DEF EmitReturn, GoesOn, Inv, TypeOK
  <2> QED BY <1>11, <2>2, <2>3, <2>4 DEF Emission
<1>12. CASE Unwind
  <2>1. phase \in {"active", "shutdown"}
    BY <1>12 DEF Unwind
  <2>2. CASE ReleaseArgument
    <3>1. CASE UNCHANGED <<phase, fault, wrapper, closure>>
      BY <3>1
    <3>2. CASE ~UNCHANGED <<phase, fault, wrapper, closure>>
      <4>1. /\ Top.closure # Null /\ closure[Top.closure] # Null
            /\ Invalidate(Top.closure, Below)
            /\ TopIs({"release"})
        BY <2>2, <3>2 DEF ReleaseArgument
      <4>2. Top.closure \in Closures
        BY <4>1, TopOfStack, FrameFields DEF TopIs, Is
      <4> QED BY <2>1, <4>1, <4>2, InvalidateShrinks
    <3> QED BY <3>1, <3>2
  <2>3. CASE UnsetValue \/ FreeGObject
    BY <2>3 DEF UnsetValue, FreeGObject
  <2>4. CASE FreeClosure
    <3> DEFINE w == Top.zobject
               list == wrapper[w].closures
               tmp == IF Is(Top, {"list"}) THEN FirstElement(list) ELSE Top.tmp
               frames == <<LoopFrame(w, NextElement(w, tmp))>> \o Below
    <3>1. \/ /\ wrapper' = [wrapper EXCEPT ![w] = Null]
             /\ UNCHANGED <<phase, fault, closure>>
          \/ Crash("stale_element")
          \/ tmp \in Elements(list) /\ Invalidate(tmp, frames)
      BY <2>4 DEF FreeClosure
    <3>2. stack # <<>> /\ w \in Wrappers /\ wrapper[w] # Null
      <4>1. stack # <<>> /\ Is(Top, {"list", "loop"}) /\ Is(Top, FreeStorage)
        BY <2>4 DEF FreeClosure, TopIs, Is, FreeStorage
      <4>2. Top \in Frames /\ Live(Top)
        BY <4>1, TopOfStack
      <4> QED BY <4>1, <4>2, FrameFields DEF Live, Is
    <3>3. \A c \in Elements(list) : c \in Closures /\ closure[c] # Null
      BY <3>2 DEF Inv, Listed
    <3>4. wrapper \in [Wrappers -> Wrapper \cup {Null}]
      BY DEF Inv, TypeOK
    <3> HIDE DEF w, list, tmp, frames
    <3>5. CASE /\ wrapper' = [wrapper EXCEPT ![w] = Null]
               /\ UNCHANGED <<phase, fault, closure>>
      <4>1. Grows \/ Shrinks
        BY <3>4, <3>5, OneWrapper
      <4> QED BY <2>1, <3>5, <4>1 DEF GoesOn
    <3>6. CASE Crash("stale_element")
      BY <2>1, <3>6 DEF Crash, Dies
    <3>7. CASE tmp \in Elements(list) /\ Invalidate(tmp, frames)
      BY <2>1, <3>3, <3>7, InvalidateShrinks
    <3> QED BY <3>1, <3>5, <3>6, <3>7
  <2>5. CASE Finalize
    <3>1. CASE \E c \in WatchedBy(Top.gobject) : Invalidate(c, stack)
      BY <2>1, <3>1, InvalidateShrinks DEF WatchedBy
    <3>2. CASE UNCHANGED <<phase, fault, wrapper, closure>>
      BY <3>2
    <3> QED BY <2>5, <3>1, <3>2 DEF Finalize
  <2> QED BY <1>12, <2>2, <2>3, <2>4, <2>5 DEF Unwind
<1>13. CASE Halted \/ UNCHANGED vars
  BY <1>13 DEF Halted, vars
<1> QED BY <1>1, <1>2, <1>3, <1>4, <1>5, <1>6, <1>7, <1>8, <1>9, <1>10, <1>11, <1>12, <1>13
        DEF Next

\* A closure is never invalidated after its wrapper was freed: the write of
\* unregister_gobject_closure finds the wrapper, in every order of destructions.
THEOREM WrapperOutlivesClosures == Spec => [](fault # "stale_zobject")
<1>1. Init => fault # "stale_zobject"
  BY DEF Init
<1>2. Inv /\ [Next]_vars /\ fault # "stale_zobject" => (fault # "stale_zobject")'
  BY StepKinds DEF GoesOn, Dies, Begin, RequestEnd
<1> QED BY <1>1, <1>2, InvHolds, PTL DEF Spec

Resources == {w \in Wrappers : wrapper[w] # Null} \cup {c \in Closures : closure[c] # Null}

\* With the last wrapper the last closure goes, and between requests there are none.
LEMMA NothingBetween ==
    ASSUME Inv, phase = "idle" \/ \A w \in Wrappers : wrapper[w] = Null
    PROVE  Resources = {}
BY DEF Inv, Idle, Listed, TypeOK, Closure, Resources

\* The process starts without resources.
LEMMA ScopeInit == Init => ObjectScope!Init
BY DEF Init, ObjectScope!Init

\* A step opens a request, lets it acquire or give up resources, or ends it.
LEMMA ScopeStep == Inv /\ [Next]_vars => [ObjectScope!Next]_(ObjectScope!vars)
<1> SUFFICES ASSUME Inv, [Next]_vars
             PROVE  [ObjectScope!Next]_(ObjectScope!vars)
  OBVIOUS
<1> USE DEF ObjectScope!Next, ObjectScope!vars
<1>1. CASE UNCHANGED <<phase, fault, wrapper, closure>>
  BY <1>1
<1>2. CASE Begin
  <2>1. phase = "idle" /\ phase' = "active" /\ Resources = {} /\ Resources' = Resources
    BY <1>2, NothingBetween DEF Begin, Resources
  <2> QED BY <2>1 DEF ObjectScope!Begin, Resources
<1>3. CASE RequestEnd
  <2>1. /\ phase = "shutdown" /\ phase' = "idle"
        /\ \A w \in Wrappers : wrapper[w] = Null
        /\ Resources' = Resources
    BY <1>3 DEF RequestEnd, Resources
  <2>2. Resources' = {}
    BY <2>1, NothingBetween
  <2> QED BY <2>1, <2>2 DEF ObjectScope!End, Resources
<1>4. CASE Dies
  BY <1>4 DEF Dies, ObjectScope!End
<1>5. CASE GoesOn
  <2>1. /\ phase \in {"active", "shutdown"} /\ phase' \in {"active", "shutdown"}
        /\ Grows \/ Shrinks
    BY <1>5 DEF GoesOn
  <2>2. CASE Grows
    <3>1. Resources' = Resources \cup Resources' /\ Resources' \subseteq Wrappers \cup Closures
      BY <2>2 DEF Grows, Resources
    <3> QED BY <2>1, <3>1 DEF ObjectScope!Acquire, Resources
  <2>3. CASE Shrinks
    <3>1. Resources' \in SUBSET Resources
      BY <2>3 DEF Shrinks, Resources
    <3> QED BY <2>1, <3>1 DEF ObjectScope!Release, Resources
  <2> QED BY <2>1, <2>2, <2>3
<1> QED BY <1>1, <1>2, <1>3, <1>4, <1>5, StepKinds

\* Wrappers and closures implement RequestScope: acquired inside a request and gone
\* with it, whatever C code keeps of the GObjects, also when exit() or a memory error
\* leaves the calls in progress.
THEOREM RefinesRequestScope == Spec => ImplementsRequestScope
BY InvHolds, ScopeInit, ScopeStep, PTL
   DEF Spec, ImplementsRequestScope, ObjectScope!Spec
=============================================================================
