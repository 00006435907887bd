---------------------------- MODULE FiguresProofs ----------------------------
(***************************************************************************)
(* The figures of the dashboard agree with each other, for any portfolio:  *)
(* what adding up a function over a finite set does, and from it that each *)
(* breakdown of analytics_service.py is complete and counts nothing twice. *)
(***************************************************************************)
EXTENDS RecoveryFigures, ChannelsProofs

-----------------------------------------------------------------------------
(* Sums over finite sets.                                                  *)

\* What every subset of S has if a set has it whenever its subsets do that are
\* one element smaller.
LEMMA ShrinkInduction ==
  ASSUME NEW S, IsFiniteSet(S), NEW G,
         \A T \in SUBSET S : (\A x \in T : T \ {x} \in G) => T \in G
  PROVE  SUBSET S \subseteq G
<1> DEFINE good == {n \in Nat : \A T \in SUBSET S : Cardinality(T) = n => T \in G}
<1>1. \A T \in SUBSET S : IsFiniteSet(T) /\ Cardinality(T) \in Nat
  BY FS_Subset, FS_CardinalityType
<1>2. 0 \in good
  <2>1. \A T \in SUBSET S : Cardinality(T) = 0 => T = {}
    BY <1>1, FS_EmptySet
  <2>2. {} \in G
    OBVIOUS
  <2> QED
    BY <2>1, <2>2
<1>3. ASSUME NEW n \in Nat, n \in good PROVE n + 1 \in good
  <2>1. ASSUME NEW T \in SUBSET S, Cardinality(T) = n + 1, NEW x \in T
        PROVE  T \ {x} \in G
    <3>1. Cardinality(T \ {x}) = n
      BY <1>1, <2>1, FS_RemoveElement
    <3> QED
      BY <1>3, <3>1
  <2> QED
    BY <2>1
<1> HIDE DEF good
<1>4. Nat \subseteq good
  BY <1>2, <1>3, Induction
<1> QED
  BY <1>1, <1>4 DEF good

\* g gives every subset of S the sum of f over it.
Additive(g, f, S) ==
  /\ g \in [SUBSET S -> Nat] /\ g[{}] = 0
  /\ \A T \in SUBSET S : \A x \in T : g[T] = f[x] + g[T \ {x}]

Summable(f, S) == IsFiniteSet(S) /\ \A x \in S : f[x] \in Nat

LEMMA AdditiveExists ==
  ASSUME NEW f, NEW S, Summable(f, S)
  PROVE  \E g : Additive(g, f, S)
<1> DEFINE good == {T \in SUBSET S : \E g : Additive(g, f, T)}
<1>1. \A T \in SUBSET S : (\A x \in T : T \ {x} \in good) => T \in good
  <2> SUFFICES ASSUME NEW T \in SUBSET S, \A x \in T : T \ {x} \in good
               PROVE  \E h : Additive(h, f, T)
    OBVIOUS
  <2>1. CASE T = {}
    <3> DEFINE h == [U \in SUBSET T |-> 0]
    <3>1. Additive(h, f, T)
      BY <2>1 DEF Additive
    <3> QED
      BY <3>1
  <2>2. ASSUME NEW x \in T PROVE \E h : Additive(h, f, T)
    <3>1. PICK g : Additive(g, f, T \ {x})
      OBVIOUS
    <3> DEFINE h == [U \in SUBSET T |-> IF x \in U THEN f[x] + g[U \ {x}] ELSE g[U]]
    <3>2. f[x] \in Nat
      BY DEF Summable
    <3>3. h \in [SUBSET T -> Nat] /\ h[{}] = 0
      BY <3>1, <3>2 DEF Additive
    <3>4. ASSUME NEW U \in SUBSET T, NEW y \in U PROVE h[U] = f[y] + h[U \ {y}]
      <4>1. CASE x \notin U
        <5>1. U \in SUBSET (T \ {x}) /\ x \notin U \ {y}
          BY <4>1
        <5>2. h[U] = g[U] /\ h[U \ {y}] = g[U \ {y}]
          BY <4>1, <5>1
        <5> QED
          BY <3>1, <5>1, <5>2 DEF Additive
      <4>2. CASE y = x
        BY <4>2
      <4>3. CASE x \in U /\ y # x
        <5> DEFINE V == U \ {x}
        <5>1. V \in SUBSET (T \ {x}) /\ y \in V /\ (U \ {y}) \ {x} = V \ {y}
          BY <4>3
        <5>2. h[U] = f[x] + g[V] /\ h[U \ {y}] = f[x] + g[V \ {y}]
          BY <4>3, <5>1
        <5>3. g[V] = f[y] + g[V \ {y}] /\ g[V \ {y}] \in Nat
          BY <3>1, <5>1 DEF Additive
        <5>4. f[y] \in Nat
          BY DEF Summable
        <5> HIDE DEF h, V
        <5> QED
          BY <3>2, <5>2, <5>3, <5>4
      <4> QED
        BY <4>1, <4>2, <4>3
    <3> HIDE DEF h
    <3>5. Additive(h, f, T)
      BY <3>3, <3>4 DEF Additive
    <3> QED
      BY <3>5
  <2> QED
    BY <2>1, <2>2
<1>2. IsFiniteSet(S)
  BY DEF Summable
<1> HIDE DEF good
<1>3. SUBSET S \subseteq good
  BY <1>1, <1>2, ShrinkInduction
<1> QED
  BY <1>3 DEF good

\* How the community module defines the sum: an element is chosen and taken off.
Choice(T) == CHOOSE x \in T : TRUE
Unfolds(g, f, S) ==
  g = [T \in SUBSET S |-> IF T = {} THEN 0 ELSE f[Choice(T)] + g[T \ {Choice(T)}]]

LEMMA SumUnfold ==
  ASSUME NEW f, NEW S
  PROVE  SumFunctionOnSet(f, S) = (CHOOSE g : Unfolds(g, f, S))[S]
<1>1. SumFunctionOnSet(f, S) =
     (CHOOSE g : g = [T \in SUBSET S |-> IF T = {} THEN 0 ELSE f[Choice(T)] + g[T \ {Choice(T)}]])[S]
  BY Zenon DEF SumFunctionOnSet, FoldFunctionOnSet, MapThenFoldSet, Choice
<1> QED
  BY <1>1, Zenon DEF Unfolds

\* The community's sum over S is the additive one.
LEMMA SumIsAdditive ==
  ASSUME NEW f, NEW S, Summable(f, S), NEW g, Additive(g, f, S)
  PROVE  SumFunctionOnSet(f, S) = g[S]
<1>1. \A T \in SUBSET S : T # {} => Choice(T) \in T
  BY DEF Choice
<1>2. Unfolds(g, f, S)
  BY <1>1 DEF Unfolds, Additive
<1> DEFINE h == CHOOSE k : Unfolds(k, f, S)
<1>3. Unfolds(h, f, S)
  BY <1>2, Zenon
<1> HIDE DEF h
<1> DEFINE good == {T \in SUBSET S : h[T] = g[T]}
<1>4. \A T \in SUBSET S : (\A x \in T : T \ {x} \in good) => T \in good
  <2> SUFFICES ASSUME NEW T \in SUBSET S, \A x \in T : T \ {x} \in good
               PROVE  h[T] = g[T]
    OBVIOUS
  <2>1. h[T] = IF T = {} THEN 0 ELSE f[Choice(T)] + h[T \ {Choice(T)}]
    BY <1>3 DEF Unfolds
  <2>2. g[T] = IF T = {} THEN 0 ELSE f[Choice(T)] + g[T \ {Choice(T)}]
    BY <1>1 DEF Additive
  <2> QED
    BY <1>1, <2>1, <2>2
<1>5. IsFiniteSet(S)
  BY DEF Summable
<1> HIDE DEF good
<1>6. SUBSET S \subseteq good
  BY <1>4, <1>5, ShrinkInduction
<1>7. h[S] = g[S]
  BY <1>6 DEF good
<1> QED
  BY <1>7, SumUnfold DEF h

\* Nothing adds up to nought, and a sum is one summand more than the sum of the rest.
LEMMA SumOf ==
  ASSUME NEW f, NEW S, Summable(f, S)
  PROVE  /\ SumFunctionOnSet(f, S) \in Nat
         /\ SumFunctionOnSet(f, {}) = 0
         /\ \A x \in S : SumFunctionOnSet(f, S) = f[x] + SumFunctionOnSet(f, S \ {x})
<1>1. PICK g : Additive(g, f, S)
  BY AdditiveExists
<1>2. ASSUME NEW T \in SUBSET S PROVE SumFunctionOnSet(f, T) = g[T]
  <2> DEFINE k == [U \in SUBSET T |-> g[U]]
  <2>1. Additive(k, f, T)
    BY <1>1 DEF Additive
  <2>2. Summable(f, T)
    BY FS_Subset DEF Summable
  <2>3. k[T] = g[T]
    OBVIOUS
  <2> HIDE DEF k
  <2> QED
    BY <2>1, <2>2, <2>3, SumIsAdditive
<1>3. \A x \in S : S \ {x} \in SUBSET S
  OBVIOUS
<1> QED
  BY <1>1, <1>2, <1>3 DEF Additive

\* The same, one fact at a time.
LEMMA SumNat ==
  ASSUME NEW f, NEW S, Summable(f, S)
  PROVE  SumFunctionOnSet(f, S) \in Nat
  BY SumOf

LEMMA SumNone == \A f : SumFunctionOnSet(f, {}) = 0
<1> SUFFICES ASSUME NEW f PROVE SumFunctionOnSet(f, {}) = 0
  OBVIOUS
<1>1. Summable(f, {})
  BY FS_EmptySet DEF Summable
<1> QED
  BY <1>1, SumOf

LEMMA SumLess ==
  ASSUME NEW f, NEW S, Summable(f, S), NEW x \in S
  PROVE  /\ SumFunctionOnSet(f, S) = f[x] + SumFunctionOnSet(f, S \ {x})
         /\ Summable(f, S \ {x})
<1>1. IsFiniteSet(S \ {x})
  BY FS_Subset DEF Summable
<1> QED
  BY <1>1, SumOf DEF Summable

\* Noughts add up to nought.
LEMMA SumZero ==
  ASSUME NEW f, NEW S, IsFiniteSet(S), \A x \in S : f[x] = 0
  PROVE  SumFunctionOnSet(f, S) = 0
<1> DEFINE good == {T \in SUBSET S : SumFunctionOnSet(f, T) = 0}
<1>1. \A T \in SUBSET S : (\A x \in T : T \ {x} \in good) => T \in good
  <2>1. ASSUME NEW T \in SUBSET S, NEW x \in T, T \ {x} \in good PROVE T \in good
    <3>1. Summable(f, T)
      BY FS_Subset DEF Summable
    <3>2. SumFunctionOnSet(f, T) = 0 + SumFunctionOnSet(f, T \ {x})
      BY <3>1, SumLess
    <3> QED
      BY <2>1, <3>2
  <2> QED
    BY <2>1, SumNone
<1> HIDE DEF good
<1>2. SUBSET S \subseteq good
  BY <1>1, ShrinkInduction
<1> QED
  BY <1>2 DEF good

\* Sums of functions that are at most as large, or equal, on the set.
LEMMA SumMonotone ==
  ASSUME NEW f, NEW g, NEW S, Summable(f, S), Summable(g, S),
         \A x \in S : f[x] <= g[x]
  PROVE  SumFunctionOnSet(f, S) <= SumFunctionOnSet(g, S)
<1> DEFINE good == {T \in SUBSET S : SumFunctionOnSet(f, T) <= SumFunctionOnSet(g, T)}
<1>1. \A T \in SUBSET S : (\A x \in T : T \ {x} \in good) => T \in good
  <2> SUFFICES ASSUME NEW T \in SUBSET S, \A x \in T : T \ {x} \in good
               PROVE  SumFunctionOnSet(f, T) <= SumFunctionOnSet(g, T)
    OBVIOUS
  <2>1. CASE T = {}
    BY <2>1, SumNone
  <2>2. ASSUME NEW x \in T PROVE SumFunctionOnSet(f, T) <= SumFunctionOnSet(g, T)
    <3>1. Summable(f, T) /\ Summable(g, T)
      BY FS_Subset DEF Summable
    <3> DEFINE ft == SumFunctionOnSet(f, T)
               gt == SumFunctionOnSet(g, T)
               fu == SumFunctionOnSet(f, T \ {x})
               gu == SumFunctionOnSet(g, T \ {x})
    <3>2. /\ ft = f[x] + fu /\ gt = g[x] + gu
          /\ fu \in Nat /\ gu \in Nat
      BY <3>1, SumLess, SumNat
    <3>3. fu <= gu
      OBVIOUS
    <3>4. f[x] \in Nat /\ g[x] \in Nat /\ f[x] <= g[x]
      BY DEF Summable
    <3> HIDE DEF ft, gt, fu, gu
    <3>5. ft <= gt
      BY <3>2, <3>3, <3>4
    <3> QED
      BY <3>5 DEF ft, gt
  <2> QED
    BY <2>1, <2>2
<1>2. IsFiniteSet(S)
  BY DEF Summable
<1> HIDE DEF good
<1>3. SUBSET S \subseteq good
  BY <1>1, <1>2, ShrinkInduction
<1> QED
  BY <1>3 DEF good

LEMMA SumEqual ==
  ASSUME NEW f, NEW g, NEW S, Summable(f, S), \A x \in S : f[x] = g[x]
  PROVE  SumFunctionOnSet(f, S) = SumFunctionOnSet(g, S)
<1>1. Summable(g, S)
  BY DEF Summable
<1>2. \A x \in S : f[x] <= g[x] /\ g[x] <= f[x]
  BY DEF Summable
<1> DEFINE s == SumFunctionOnSet(f, S)
           t == SumFunctionOnSet(g, S)
<1>3. s <= t /\ t <= s /\ s \in Nat /\ t \in Nat
  BY <1>1, <1>2, SumMonotone, SumNat
<1> HIDE DEF s, t
<1>4. s = t
  BY <1>3
<1> QED
  BY <1>4 DEF s, t

\* A set has as many members as ones add up to.
LEMMA SumOnes ==
  ASSUME NEW f, NEW S, IsFiniteSet(S), \A x \in S : f[x] = 1
  PROVE  SumFunctionOnSet(f, S) = Cardinality(S)
<1> DEFINE good == {T \in SUBSET S : SumFunctionOnSet(f, T) = Cardinality(T)}
<1>1. \A T \in SUBSET S : (\A x \in T : T \ {x} \in good) => T \in good
  <2> SUFFICES ASSUME NEW T \in SUBSET S, \A x \in T : T \ {x} \in good
               PROVE  SumFunctionOnSet(f, T) = Cardinality(T)
    OBVIOUS
  <2>1. CASE T = {}
    BY <2>1, SumNone, FS_EmptySet
  <2>2. ASSUME NEW x \in T PROVE SumFunctionOnSet(f, T) = Cardinality(T)
    <3>1. IsFiniteSet(T) /\ Summable(f, T)
      BY FS_Subset DEF Summable
    <3>2. SumFunctionOnSet(f, T) = 1 + SumFunctionOnSet(f, T \ {x})
      BY <3>1, SumLess
    <3>3. Cardinality(T) \in Nat /\ Cardinality(T \ {x}) = Cardinality(T) - 1
      BY <3>1, FS_RemoveElement, FS_CardinalityType
    <3> QED
      BY <3>2, <3>3
  <2> QED
    BY <2>1, <2>2
<1> HIDE DEF good
<1>2. SUBSET S \subseteq good
  BY <1>1, ShrinkInduction
<1> QED
  BY <1>2 DEF good

\* Raising one summand raises the sum by as much.
LEMMA SumRaised ==
  ASSUME NEW f, NEW g, NEW S, Summable(f, S), Summable(g, S), NEW r \in S, NEW d \in Nat,
         g[r] = f[r] + d, \A x \in S \ {r} : g[x] = f[x]
  PROVE  SumFunctionOnSet(g, S) = SumFunctionOnSet(f, S) + d
<1>1. SumFunctionOnSet(f, S \ {r}) = SumFunctionOnSet(g, S \ {r})
  BY SumLess, SumEqual
<1> DEFINE rest == SumFunctionOnSet(f, S \ {r})
<1>2. /\ SumFunctionOnSet(f, S) = f[r] + rest /\ rest \in Nat /\ f[r] \in Nat
      /\ SumFunctionOnSet(g, S) = (f[r] + d) + rest
  BY <1>1, SumLess, SumNat DEF Summable
<1> HIDE DEF rest
<1> QED
  BY <1>2

\* Adding up class by class gives the same sum.
SumByClass(f, S, kind, K) ==
  SumFunctionOnSet([r \in K |-> SumFunctionOnSet(f, {x \in S : kind[x] = r})], K)

LEMMA SumPartition ==
  ASSUME NEW f, NEW S, Summable(f, S), NEW K, IsFiniteSet(K), NEW kind,
         \A x \in S : kind[x] \in K
  PROVE  SumByClass(f, S, kind, K) = SumFunctionOnSet(f, S)
<1> DEFINE good == {T \in SUBSET S : SumByClass(f, T, kind, K) = SumFunctionOnSet(f, T)}
           Class(T, r) == {x \in T : kind[x] = r}
           part(T) == [r \in K |-> SumFunctionOnSet(f, Class(T, r))]
<1>1. ASSUME NEW T \in SUBSET S
      PROVE  /\ Summable(f, T) /\ Summable(part(T), K)
             /\ \A r \in K : Summable(f, Class(T, r))
  <2>1. Summable(f, T) /\ \A r \in K : Summable(f, Class(T, r))
    BY FS_Subset DEF Summable
  <2>2. \A r \in K : SumFunctionOnSet(f, Class(T, r)) \in Nat
    BY <2>1, SumNat
  <2> HIDE DEF Class
  <2> QED
    BY <2>1, <2>2 DEF Summable
<1>2. \A T \in SUBSET S : (\A x \in T : T \ {x} \in good) => T \in good
  <2> SUFFICES ASSUME NEW T \in SUBSET S, \A x \in T : T \ {x} \in good
               PROVE  SumFunctionOnSet(part(T), K) = SumFunctionOnSet(f, T)
    BY Zenon DEF SumByClass
  <2>1. CASE T = {}
    <3>1. \A r \in K : part(T)[r] = 0
      BY <2>1, SumNone
    <3>2. SumFunctionOnSet(part(T), K) = 0
      <4> HIDE DEF part
      <4> QED
        BY <3>1, SumZero
    <3> QED
      BY <2>1, <3>2, SumNone
  <2>2. ASSUME NEW x \in T PROVE SumFunctionOnSet(part(T), K) = SumFunctionOnSet(f, T)
    <3> DEFINE U == T \ {x}
               r == kind[x]
    <3>1. /\ U \in SUBSET S /\ r \in K /\ f[x] \in Nat
          /\ SumFunctionOnSet(part(U), K) = SumFunctionOnSet(f, U)
      BY DEF Summable, SumByClass
    <3>2. /\ Class(U, r) = Class(T, r) \ {x} /\ x \in Class(T, r)
          /\ \A q \in K \ {r} : Class(U, q) = Class(T, q)
      OBVIOUS
    <3>3. /\ SumFunctionOnSet(f, T) = f[x] + SumFunctionOnSet(f, U)
          /\ SumFunctionOnSet(f, Class(T, r)) = f[x] + SumFunctionOnSet(f, Class(U, r))
          /\ SumFunctionOnSet(f, U) \in Nat /\ SumFunctionOnSet(f, Class(U, r)) \in Nat
      <4> HIDE DEF part, r, Class
      <4>1. /\ Summable(f, T) /\ Summable(f, U)
            /\ Summable(f, Class(T, r)) /\ Summable(f, Class(U, r))
        BY <1>1, <3>1
      <4>2. SumFunctionOnSet(f, T) = f[x] + SumFunctionOnSet(f, U)
        BY <4>1, SumLess
      <4>3. SumFunctionOnSet(f, Class(T, r)) = f[x] + SumFunctionOnSet(f, Class(U, r))
        <5> DEFINE D == Class(T, r)
        <5>1. Summable(f, D) /\ x \in D /\ Class(U, r) = D \ {x}
          BY <3>2, <4>1
        <5> HIDE DEF D, U
        <5>2. SumFunctionOnSet(f, D) = f[x] + SumFunctionOnSet(f, D \ {x})
          BY <5>1, SumLess
        <5> QED
          BY <5>1, <5>2 DEF D
      <4>4. SumFunctionOnSet(f, U) \in Nat
        BY <4>1, SumNat
      <4>5. SumFunctionOnSet(f, Class(U, r)) \in Nat
        BY <4>1, SumNat
      <4> HIDE DEF U
      <4> QED
        BY <4>2, <4>3, <4>4, <4>5
    <3>4. part(T)[r] = part(U)[r] + f[x] /\ \A q \in K \ {r} : part(T)[q] = part(U)[q]
      <4> HIDE DEF U, r, Class
      <4>1. \A q \in K : /\ part(T)[q] = SumFunctionOnSet(f, Class(T, q))
                         /\ part(U)[q] = SumFunctionOnSet(f, Class(U, q))
        OBVIOUS
      <4> HIDE DEF part
      <4>2. part(T)[r] = part(U)[r] + f[x]
        BY <3>1, <3>3, <4>1
      <4> QED
        BY <3>2, <4>1, <4>2
    <3>5. Summable(part(T), K) /\ Summable(part(U), K)
      BY <1>1, <3>1
    <3>6. SumFunctionOnSet(part(T), K) = SumFunctionOnSet(part(U), K) + f[x]
      <4> HIDE DEF part, U, r
      <4> QED
        BY <3>1, <3>4, <3>5, SumRaised
    <3> HIDE DEF part, U
    <3> QED
      BY <3>1, <3>3, <3>6
  <2> QED
    BY <2>1, <2>2
<1>3. IsFiniteSet(S)
  BY DEF Summable
<1> HIDE DEF good
<1>4. SUBSET S \subseteq good
  BY <1>2, <1>3, ShrinkInduction
<1> QED
  BY <1>4 DEF good

\* A table whose entry for each class is the sum, or the number, of its members.
LEMMA Breakdown ==
  ASSUME NEW f, NEW S, Summable(f, S), NEW K, IsFiniteSet(K), NEW kind,
         \A x \in S : kind[x] \in K, NEW table, table = [r \in K |-> table[r]],
         \A r \in K : table[r] = SumFunctionOnSet(f, {x \in S : kind[x] = r})
  PROVE  SumFunction(table) = SumFunctionOnSet(f, S)
<1>1. table = [r \in K |-> SumFunctionOnSet(f, {x \in S : kind[x] = r})]
  OBVIOUS
<1>2. DOMAIN table = K
  OBVIOUS
<1>3. SumFunction(table) = SumFunctionOnSet(table, K)
  BY <1>2, Zenon DEF SumFunction
<1>4. SumFunction(table) = SumByClass(f, S, kind, K)
  BY <1>1, <1>3, Zenon DEF SumByClass
<1> QED
  BY <1>4, SumPartition

LEMMA CountBreakdown ==
  ASSUME NEW S, IsFiniteSet(S), NEW K, IsFiniteSet(K), NEW kind,
         \A x \in S : kind[x] \in K, NEW table, table = [r \in K |-> table[r]],
         \A r \in K : table[r] = Cardinality({x \in S : kind[x] = r})
  PROVE  SumFunction(table) = Cardinality(S)
<1> DEFINE one == [x \in S |-> 1]
           Class(r) == {x \in S : kind[x] = r}
<1>1. Summable(one, S) /\ SumFunctionOnSet(one, S) = Cardinality(S)
  <2>1. \A x \in S : one[x] = 1
    OBVIOUS
  <2> HIDE DEF one
  <2> QED
    BY <2>1, SumOnes DEF Summable
<1>2. ASSUME NEW r \in K PROVE SumFunctionOnSet(one, Class(r)) = Cardinality(Class(r))
  <2>1. IsFiniteSet(Class(r)) /\ \A x \in Class(r) : one[x] = 1
    BY FS_Subset
  <2> HIDE DEF one, Class
  <2> QED
    BY <2>1, SumOnes
<1> HIDE DEF one
<1>3. \A r \in K : table[r] = SumFunctionOnSet(one, {x \in S : kind[x] = r})
  BY <1>2
<1>4. SumFunction(table) = SumFunctionOnSet(one, S)
  BY <1>1, <1>3, Breakdown
<1> QED
  BY <1>1, <1>4

\* The sum of a function's restriction is its sum over the restriction's domain.
LEMMA SumRestricted ==
  ASSUME NEW f, NEW S, Summable(f, S), NEW g, g = [x \in S |-> g[x]],
         \A x \in S : g[x] = f[x]
  PROVE  SumFunction(g) = SumFunctionOnSet(f, S)
<1>1. SumFunction(g) = SumFunctionOnSet(g, S)
  <2>1. DOMAIN g = S
    OBVIOUS
  <2> QED
    BY <2>1, Zenon DEF SumFunction
<1>2. SumFunctionOnSet(f, S) = SumFunctionOnSet(g, S)
  BY SumEqual
<1> QED
  BY <1>1, <1>2

-----------------------------------------------------------------------------
(* What the figures are computed from.                                     *)

Owed(c) == cases[c].payment

\* No payment that exists is for nothing.
AmountsPositive == \A p \in PaymentId :
  payments[p] # AbsentPayment => payments[p].amount > 0

DiagnosisTyped == diagnosis \in [CaseId -> FailureReason \cup {None}]

\* What is won belongs to a recovered case, and its credit is what the case owed.
CreditsRight ==
  \A a \in ActionId : actions[a].outcome = "RECOVERED" =>
    /\ cases[actions[a].case].state = "RECOVERED"
    /\ actions[a].credit = payments[Owed(actions[a].case)].amount

\* A recovered case has won something, unless nothing was ever proposed for it.
RecoveriesWon ==
  \A c \in CaseId : cases[c].state = "RECOVERED" =>
    WonBy(c) # {} \/ \A a \in ActionId : actions[a].case # c

\* What was carried out has been verified, but for calls.
OnlyCallsRing ==
  \A a \in ActionId :
    actions[a].executedAt # None /\ actions[a].outcome = None => actions[a].type = "VOICE_CALL"

\* What the figures rely on in every state.
Booked == /\ TablesInv /\ AmountsPositive /\ DiagnosisTyped /\ IsFiniteSet(Opened)
          /\ CreditsRight /\ RecoveriesWon /\ OnlyCallsRing

\* A new payment has one of the configured amounts.
LEMMA PositiveStep == TypeOK /\ AmountsPositive /\ [Next]_vars => AmountsPositive'
<1> SUFFICES ASSUME TypeOK, AmountsPositive, [Next]_vars, NEW p \in PaymentId,
                    payments'[p] # AbsentPayment
             PROVE  payments'[p].amount > 0
  BY DEF AmountsPositive
<1>1. CASE payments[p] # AbsentPayment
  BY <1>1, MovedAmounts DEF AmountsPositive
<1>2. CASE payments[p] = AbsentPayment
  <2>1. ASSUME NEW c \in CaseId, Run(c) PROVE FALSE
    <3>1. PICK a \in ActionId, row \in ActionRow, to \in CaseState : Moves(c, a, row, to)
      BY <2>1, RunMoves
    <3>2. payments' = payments \/ Settles(cases[c].payment)
      BY <3>1 DEF Moves, Concludes, Defers, Attempts, Resumes, Waits, Acts
    <3>3. cases[c].state \in RunnableStates
      BY <3>1 DEF Moves
    <3>4. cases[c] # AbsentCase
      BY <3>3, WorkflowAssumption DEF AbsentCase, RunnableStates, CaseState
    <3>5. payments[cases[c].payment] # AbsentPayment
      BY <3>4 DEF TypeOK
    <3> QED
      BY <1>2, <3>2, <3>5 DEF Settles
  <2>2. ASSUME NEW q \in PaymentId, Pay(q) PROVE payments'[p].amount > 0
    <3>1. PICK s \in PaymentStatus, r \in Reasons \cup {None}, amt \in Amounts :
            CreatePayment(q, s, r, amt)
      BY <1>2, <2>2 DEF Pay, FailReuses, FailInterrupted, FailOpens, RecordFailure, TypeOK
    <3>2. payments' = [payments EXCEPT ![q] = Created(s, r, amt)]
      BY <3>1 DEF CreatePayment
    <3>3. Created(s, r, amt).amount = amt /\ amt > 0
      BY WorkflowAssumption DEF Created
    <3> QED
      BY <1>2, <3>2, <3>3 DEF TypeOK
  <2> QED
    BY <1>2, <2>1, <2>2 DEF Next, Tick, AdvanceClock, vars
<1> QED
  BY <1>1, <1>2

\* The rows of a step that only changes what the workflow may change.
LEMMA BookedByRun ==
  ASSUME Booked, NEW c \in CaseId, Run(c)
  PROVE  CreditsRight' /\ RecoveriesWon' /\ OnlyCallsRing' /\ IsFiniteSet(Opened')
<1>1. /\ TypeOK /\ CreditsRight /\ RecoveriesWon /\ OnlyCallsRing /\ IsFiniteSet(Opened)
  BY DEF Booked, TablesInv
<1>2. PICK a \in ActionId, row \in ActionRow, to \in CaseState : Moves(c, a, row, to)
  BY <1>1, RunMoves
<1>3. /\ \A d \in CaseId : cases'[d].payment = cases[d].payment
      /\ \A d \in CaseId : d # c => cases'[d] = cases[d]
      /\ cases'[c].state = to
      /\ \A b \in ActionId : actions'[b] = IF b = a THEN row ELSE actions[b]
  BY <1>1, <1>2, MovedTables
<1>4. /\ cases[c].state \in RunnableStates /\ cases[c].payment \in PaymentId
      /\ row.case = c /\ clock \in Nat /\ cases[c] # AbsentCase
  BY <1>1, <1>2, WorkflowAssumption DEF Moves, TypeOK, AbsentCase
<1>5. cases[c].state # "RECOVERED" /\ actions[a].case \in {c, None}
  BY <1>2, <1>4 DEF Moves, RunnableStates, Concludes, Defers, Attempts, Resumes, Fresh,
     AbsentAction, Pending
<1>6. \A p \in PaymentId : payments[p] # AbsentPayment => payments'[p].amount = payments[p].amount
  BY <1>1, MovedAmounts DEF Next
<1>7. \/ row.executedAt = None /\ row.outcome = None /\ to # "RECOVERED"
      \/ /\ to = "RECOVERED" /\ row.outcome = "RECOVERED"
         /\ row.credit = payments[cases[c].payment].amount
      \/ to = "FAILED" /\ row.outcome = "UNRECOVERED"
  BY <1>2 DEF Moves, Concludes, Defers, Attempts, Resumes, Waits, Acts
<1>8. None \notin {"RECOVERED", "UNRECOVERED"} /\ None # c
  BY WorkflowAssumption DEF OutcomeKind
<1>9. ASSUME NEW b \in ActionId, b # a, actions[b].outcome = "RECOVERED"
      PROVE  /\ cases'[actions[b].case].state = "RECOVERED"
             /\ actions[b].credit = payments'[cases'[actions[b].case].payment].amount
  <2>1. actions[b] # AbsentAction
    BY <1>8, <1>9 DEF AbsentAction
  <2>2. actions[b].case \in CaseId /\ cases[actions[b].case].state = "RECOVERED"
    BY <1>1, <1>9, <2>1 DEF TypeOK, CreditsRight
  <2>3. /\ cases'[actions[b].case] = cases[actions[b].case]
        /\ cases[actions[b].case] # AbsentCase
    BY <1>3, <1>5, <2>2, WorkflowAssumption DEF AbsentCase, CaseState
  <2>4. /\ cases[actions[b].case].payment \in PaymentId
        /\ payments[cases[actions[b].case].payment] # AbsentPayment
    BY <1>1, <2>2, <2>3 DEF TypeOK
  <2> QED
    BY <1>1, <1>6, <1>9, <2>2, <2>3, <2>4 DEF CreditsRight, Owed
<1>10. CreditsRight'
  <2>1. payments'[cases[c].payment].amount = payments[cases[c].payment].amount
    BY <1>1, <1>4, <1>6 DEF TypeOK
  <2>2. row.outcome = "RECOVERED" =>
          /\ cases'[row.case].state = "RECOVERED"
          /\ row.credit = payments'[cases'[row.case].payment].amount
    BY <1>3, <1>4, <1>7, <1>8, <2>1
  <2> QED
    BY <1>3, <1>9, <2>2 DEF CreditsRight, Owed
<1>11. RecoveriesWon'
  <2> SUFFICES ASSUME NEW d \in CaseId, cases'[d].state = "RECOVERED"
               PROVE  WonBy(d)' # {} \/ \A b \in ActionId : actions'[b].case # d
    BY DEF RecoveriesWon
  <2>1. CASE d = c
    <3>1. row.outcome = "RECOVERED"
      BY <1>3, <1>7, <2>1
    <3>2. a \in WonBy(d)'
      BY <1>3, <1>4, <2>1, <3>1 DEF WonBy, Recoveries, OutcomesOf
    <3> QED
      BY <3>2
  <2>2. CASE d # c
    <3>1. WonBy(d)' = WonBy(d)
      BY <1>3, <1>4, <1>5, <2>2, WorkflowAssumption DEF WonBy, Recoveries, OutcomesOf
    <3>2. WonBy(d) # {} \/ \A b \in ActionId : actions[b].case # d
      BY <1>1, <1>3, <2>2 DEF RecoveriesWon
    <3> QED
      BY <1>3, <1>4, <2>2, <3>1, <3>2
  <2> QED
    BY <2>1, <2>2
<1>12. OnlyCallsRing'
  <2>1. row.outcome = None => row.executedAt = None
    BY <1>7, <1>8
  <2> QED
    BY <1>1, <1>3, <2>1 DEF OnlyCallsRing
<1>13. IsFiniteSet(Opened')
  <2>1. Opened' \subseteq Opened \cup {c}
    BY <1>3 DEF Opened
  <2>2. IsFiniteSet(Opened \cup {c})
    BY <1>1, FS_AddElement
  <2> QED
    BY <2>1, <2>2, FS_Subset
<1> QED
  BY <1>10, <1>11, <1>12, <1>13

LEMMA BookedByOthers ==
  ASSUME Booked, [Next]_vars, ~(\E c \in CaseId : Run(c))
  PROVE  CreditsRight' /\ RecoveriesWon' /\ OnlyCallsRing' /\ IsFiniteSet(Opened')
<1>1. /\ TypeOK /\ CreditsRight /\ RecoveriesWon /\ OnlyCallsRing /\ IsFiniteSet(Opened)
  BY DEF Booked, TablesInv
<1>2. /\ actions' = actions
      /\ \A d \in CaseId : Present(d) => cases'[d] = cases[d]
      /\ \A d \in CaseId : ~Present(d) => cases'[d] = AbsentCase \/ cases'[d].state = "DETECTED"
      /\ \A p \in PaymentId : payments[p] # AbsentPayment => payments'[p].amount = payments[p].amount
      /\ cases' = cases \/ \E p \in PaymentId, c \in CaseId : OpenCase(p, c)
  BY <1>1, OtherOutcome, OtherSteps
<1>3. None \notin {"RECOVERED", "DETECTED"} /\ AbsentCase.state = None /\ AbsentAction.outcome = None
  BY WorkflowAssumption DEF CaseState, AbsentCase, AbsentAction
<1>4. CreditsRight'
  <2> SUFFICES ASSUME NEW a \in ActionId, actions[a].outcome = "RECOVERED"
               PROVE  /\ cases'[actions[a].case].state = "RECOVERED"
                      /\ actions[a].credit = payments'[cases'[actions[a].case].payment].amount
    BY <1>2 DEF CreditsRight, Owed
  <2> DEFINE d == actions[a].case
  <2>1. /\ d \in CaseId /\ cases[d].state = "RECOVERED"
        /\ actions[a].credit = payments[cases[d].payment].amount
    BY <1>1, <1>3 DEF TypeOK, CreditsRight, Owed
  <2>2. Present(d)
    BY <1>3, <2>1 DEF Present
  <2>3. cases'[d] = cases[d] /\ cases[d].payment \in PaymentId
        /\ payments[cases[d].payment] # AbsentPayment
    BY <1>1, <1>2, <2>1, <2>2 DEF TypeOK, Present
  <2> QED
    BY <1>2, <2>1, <2>3
<1>5. RecoveriesWon'
  <2>1. \A d \in CaseId : WonBy(d)' = WonBy(d)
    BY <1>2 DEF WonBy, Recoveries, OutcomesOf
  <2>2. \A d \in CaseId : cases'[d].state = "RECOVERED" => cases[d].state = "RECOVERED"
    BY <1>2, <1>3
  <2> QED
    BY <1>1, <1>2, <2>1, <2>2 DEF RecoveriesWon
<1>6. OnlyCallsRing'
  BY <1>1, <1>2 DEF OnlyCallsRing
<1>7. IsFiniteSet(Opened')
  <2>1. ASSUME NEW p \in PaymentId, NEW c \in CaseId, OpenCase(p, c)
        PROVE  IsFiniteSet(Opened')
    <3>1. Opened' \subseteq Opened \cup {c}
      BY <1>1, <2>1 DEF OpenCase, Opened, TypeOK
    <3>2. IsFiniteSet(Opened \cup {c})
      BY <1>1, FS_AddElement
    <3> QED
      BY <3>1, <3>2, FS_Subset
  <2>2. cases' = cases => Opened' = Opened
    BY DEF Opened
  <2> QED
    BY <1>1, <1>2, <2>1, <2>2
<1> QED
  BY <1>4, <1>5, <1>6, <1>7

\* A finite set of naturals that is not empty has a greatest member.
LEMMA Topmost ==
  ASSUME NEW f, NEW S, IsFiniteSet(S), S # {}, \A x \in S : f[x] \in Nat
  PROVE  \E x \in S : \A y \in S : f[y] <= f[x]
<1> DEFINE good == {T \in SUBSET S : T = {} \/ \E x \in T : \A y \in T : f[y] <= f[x]}
<1>1. \A T \in SUBSET S : (\A x \in T : T \ {x} \in good) => T \in good
  <2> SUFFICES ASSUME NEW T \in SUBSET S, \A x \in T : T \ {x} \in good, NEW z \in T
               PROVE  \E x \in T : \A y \in T : f[y] <= f[x]
    OBVIOUS
  <2>1. CASE T \ {z} = {}
    BY <2>1
  <2>2. ASSUME NEW x \in T \ {z}, \A y \in T \ {z} : f[y] <= f[x]
        PROVE  \E w \in T : \A y \in T : f[y] <= f[w]
    <3>1. f[x] \in Nat /\ f[z] \in Nat /\ \A y \in T : f[y] \in Nat
      OBVIOUS
    <3>2. CASE f[z] <= f[x]
      BY <2>2, <3>2
    <3>3. CASE f[x] <= f[z]
      <4>1. \A y \in T : f[y] <= f[z]
        BY <2>2, <3>1, <3>3
      <4> QED
        BY <4>1
    <3> QED
      BY <3>1, <3>2, <3>3
  <2>3. T \ {z} = {} \/ \E x \in T \ {z} : \A y \in T \ {z} : f[y] <= f[x]
    OBVIOUS
  <2> QED
    BY <2>1, <2>2, <2>3
<1> HIDE DEF good
<1>2. S \in good
  BY <1>1, ShrinkInduction
<1> QED
  BY <1>2 DEF good

\* The portal credits the latest action if the case has any.
LEMMA LatestExists ==
  ASSUME ChannelsTypeOK, IsFiniteSet(Rows), NEW c \in CaseId, Latest(c) = {}
  PROVE  \A a \in ActionId : actions[a].case # c
<1> DEFINE mine == {a \in ActionId : actions[a].case = c}
<1>1. mine \subseteq Rows
  BY WorkflowAssumption DEF Rows, AbsentAction
<1>2. IsFiniteSet(mine) /\ \A a \in mine : createdAt[a] \in Nat
  BY <1>1, FS_Subset DEF ChannelsTypeOK
<1>3. ASSUME NEW a \in mine, \A b \in mine : createdAt[b] <= createdAt[a] PROVE FALSE
  BY <1>3 DEF Latest
<1> HIDE DEF mine
<1>4. mine = {}
  BY <1>2, <1>3, Topmost
<1> QED
  BY <1>4 DEF mine

LEMMA BookedByPortal ==
  ASSUME Booked, ChannelsTypeOK, NEW c \in CaseId, CustomerRecovers(c)
  PROVE  /\ AmountsPositive' /\ CreditsRight' /\ RecoveriesWon' /\ OnlyCallsRing'
         /\ IsFiniteSet(Opened')
<1>1. /\ TypeOK /\ AmountsPositive /\ CreditsRight /\ RecoveriesWon /\ OnlyCallsRing
      /\ IsFiniteSet(Opened) /\ IsFiniteSet(Rows)
  BY DEF Booked, TablesInv
<1>2. PICK latest \in SUBSET ActionId :
        Completes(c, latest) /\ (latest = {} => \A a \in ActionId : actions[a].case # c)
  <2>1. CASE Latest(c) = {} /\ PortalCompletes(c, {})
    <3>1. Completes(c, {})
      BY <1>1, <2>1, PortalEffect
    <3> QED
      BY <1>1, <2>1, <3>1, LatestExists
  <2>2. ASSUME NEW a \in Latest(c), PortalCompletes(c, {a}) PROVE Completes(c, {a})
    <3>1. a \in ActionId /\ actions[a].case = c
      BY DEF Latest
    <3> QED
      BY <1>1, <2>2, <3>1, PortalEffect
  <2>3. \A a \in Latest(c) : {a} \in SUBSET ActionId /\ {a} # {}
    BY DEF Latest
  <2> QED
    BY <2>1, <2>2, <2>3 DEF CustomerRecovers
<1>3. /\ \A d \in CaseId : cases'[d].payment = cases[d].payment
      /\ \A d \in CaseId : d # c => cases'[d] = cases[d]
      /\ cases'[c].state = "RECOVERED"
      /\ \A a \in ActionId : a \notin latest => actions'[a] = actions[a]
      /\ \A a \in latest :
           /\ actions[a].case = c /\ actions[a].payment = cases[c].payment
           /\ actions'[a] = Credited(actions[a]) /\ actions[a] \in ActionRow
           /\ actions'[a].case = c /\ actions'[a].outcome = "RECOVERED"
  BY <1>1, <1>2, CompletedTables
<1>4. /\ Present(c) /\ cases[c].payment \in PaymentId
      /\ \A p \in PaymentId : payments'[p].amount = payments[p].amount
      /\ \A p \in PaymentId : p # cases[c].payment => payments'[p] = payments[p]
      /\ payments[cases[c].payment] # AbsentPayment
  BY <1>1, <1>2 DEF Completes, Settles, Present, TypeOK
<1>5. AmountsPositive'
  BY <1>1, <1>4 DEF AmountsPositive
<1>6. CreditsRight'
  <2>1. ASSUME NEW a \in latest
        PROVE  actions'[a].credit = payments'[cases'[c].payment].amount
    <3>1. actions'[a].credit = payments[cases[c].payment].amount
      <4>1. actions[a] = [case |-> actions[a].case, payment |-> actions[a].payment,
                          type |-> actions[a].type, status |-> actions[a].status,
                          due |-> actions[a].due, executedAt |-> actions[a].executedAt,
                          outcome |-> actions[a].outcome, credit |-> actions[a].credit]
        BY <1>3 DEF ActionRow
      <4>2. Credited(actions[a]).credit = payments[actions[a].payment].amount
        BY <4>1 DEF Credited
      <4> QED
        BY <1>3, <4>2
    <3> QED
      BY <1>3, <1>4, <3>1
  <2>2. ASSUME NEW a \in ActionId, a \notin latest, actions[a].outcome = "RECOVERED"
        PROVE  /\ cases'[actions[a].case].state = "RECOVERED"
               /\ actions[a].credit = payments'[cases'[actions[a].case].payment].amount
    <3>1. actions[a] # AbsentAction
      BY <2>2, WorkflowAssumption DEF AbsentAction, OutcomeKind
    <3>2. /\ actions[a].case \in CaseId /\ cases[actions[a].case].state = "RECOVERED"
          /\ actions[a].credit = payments[cases[actions[a].case].payment].amount
          /\ cases[actions[a].case].payment \in PaymentId
      BY <1>1, <2>2, <3>1 DEF TypeOK, CreditsRight, Owed
    <3> QED
      BY <1>3, <1>4, <3>2
  <2> QED
    BY <1>3, <2>1, <2>2 DEF CreditsRight, Owed
<1>7. RecoveriesWon'
  <2> SUFFICES ASSUME NEW d \in CaseId, cases'[d].state = "RECOVERED"
               PROVE  WonBy(d)' # {} \/ \A b \in ActionId : actions'[b].case # d
    BY DEF RecoveriesWon
  <2>1. CASE d = c
    <3>1. ASSUME NEW a \in latest PROVE a \in WonBy(c)'
      BY <1>3 DEF WonBy, Recoveries, OutcomesOf
    <3>2. latest = {} => \A b \in ActionId : actions'[b].case # c
      BY <1>2, <1>3
    <3> QED
      BY <2>1, <3>1, <3>2
  <2>2. CASE d # c
    <3>1. WonBy(d)' = WonBy(d)
      BY <1>3, <2>2 DEF WonBy, Recoveries, OutcomesOf
    <3>2. WonBy(d) # {} \/ \A b \in ActionId : actions[b].case # d
      BY <1>1, <1>3, <2>2 DEF RecoveriesWon
    <3> QED
      BY <1>3, <2>2, <3>1, <3>2
  <2> QED
    BY <2>1, <2>2
<1>8. OnlyCallsRing'
  BY <1>1, <1>3, WorkflowAssumption DEF OnlyCallsRing, OutcomeKind
<1>9. IsFiniteSet(Opened')
  <2>1. Opened' = Opened
    BY <1>3, <1>4, WorkflowAssumption DEF Opened, Present, AbsentCase, CaseState
  <2> QED
    BY <1>1, <2>1
<1> QED
  BY <1>5, <1>6, <1>7, <1>8, <1>9

LEMMA BookedByCall ==
  ASSUME Booked, Rung
  PROVE  /\ AmountsPositive' /\ CreditsRight' /\ RecoveriesWon' /\ OnlyCallsRing'
         /\ IsFiniteSet(Opened')
<1>1. /\ TypeOK /\ AmountsPositive /\ CreditsRight /\ RecoveriesWon /\ OnlyCallsRing
      /\ IsFiniteSet(Opened)
  BY DEF Booked, TablesInv
<1>2. PICK c \in CaseId, a \in ActionId, row \in ActionRow : Rings(c, a, row)
  BY DEF Rung
<1>3. /\ \A b \in ActionId : actions'[b] = IF b = a THEN row ELSE actions[b]
      /\ payments' = payments /\ cases' = cases /\ cases[c].state # "RECOVERED"
      /\ row.case = c /\ row.type = "VOICE_CALL" /\ row.outcome = None
      /\ actions[a].outcome = None
  <2>1. \A b \in ActionId : actions'[b] = IF b = a THEN row ELSE actions[b]
    BY <1>1, <1>2, RungTables
  <2> QED
    BY <1>2, <2>1 DEF Rings, AbsentAction
<1>4. None # "RECOVERED"
  BY WorkflowAssumption DEF OutcomeKind
<1>5. AmountsPositive' /\ IsFiniteSet(Opened')
  BY <1>1, <1>3 DEF AmountsPositive, Opened
<1>6. CreditsRight'
  BY <1>1, <1>3, <1>4 DEF CreditsRight, Owed
<1>7. RecoveriesWon'
  <2>1. \A d \in CaseId : WonBy(d)' = WonBy(d)
    BY <1>3, <1>4 DEF WonBy, Recoveries, OutcomesOf
  <2> QED
    BY <1>1, <1>3, <2>1 DEF RecoveriesWon
<1>8. OnlyCallsRing'
  BY <1>1, <1>3 DEF OnlyCallsRing
<1> QED
  BY <1>5, <1>6, <1>7, <1>8

\* A demo is seeded with payments that are owed something, each for a case of its own.
LEMMA BookedByOperators ==
  ASSUME IsFiniteSet(PaymentId), TypeOK, Operators
  PROVE  /\ AmountsPositive' /\ CreditsRight' /\ RecoveriesWon' /\ OnlyCallsRing'
         /\ IsFiniteSet(Opened')
<1>1. Rebuilt
  BY OperatorsRebuild
<1>2. \A a \in ActionId : /\ actions'[a].case = None /\ actions'[a].outcome = None
                          /\ actions'[a].executedAt = None
  BY <1>1 DEF Rebuilt, AbsentAction
<1>3. \A c \in CaseId : cases'[c].state # "RECOVERED"
  BY <1>1, WorkflowAssumption DEF Rebuilt, AbsentCase, CaseState
<1>4. None # "RECOVERED" /\ None \notin CaseId
  BY WorkflowAssumption DEF OutcomeKind
<1>5. CreditsRight' /\ RecoveriesWon' /\ OnlyCallsRing'
  BY <1>2, <1>3, <1>4 DEF CreditsRight, RecoveriesWon, OnlyCallsRing
<1>6. AmountsPositive'
  <2>1. ASSUME NEW row \in SeedRows PROVE row.amount > 0
    <3>1. PICK r \in Reasons, amt \in Amounts, n \in {1, MaxAutomaticRetries} :
            row = Seeded(r, amt, n)
      BY DEF SeedRows
    <3>2. row.amount = amt
      BY <3>1 DEF Seeded
    <3> QED
      BY <3>2, WorkflowAssumption
  <2>2. \A p \in PaymentId : payments'[p] = AbsentPayment \/ payments'[p] \in SeedRows
    BY DEF Operators, ClearCases, ResetDemo
  <2> QED
    BY <2>1, <2>2 DEF AmountsPositive
<1>7. IsFiniteSet(Opened')
  <2> DEFINE f == [c \in Opened' |-> cases'[c].payment]
  <2>1. \A c \in Opened' : c \in CaseId /\ cases'[c] # AbsentCase /\ f[c] \in PaymentId
    BY <1>1 DEF Opened, Rebuilt
  <2>2. \A c, d \in Opened' : f[c] = f[d] => c = d
    BY <1>1, <2>1 DEF Rebuilt
  <2>3. f \in Injection(Opened', PaymentId)
    BY <2>1, <2>2 DEF Injection, IsInjective
  <2> QED
    BY <2>3, FS_Injection
<1> QED
  BY <1>5, <1>6, <1>7

\* A run stores a cause, and whoever rebuilds the tables clears it.
LEMMA DiagnosisStep ==
  ASSUME TypeOK, DiagnosisTyped, [FiguresNext]_figures
  PROVE  DiagnosisTyped'
<1>1. ASSUME Elsewhere \/ Autopilot, StoreDiagnosis PROVE DiagnosisTyped'
  <2> DEFINE new(c) == IF \E a \in ActionId : actions[a] = AbsentAction /\ actions'[a].case = c
                         THEN Reason(cases[c].payment) ELSE diagnosis[c]
  <2>0. [Next]_vars
    BY <1>1, AutopilotWorks
  <2>1. ASSUME NEW c \in CaseId PROVE new(c) \in FailureReason \cup {None}
    <3>1. CASE new(c) = diagnosis[c]
      BY <3>1 DEF DiagnosisTyped
    <3>2. ASSUME NEW a \in ActionId, actions[a] = AbsentAction, actions'[a].case = c
          PROVE  Reason(cases[c].payment) \in FailureReason
      <4>1. actions' # actions
        BY <3>2, WorkflowAssumption DEF AbsentAction
      <4>2. PICK d \in CaseId : Run(d)
        BY <2>0, <4>1, OtherOutcome
      <4>3. PICK b \in ActionId, row \in ActionRow, to \in CaseState : Moves(d, b, row, to)
        BY <4>2, RunMoves
      <4>4. c = d /\ cases[c].payment \in PaymentId
        BY <3>2, <4>3, WorkflowAssumption DEF Moves, AbsentAction, TypeOK
      <4> QED
        BY <4>4, ReasonTyped
    <3> QED
      BY <3>1, <3>2
  <2>2. diagnosis' = [c \in CaseId |-> new(c)]
    BY <1>1 DEF StoreDiagnosis
  <2> HIDE DEF new
  <2> QED
    BY <2>1, <2>2 DEF DiagnosisTyped
<1>3. CASE diagnosis' = diagnosis
  BY <1>3 DEF DiagnosisTyped
<1>4. CASE diagnosis' = [c \in CaseId |-> None]
  BY <1>4 DEF DiagnosisTyped
<1> QED
  BY <1>1, <1>3, <1>4 DEF FiguresNext, figures

LEMMA BookedStep ==
  ASSUME IsFiniteSet(PaymentId)
  PROVE  Booked /\ ChannelsTypeOK /\ [FiguresNext]_figures => Booked'
<1> SUFFICES ASSUME Booked, ChannelsTypeOK, [FiguresNext]_figures PROVE Booked'
  OBVIOUS
<1>1. TypeOK /\ TablesInv /\ AmountsPositive /\ DiagnosisTyped
  BY DEF Booked, TablesInv
<1>2. [ChannelsNext]_channels
  BY DEF FiguresNext, figures, ChannelsNext
<1>3. TablesInv' /\ DiagnosisTyped'
  BY <1>1, <1>2, TablesStep, DiagnosisStep
<1>4. ASSUME Autopilot \/ Elsewhere \/ UNCHANGED channels
      PROVE  /\ AmountsPositive' /\ CreditsRight' /\ RecoveriesWon' /\ OnlyCallsRing'
             /\ IsFiniteSet(Opened')
  <2>1. [Next]_vars
    BY <1>4, AutopilotWorks
  <2> QED
    BY <1>1, <2>1, PositiveStep, BookedByRun, BookedByOthers
<1>5. ASSUME NEW c \in CaseId, NEW a \in ActionId, NEW success \in BOOLEAN,
             VoiceCall(c, a, success)
      PROVE  Rung
  BY <1>1, <1>5, CallEffect
<1> QED
  BY <1>1, <1>2, <1>3, <1>4, <1>5, BookedByPortal, BookedByCall, BookedByOperators
  DEF Booked, ChannelsNext

\* No table holds anything to begin with.
LEMMA BookedStart == FiguresInit => Booked
<1> SUFFICES ASSUME FiguresInit PROVE Booked
  OBVIOUS
<1>1. TablesInv
  BY ChannelsStart DEF FiguresInit, ChannelsInv
<1>2. /\ \A p \in PaymentId : payments[p] = AbsentPayment
      /\ \A c \in CaseId : cases[c] = AbsentCase
      /\ \A a \in ActionId : actions[a] = AbsentAction
      /\ diagnosis = [c \in CaseId |-> None]
  BY DEF FiguresInit, ChannelsInit, Init
<1>3. /\ AbsentCase.state = None /\ AbsentAction.outcome = None
      /\ AbsentAction.executedAt = None
      /\ None \notin {"RECOVERED"}
  BY WorkflowAssumption DEF AbsentCase, AbsentAction, OutcomeKind
<1>4. Opened = {} /\ IsFiniteSet({})
  BY <1>2, FS_EmptySet DEF Opened
<1> QED
  BY <1>1, <1>2, <1>3, <1>4
  DEF Booked, AmountsPositive, DiagnosisTyped, CreditsRight, RecoveriesWon, OnlyCallsRing

-----------------------------------------------------------------------------
(* What the figures say of a case and of a row.                            *)

\* Every opened case has a cause and a positive amount at risk.
LEMMA AtRiskOf ==
  ASSUME Booked, NEW c \in Opened
  PROVE  AtRisk(c) \in Nat \ {0} /\ ResolvedReason(c) \in FailureReason
<1>1. /\ c \in CaseId /\ TypeOK
      /\ cases[c].payment \in PaymentId /\ payments[cases[c].payment] # AbsentPayment
  BY DEF Opened, Booked, TablesInv, TypeOK
<1>2. AtRisk(c) \in Nat \ {0}
  BY <1>1 DEF Booked, AmountsPositive, AtRisk, TypeOK, PaymentRow
<1>3. Reason(cases[c].payment) \in FailureReason
  BY <1>1, ReasonTyped
<1>4. diagnosis[c] \in FailureReason \cup {None}
  BY <1>1 DEF Booked, DiagnosisTyped
<1> QED
  BY <1>2, <1>3, <1>4 DEF ResolvedReason

\* Every recovery belongs to an opened case, and its credit is the case's amount at
\* risk.
LEMMA CreditedCase ==
  ASSUME Booked, NEW a \in Recoveries
  PROVE  /\ a \in Selected /\ actions[a].case \in InState("RECOVERED")
         /\ Credit(a) = AtRisk(actions[a].case)
<1>1. a \in ActionId /\ actions[a].outcome = "RECOVERED" /\ TypeOK
  BY DEF Recoveries, OutcomesOf, Booked, TablesInv
<1>2. a \in Selected
  BY <1>1, WorkflowAssumption DEF Selected, AbsentAction, OutcomeKind
<1>3. /\ actions[a].case \in CaseId /\ cases[actions[a].case].state = "RECOVERED"
      /\ Credit(a) = AtRisk(actions[a].case)
  BY <1>1, <1>2 DEF Selected, TypeOK, Booked, CreditsRight, Credit, AtRisk, Owed
<1>4. actions[a].case \in InState("RECOVERED")
  BY <1>3, WorkflowAssumption DEF InState, Opened, AbsentCase, CaseState
<1> QED
  BY <1>2, <1>3, <1>4

LEMMA WonByCase ==
  ASSUME Booked, NEW c \in Opened
  PROVE  /\ IsFiniteSet(WonBy(c)) /\ \A a \in WonBy(c) : Credit(a) = AtRisk(c)
         /\ CreditOf(c) = SumFunctionOnSet([a \in WonBy(c) |-> Credit(a)], WonBy(c))
         /\ Summable([a \in WonBy(c) |-> Credit(a)], WonBy(c))
<1> DEFINE credit == [a \in WonBy(c) |-> Credit(a)]
<1>1. \A a \in WonBy(c) : a \in Selected /\ Credit(a) = AtRisk(c)
  BY CreditedCase DEF WonBy
<1>2. IsFiniteSet(WonBy(c))
  <2>1. WonBy(c) \subseteq Rows
    BY <1>1 DEF Selected, Rows
  <2> QED
    BY <2>1, FS_Subset DEF Booked, TablesInv
<1>3. CreditOf(c) = SumFunctionOnSet(credit, WonBy(c))
  <2>1. CreditOf(c) = SumFunction(credit) /\ DOMAIN credit = WonBy(c)
    BY DEF CreditOf
  <2> QED
    BY <2>1, Zenon DEF SumFunction
<1>4. Summable(credit, WonBy(c))
  BY <1>1, <1>2, AtRiskOf DEF Summable
<1> QED
  BY <1>1, <1>2, <1>3, <1>4

\* A case is credited something exactly when it has won something.
LEMMA CreditOfCase ==
  ASSUME Booked, NEW c \in Opened
  PROVE  /\ CreditOf(c) \in Nat
         /\ CreditOf(c) > 0 <=> WonBy(c) # {}
         /\ Cardinality(WonBy(c)) <= 1 => CreditOf(c) <= AtRisk(c)
<1> DEFINE won == WonBy(c)
           credit == [a \in won |-> Credit(a)]
<1>1. /\ IsFiniteSet(won) /\ \A a \in won : credit[a] = AtRisk(c)
      /\ CreditOf(c) = SumFunctionOnSet(credit, won) /\ Summable(credit, won)
      /\ AtRisk(c) \in Nat \ {0}
  BY WonByCase, AtRiskOf
<1> HIDE DEF won, credit
<1>2. CreditOf(c) \in Nat
  BY <1>1, SumNat
<1>3. CASE won = {}
  <2>1. CreditOf(c) = 0
    BY <1>1, <1>3, SumNone
  <2> QED
    BY <1>1, <1>3, <2>1 DEF won
<1>4. ASSUME NEW a \in won
      PROVE  CreditOf(c) > 0 /\ (Cardinality(won) <= 1 => CreditOf(c) = AtRisk(c))
  <2> DEFINE rest == SumFunctionOnSet(credit, won \ {a})
  <2>1. CreditOf(c) = AtRisk(c) + rest /\ rest \in Nat
    BY <1>1, SumLess, SumNat
  <2>2. ASSUME Cardinality(won) <= 1 PROVE rest = 0
    <3>1. Cardinality(won) = 1
      BY <1>1, <1>4, <2>2, FS_EmptySet, FS_CardinalityType
    <3>2. won \ {a} = {}
      BY <1>1, <3>1, FS_Singleton
    <3> QED
      BY <3>2, SumNone
  <2> HIDE DEF rest
  <2> QED
    BY <1>1, <2>1, <2>2
<1> QED
  BY <1>1, <1>2, <1>3, <1>4 DEF won

-----------------------------------------------------------------------------
(* The breakdowns.                                                         *)

\* What is recovered, over the outcomes and over the cases, is the same.
CreditTable == [a \in Recoveries |-> Credit(a)]
RiskTable == [c \in Opened |-> AtRisk(c)]
CreditOfTable == [c \in Opened |-> CreditOf(c)]

LEMMA TablesSummable ==
  ASSUME Booked
  PROVE  /\ Summable(CreditTable, Recoveries) /\ Summable(RiskTable, Opened)
         /\ Summable(CreditOfTable, Opened)
         /\ Recoveries \subseteq Selected /\ IsFiniteSet(Opened) /\ IsFiniteSet(Selected)
<1>1. Recoveries \subseteq Selected
  BY CreditedCase
<1>2. IsFiniteSet(Recoveries) /\ IsFiniteSet(Opened) /\ IsFiniteSet(Selected)
  <2>1. Selected = Rows
    BY DEF Selected, Rows
  <2> QED
    BY <1>1, <2>1, FS_Subset DEF Booked, TablesInv
<1>3. \A c \in Opened : AtRisk(c) \in Nat /\ CreditOf(c) \in Nat
  BY AtRiskOf, CreditOfCase
<1>4. \A a \in Recoveries : Credit(a) \in Nat
  BY <1>3, CreditedCase DEF InState
<1> QED
  BY <1>1, <1>2, <1>3, <1>4 DEF Summable, CreditTable, RiskTable, CreditOfTable

\* The totals, as sums over sets.
LEMMA RevenueSums ==
  ASSUME Booked
  PROVE  /\ Revenue.atRisk = SumFunctionOnSet(RiskTable, Opened)
         /\ Revenue.recovered = SumFunctionOnSet(CreditTable, Recoveries)
         /\ Revenue.recovered = SumFunctionOnSet(CreditOfTable, Opened)
<1>1. Revenue.atRisk = SumFunction(RiskTable) /\ Revenue.recovered = SumFunction(CreditTable)
  BY DEF Revenue, RiskTable, CreditTable
<1>2. DOMAIN RiskTable = Opened /\ DOMAIN CreditTable = Recoveries
  BY DEF RiskTable, CreditTable
<1>3. /\ Revenue.atRisk = SumFunctionOnSet(RiskTable, Opened)
      /\ Revenue.recovered = SumFunctionOnSet(CreditTable, Recoveries)
  BY <1>1, <1>2, Zenon DEF SumFunction
<1> DEFINE owner == [a \in Recoveries |-> actions[a].case]
<1>4. \A c \in Opened :
        CreditOf(c) = SumFunctionOnSet(CreditTable, {a \in Recoveries : owner[a] = c})
  <2> SUFFICES ASSUME NEW c \in Opened
               PROVE  CreditOf(c) =
                        SumFunctionOnSet(CreditTable, {a \in Recoveries : owner[a] = c})
    OBVIOUS
  <2> DEFINE mine == {a \in Recoveries : actions[a].case = c}
             credit == [a \in mine |-> Credit(a)]
  <2>1. CreditOf(c) = SumFunction(credit)
    BY DEF CreditOf, WonBy
  <2>2. Summable(CreditTable, mine) /\ \A a \in mine : credit[a] = CreditTable[a]
    BY TablesSummable, FS_Subset DEF Summable, CreditTable
  <2>3. mine = {a \in Recoveries : owner[a] = c} /\ credit = [a \in mine |-> credit[a]]
    OBVIOUS
  <2> HIDE DEF mine, credit, owner
  <2>4. SumFunction(credit) = SumFunctionOnSet(CreditTable, mine)
    BY <2>2, <2>3, SumRestricted
  <2> QED
    BY <2>1, <2>3, <2>4
<1>5. /\ CreditOfTable = [c \in Opened |-> CreditOfTable[c]]
      /\ \A c \in Opened : CreditOfTable[c] =
           SumFunctionOnSet(CreditTable, {a \in Recoveries : owner[a] = c})
  BY <1>4 DEF CreditOfTable
<1>6. \A a \in Recoveries : owner[a] \in Opened
  BY CreditedCase DEF InState
<1> HIDE DEF owner
<1>7. SumFunction(CreditOfTable) = SumFunctionOnSet(CreditTable, Recoveries)
  BY <1>5, <1>6, TablesSummable, Breakdown
<1>8. SumFunction(CreditOfTable) = SumFunctionOnSet(CreditOfTable, Opened)
  <2>1. DOMAIN CreditOfTable = Opened
    BY DEF CreditOfTable
  <2> QED
    BY <2>1, Zenon DEF SumFunction
<1> QED
  BY <1>3, <1>7, <1>8

\* A table over a class, added up, is the sum over the class.
LEMMA ClassSum ==
  ASSUME NEW f, NEW S, Summable(f, S), NEW C \in SUBSET S,
         NEW g, g = [x \in C |-> g[x]], \A x \in C : g[x] = f[x]
  PROVE  SumFunction(g) = SumFunctionOnSet(f, C)
<1>1. Summable(f, C)
  BY FS_Subset DEF Summable
<1> QED
  BY <1>1, SumRestricted

LEMMA DisjointUnion ==
  ASSUME NEW S, NEW T, IsFiniteSet(S), IsFiniteSet(T), S \cap T = {}
  PROVE  IsFiniteSet(S \cup T) /\ Cardinality(S \cup T) = Cardinality(S) + Cardinality(T)
<1>1. Cardinality(S \cup T) = Cardinality(S) + Cardinality(T) - Cardinality({})
  BY FS_Union
<1>2. Cardinality({}) = 0 /\ Cardinality(S) \in Nat /\ Cardinality(T) \in Nat
  BY FS_EmptySet, FS_CardinalityType
<1> QED
  BY <1>1, <1>2, FS_Union

\* The cases credited with revenue, and with those the customer paid for before anything
\* was proposed they are the recovered ones.
Winners == {c \in Opened : WonBy(c) # {}}

LEMMA WinnersRecovered ==
  ASSUME Booked
  PROVE  Revenue.casesRecovered = Cardinality(Winners) + Cardinality(NeverProposed)
<1>1. InState("RECOVERED") = Winners \cup NeverProposed
  <2>1. Winners \subseteq InState("RECOVERED")
    BY CreditedCase DEF Winners, WonBy
  <2>2. InState("RECOVERED") \subseteq Winners \cup NeverProposed
    BY DEF Booked, RecoveriesWon, Winners, NeverProposed, InState, Opened
  <2> QED
    BY <2>1, <2>2 DEF NeverProposed
<1>2. Winners \cap NeverProposed = {}
  BY DEF Winners, WonBy, NeverProposed, Recoveries, OutcomesOf
<1>3. IsFiniteSet(Winners) /\ IsFiniteSet(NeverProposed)
  <2>1. Winners \subseteq Opened /\ NeverProposed \subseteq Opened
    BY DEF Winners, NeverProposed, InState
  <2> QED
    BY <2>1, TablesSummable, FS_Subset
<1>4. Cardinality(InState("RECOVERED")) = Cardinality(Winners) + Cardinality(NeverProposed)
  BY <1>1, <1>2, <1>3, DisjointUnion
<1> QED
  BY <1>4 DEF Revenue

\* One row of the breakdown by failure reason.
LEMMA ReasonRow ==
  ASSUME Booked, NEW r \in FailureReason,
         NEW mine, mine = {c \in Opened : ResolvedReason(c) = r}
  PROVE  /\ ByFailureReason(r).cases = Cardinality(mine)
         /\ ByFailureReason(r).atRisk = SumFunctionOnSet(RiskTable, mine)
         /\ ByFailureReason(r).recovered = SumFunctionOnSet(CreditOfTable, mine)
         /\ ByFailureReason(r).recoveredCases =
              Cardinality({c \in Winners : ResolvedReason(c) = r})
<1> DEFINE risk == [c \in mine |-> AtRisk(c)]
           credit == [c \in mine |-> CreditOf(c)]
           won == {c \in mine : CreditOf(c) > 0}
<1>1. ByFailureReason(r) = [cases |-> Cardinality(mine), atRisk |-> SumFunction(risk),
                            recovered |-> SumFunction(credit),
                            recoveredCases |-> Cardinality(won)]
  BY Zenon DEF ByFailureReason
<1>2. /\ mine \in SUBSET Opened
      /\ risk = [c \in mine |-> risk[c]] /\ \A c \in mine : risk[c] = RiskTable[c]
      /\ credit = [c \in mine |-> credit[c]] /\ \A c \in mine : credit[c] = CreditOfTable[c]
  BY DEF RiskTable, CreditOfTable
<1>3. won = {c \in Winners : ResolvedReason(c) = r}
  BY CreditOfCase DEF Winners
<1> HIDE DEF risk, credit, won
<1>4. SumFunction(risk) = SumFunctionOnSet(RiskTable, mine)
  BY <1>2, TablesSummable, ClassSum
<1>5. SumFunction(credit) = SumFunctionOnSet(CreditOfTable, mine)
  BY <1>2, TablesSummable, ClassSum
<1> QED
  BY <1>1, <1>3, <1>4, <1>5

\* The breakdown by failure reason adds up to the totals.
LEMMA ReasonwiseAgrees ==
  ASSUME Booked
  PROVE  /\ SumFunction([r \in FailureReason |-> ByFailureReason(r).cases])
              = Cardinality(Opened)
         /\ SumFunction([r \in FailureReason |-> ByFailureReason(r).atRisk]) = Revenue.atRisk
         /\ SumFunction([r \in FailureReason |-> ByFailureReason(r).recovered])
              = Revenue.recovered
         /\ SumFunction([r \in FailureReason |-> ByFailureReason(r).recoveredCases])
              = Cardinality(Winners)
<1> DEFINE kind == [c \in Opened |-> ResolvedReason(c)]
           mine(r) == {c \in Opened : kind[c] = r}
           won == Winners
           wonBy(r) == {c \in won : kind[c] = r}
           T1 == [r \in FailureReason |-> ByFailureReason(r).cases]
           T2 == [r \in FailureReason |-> ByFailureReason(r).atRisk]
           T3 == [r \in FailureReason |-> ByFailureReason(r).recovered]
           T4 == [r \in FailureReason |-> ByFailureReason(r).recoveredCases]
<1>1. /\ \A c \in Opened : kind[c] \in FailureReason
      /\ won \subseteq Opened
      /\ \A r : mine(r) = {c \in Opened : ResolvedReason(c) = r}
      /\ \A r : wonBy(r) = {c \in Winners : ResolvedReason(c) = r}
  BY AtRiskOf DEF Winners
<1>2. ASSUME NEW r \in FailureReason
      PROVE  /\ T1[r] = Cardinality(mine(r)) /\ T2[r] = SumFunctionOnSet(RiskTable, mine(r))
             /\ T3[r] = SumFunctionOnSet(CreditOfTable, mine(r))
             /\ T4[r] = Cardinality(wonBy(r))
  <2> HIDE DEF mine, wonBy
  <2> QED
    BY <1>1, ReasonRow
<1>3. /\ T1 = [r \in FailureReason |-> T1[r]] /\ T2 = [r \in FailureReason |-> T2[r]]
      /\ T3 = [r \in FailureReason |-> T3[r]] /\ T4 = [r \in FailureReason |-> T4[r]]
  OBVIOUS
<1>4. /\ IsFiniteSet(Opened) /\ IsFiniteSet(won) /\ IsFiniteSet(FailureReason)
      /\ Summable(RiskTable, Opened) /\ Summable(CreditOfTable, Opened)
  BY <1>1, TablesSummable, ReasonsFinite, FS_Subset
<1>5. Cardinality(Winners) = Cardinality(won)
  OBVIOUS
<1> HIDE DEF T1, T2, T3, T4, kind, won
<1>6. SumFunction(T1) = Cardinality(Opened)
  <2>1. \A r \in FailureReason : T1[r] = Cardinality({c \in Opened : kind[c] = r})
    BY <1>2
  <2> HIDE DEF mine, wonBy
  <2> QED
    BY <1>1, <2>1, <1>3, <1>4, CountBreakdown
<1>7. SumFunction(T2) = SumFunctionOnSet(RiskTable, Opened)
  <2>1. \A r \in FailureReason :
          T2[r] = SumFunctionOnSet(RiskTable, {c \in Opened : kind[c] = r})
    BY <1>2
  <2> HIDE DEF mine, wonBy
  <2> QED
    BY <1>1, <2>1, <1>3, <1>4, Breakdown
<1>8. SumFunction(T3) = SumFunctionOnSet(CreditOfTable, Opened)
  <2>1. \A r \in FailureReason :
          T3[r] = SumFunctionOnSet(CreditOfTable, {c \in Opened : kind[c] = r})
    BY <1>2
  <2> HIDE DEF mine, wonBy
  <2> QED
    BY <1>1, <2>1, <1>3, <1>4, Breakdown
<1>9. SumFunction(T4) = Cardinality(won)
  <2>1. \A c \in won : kind[c] \in FailureReason
    BY <1>1
  <2>2. \A r \in FailureReason : T4[r] = Cardinality({c \in won : kind[c] = r})
    BY <1>2
  <2> HIDE DEF mine, wonBy
  <2> QED
    BY <2>1, <2>2, <1>3, <1>4, CountBreakdown
<1> QED
  BY <1>5, <1>6, <1>7, <1>8, <1>9, RevenueSums DEF T1, T2, T3, T4

\* What was carried out or paid instead, and what is verified or rings, is the same.
LEMMA ExecutedVerified ==
  ASSUME Booked, NEW mine \in SUBSET Selected
  PROVE  Cardinality({a \in mine : actions[a].executedAt # None})
           + Cardinality(mine \cap PaidInstead)
         = Cardinality(mine \cap Recoveries) + Cardinality(mine \cap OutcomesOf("UNRECOVERED"))
           + Cardinality(mine \cap Ringing)
<1> DEFINE done == {a \in mine : actions[a].executedAt # None}
           paid == mine \cap PaidInstead
           won == mine \cap Recoveries
           lost == mine \cap OutcomesOf("UNRECOVERED")
           ring == mine \cap Ringing
<1>1. /\ IsFiniteSet(done) /\ IsFiniteSet(paid) /\ IsFiniteSet(won)
      /\ IsFiniteSet(lost) /\ IsFiniteSet(ring)
  BY TablesSummable, FS_Subset
<1>2. None \notin {"RECOVERED", "UNRECOVERED"}
  BY WorkflowAssumption DEF OutcomeKind
<1>3. done \cap paid = {} /\ won \cap lost = {} /\ (won \cup lost) \cap ring = {}
  BY <1>2 DEF PaidInstead, Recoveries, OutcomesOf, Ringing
<1>4. done \cup paid = (won \cup lost) \cup ring
  <2> SUFFICES ASSUME NEW a \in mine
               PROVE  a \in done \cup paid <=> a \in (won \cup lost) \cup ring
    OBVIOUS
  <2>1. a \in ActionId /\ actions[a].outcome \in {"RECOVERED", "UNRECOVERED", None}
    BY DEF Selected, Booked, TablesInv, TypeOK, ActionRow, OutcomeKind
  <2>2. CASE actions[a].outcome = "RECOVERED"
    <3>1. a \in Recoveries /\ cases[actions[a].case].state = "RECOVERED"
      BY <2>1, <2>2 DEF Recoveries, OutcomesOf, Booked, CreditsRight
    <3> QED
      BY <3>1 DEF PaidInstead
  <2>3. CASE actions[a].outcome = "UNRECOVERED"
    <3>1. actions[a].executedAt # None
      BY <2>1, <2>3 DEF Booked, TablesInv, FailuresRan
    <3> QED
      BY <2>1, <2>3, <3>1 DEF OutcomesOf
  <2>4. CASE actions[a].outcome = None
    <3>1. a \notin Recoveries /\ a \notin OutcomesOf("UNRECOVERED") /\ a \notin PaidInstead
      BY <1>2, <2>4 DEF Recoveries, OutcomesOf, PaidInstead
    <3>2. a \in Ringing <=> actions[a].executedAt # None
      BY <2>1, <2>4 DEF Booked, OnlyCallsRing, Ringing, Calls
    <3> QED
      BY <3>1, <3>2
  <2> QED
    BY <2>1, <2>2, <2>3, <2>4
<1> HIDE DEF done, paid, won, lost, ring
<1>5. Cardinality(done \cup paid) = Cardinality(done) + Cardinality(paid)
  BY <1>1, <1>3, DisjointUnion
<1>6. /\ Cardinality(won \cup lost) = Cardinality(won) + Cardinality(lost)
      /\ IsFiniteSet(won \cup lost)
  BY <1>1, <1>3, DisjointUnion
<1>7. Cardinality((won \cup lost) \cup ring) = Cardinality(won \cup lost) + Cardinality(ring)
  BY <1>1, <1>3, <1>6, DisjointUnion
<1> QED
  BY <1>4, <1>5, <1>6, <1>7 DEF done, paid, won, lost, ring

\* One row of the breakdown by action type.
LEMMA ActionRowAgrees ==
  ASSUME Booked, NEW t \in ActionType
  PROVE  /\ ByAction(t).selected = Cardinality({a \in Selected : actions[a].type = t})
         /\ ByAction(t).recovered =
              SumFunctionOnSet(CreditTable, {a \in Recoveries : actions[a].type = t})
         /\ ByAction(t).executed + Cardinality({a \in PaidInstead : actions[a].type = t})
              = ByAction(t).successes + ByAction(t).failures
                  + Cardinality({a \in Ringing : actions[a].type = t})
<1> DEFINE mine == {a \in Selected : actions[a].type = t}
           credit == [a \in mine \cap Recoveries |-> Credit(a)]
           done == {a \in mine : actions[a].executedAt # None}
           won == mine \cap Recoveries
           lost == mine \cap OutcomesOf("UNRECOVERED")
<1>1. ByAction(t) = [selected |-> Cardinality(mine), executed |-> Cardinality(done),
                     successes |-> Cardinality(won), failures |-> Cardinality(lost),
                     recovered |-> SumFunction(credit)]
  BY Zenon DEF ByAction
<1>2. /\ won \in SUBSET Recoveries
      /\ credit = [a \in won |-> credit[a]] /\ \A a \in won : credit[a] = CreditTable[a]
  BY DEF CreditTable
<1>3. won = {a \in Recoveries : actions[a].type = t}
  BY TablesSummable
<1>4. /\ {a \in PaidInstead : actions[a].type = t} = mine \cap PaidInstead
      /\ {a \in Ringing : actions[a].type = t} = mine \cap Ringing
  <2>1. PaidInstead \subseteq Selected
    BY TablesSummable DEF PaidInstead
  <2>2. Ringing \subseteq Selected
    BY DEF Ringing, Calls, Selected, AbsentAction
  <2> QED
    BY <2>1, <2>2
<1>5. Cardinality(done) + Cardinality(mine \cap PaidInstead)
        = Cardinality(won) + Cardinality(lost) + Cardinality(mine \cap Ringing)
  BY ExecutedVerified
<1> HIDE DEF credit, mine, done, won, lost
<1>6. SumFunction(credit) = SumFunctionOnSet(CreditTable, won)
  BY <1>2, TablesSummable, ClassSum
<1> QED
  BY <1>1, <1>3, <1>4, <1>5, <1>6 DEF mine

\* The breakdown by action type adds up to the totals.
LEMMA ActionwiseAgrees ==
  ASSUME Booked
  PROVE  /\ SumFunction([t \in ActionType |-> ByAction(t).selected]) = Cardinality(Selected)
         /\ SumFunction([t \in ActionType |-> ByAction(t).recovered]) = Revenue.recovered
         /\ \A t \in ActionType :
              ByAction(t).executed + Cardinality({a \in PaidInstead : actions[a].type = t})
                = ByAction(t).successes + ByAction(t).failures
                    + Cardinality({a \in Ringing : actions[a].type = t})
<1> DEFINE kind == [a \in Selected |-> actions[a].type]
           T1 == [t \in ActionType |-> ByAction(t).selected]
           T2 == [t \in ActionType |-> ByAction(t).recovered]
<1>1. \A a \in Selected : kind[a] \in ActionType
  <2>1. \A a \in Selected : actions[a].type \in ActionType
    <3> SUFFICES ASSUME NEW a \in Selected PROVE actions[a].type \in ActionType
      OBVIOUS
    <3>1. a \in ActionId /\ actions[a] \in ActionRow /\ actions[a].type # None
      BY DEF Selected, Booked, TablesInv, TypeOK
    <3> QED
      BY <3>1 DEF ActionRow
  <2> QED
    BY <2>1
<1>2. /\ Recoveries \subseteq Selected /\ IsFiniteSet(Selected) /\ IsFiniteSet(ActionType)
      /\ Summable(CreditTable, Recoveries)
  BY TablesSummable, ActionTypesFinite
<1>3. \A t \in ActionType : T1[t] = Cardinality({a \in Selected : kind[a] = t})
  <2>1. \A t : {a \in Selected : kind[a] = t} = {a \in Selected : actions[a].type = t}
    OBVIOUS
  <2> HIDE DEF kind
  <2> QED
    BY <2>1, ActionRowAgrees
<1>4. \A t \in ActionType :
        T2[t] = SumFunctionOnSet(CreditTable, {a \in Recoveries : kind[a] = t})
  <2>1. \A t : {a \in Recoveries : kind[a] = t} = {a \in Recoveries : actions[a].type = t}
    BY <1>2
  <2> HIDE DEF kind
  <2> QED
    BY <2>1, ActionRowAgrees
<1>5. T1 = [t \in ActionType |-> T1[t]] /\ T2 = [t \in ActionType |-> T2[t]]
  OBVIOUS
<1>6. \A a \in Recoveries : kind[a] \in ActionType
  BY <1>1, <1>2
<1> HIDE DEF kind, T1, T2
<1>7. SumFunction(T1) = Cardinality(Selected)
  BY <1>1, <1>2, <1>3, <1>5, CountBreakdown
<1>8. SumFunction(T2) = SumFunctionOnSet(CreditTable, Recoveries)
  BY <1>6, <1>2, <1>4, <1>5, Breakdown
<1> QED
  BY <1>7, <1>8, RevenueSums, ActionRowAgrees DEF T1, T2

\* What the cases are credited is at most what they had at risk, if none won twice.
LEMMA NoMoreThanAtRisk ==
  Booked /\ (\A c \in Opened : Cardinality(WonBy(c)) <= 1) => Revenue.recovered <= Revenue.atRisk
<1> SUFFICES ASSUME Booked, \A c \in Opened : Cardinality(WonBy(c)) <= 1
             PROVE  Revenue.recovered <= Revenue.atRisk
  OBVIOUS
<1>1. \A c \in Opened : CreditOfTable[c] <= RiskTable[c]
  BY CreditOfCase DEF CreditOfTable, RiskTable
<1> QED
  BY <1>1, TablesSummable, SumMonotone, RevenueSums

LEMMA BookedAgrees == Booked => FiguresAgree
<1> SUFFICES ASSUME Booked PROVE FiguresAgree
  OBVIOUS
<1> DEFINE Reasonwise(field) == SumFunction([r \in FailureReason |-> ByFailureReason(r)[field]])
           Actionwise(field) == SumFunction([t \in ActionType |-> ByAction(t)[field]])
<1>1. /\ Reasonwise("cases") = Cardinality(Opened)
      /\ Reasonwise("atRisk") = Revenue.atRisk
      /\ Reasonwise("recovered") = Revenue.recovered
      /\ Revenue.casesRecovered = Reasonwise("recoveredCases") + Cardinality(NeverProposed)
  BY ReasonwiseAgrees, WinnersRecovered
<1>2. /\ Actionwise("selected") = Cardinality(Selected)
      /\ Actionwise("recovered") = Revenue.recovered
      /\ \A t \in ActionType :
           ByAction(t).executed + Cardinality({a \in PaidInstead : actions[a].type = t})
             = ByAction(t).successes + ByAction(t).failures
                 + Cardinality({a \in Ringing : actions[a].type = t})
  BY ActionwiseAgrees
<1> QED
  BY <1>1, <1>2, NoMoreThanAtRisk DEF FiguresAgree

\* The figures of the dashboard agree with each other in every state that the workflow,
\* the portal, the voice calls, the autopilot and the operators can bring about, for any
\* finite set of payments: each breakdown adds up to the totals; the recovered cases are
\* those credited with revenue and those paid for before anything was proposed; an action
\* is executed exactly when its outcome was verified, but for calls that still ring and
\* actions the portal is credited to; and no more is recovered than was ever at risk,
\* while no case has two recovered outcomes.
THEOREM FiguresHold ==
  ASSUME IsFiniteSet(PaymentId)
  PROVE  FiguresSpec => []FiguresAgree
<1>1. FiguresSpec => ChannelsSpec
  <2>1. FiguresInit => ChannelsInit
    BY DEF FiguresInit
  <2>2. [FiguresNext]_figures => [ChannelsNext]_channels
    BY DEF FiguresNext, figures, ChannelsNext
  <2> QED
    BY <2>1, <2>2, PTL DEF FiguresSpec, ChannelsSpec
<1>2. FiguresSpec => []Booked
  BY <1>1, BookedStart, BookedStep, ChannelsTypes, PTL DEF FiguresSpec
<1> QED
  BY <1>2, BookedAgrees, PTL
=============================================================================
