------------------------------- MODULE Numbers ------------------------------
(***************************************************************************)
(* Facts that the proofs about several modules rest on: numbers and powers *)
(* of two, induction over sets of numbers, functions defined by recursion  *)
(* along a measure, folds over 1 .. n taken place by place, and sequences  *)
(* strung together.                                                        *)
(***************************************************************************)
EXTENDS Integers, SequencesExt, FiniteSetTheorems, SequenceTheorems, WellFoundedInduction, TLAPS

(* The loops of select and sigsetmask look at the lowest number that is    *)
(* left: there is one.                                                     *)

LEMMA Minimum ==
  ASSUME NEW S \in SUBSET Nat, S # {}
  PROVE  \E least \in S : \A x \in S : least <= x
<1>1. PICK least \in S :
        \A x \in S : ~ (<<x, least>> \in {p \in Nat \X Nat : p[1] < p[2]})
  <2>1. OpToRel(<, Nat) = {p \in Nat \X Nat : p[1] < p[2]}
    BY DEF OpToRel
  <2> QED
    BY <2>1, NatLessThanWellFounded, WFMin, ZenonT(40)
<1>2. ASSUME NEW x \in S PROVE least <= x
  <2>1. least \in Nat /\ x \in Nat /\ <<x, least>> \in Nat \X Nat
    OBVIOUS
  <2>2. <<x, least>>[1] = x /\ <<x, least>>[2] = least
    OBVIOUS
  <2>3. ~ (x < least)
    BY <1>1, <2>1, <2>2
  <2> QED
    BY <2>1, <2>3
<1> QED
  BY <1>2

\* The same for the highest one of those up to a bound.
LEMMA Maximum ==
  ASSUME NEW S \in SUBSET Nat, S # {}, NEW n \in Nat, \A x \in S : x <= n
  PROVE  \E greatest \in S : \A x \in S : x <= greatest
<1> DEFINE Rest == {n - x : x \in S}
<1>1. Rest \in SUBSET Nat /\ Rest # {}
  <2>1. ASSUME NEW x \in S PROVE n - x \in Nat
    <3>1. x \in Nat /\ x <= n
      OBVIOUS
    <3> QED
      BY <3>1
  <2>2. PICK x \in S : TRUE
    OBVIOUS
  <2>3. n - x \in Rest
    OBVIOUS
  <2> QED
    BY <2>1, <2>3
<1>2. PICK least \in Rest : \A x \in Rest : least <= x
  <2> HIDE DEF Rest
  <2> QED
    BY <1>1, Minimum
<1>3. PICK greatest \in S : least = n - greatest
  OBVIOUS
<1>4. ASSUME NEW x \in S PROVE x <= greatest
  <2>1. n - x \in Rest
    OBVIOUS
  <2>2. least <= n - x
    BY <1>2, <2>1
  <2> QED
    BY <1>3, <2>2
<1> QED
  BY <1>4
-----------------------------------------------------------------------------
(* Powers of two: the number of subsets of a set.                          *)

LEMMA PowerDoubles ==
  ASSUME NEW n \in Nat
  PROVE  2^n \in Nat \ {0} /\ 2^(n + 1) = 2 * 2^n
<1> DEFINE S == 1 .. n
           T == S \cup {n + 1}
           Old == SUBSET S
           New == {A \cup {n + 1} : A \in SUBSET S}
<1>1. /\ IsFiniteSet(S) /\ Cardinality(S) = n /\ n + 1 \notin S
      /\ IsFiniteSet(T) /\ Cardinality(T) = n + 1
  <2>1. IsFiniteSet(1 .. n) /\ Cardinality(1 .. n) = n
    <3>1. 1 \in Int /\ n \in Int
      OBVIOUS
    <3>2. IsFiniteSet(1 .. n) /\ Cardinality(1 .. n) = IF 1 > n THEN 0 ELSE n - 1 + 1
      BY <3>1, FS_Interval
    <3> QED
      BY <3>2
  <2>2. n + 1 \notin 1 .. n
    OBVIOUS
  <2> QED
    BY <2>1, <2>2, FS_AddElement
<1>2. /\ IsFiniteSet(SUBSET S) /\ Cardinality(SUBSET S) = 2^n
      /\ IsFiniteSet(SUBSET T) /\ Cardinality(SUBSET T) = 2^(n + 1)
  <2> HIDE DEF S, T
  <2> QED
    BY <1>1, FS_SUBSET
<1>3. ExistsBijection(SUBSET S, New)
  <2> DEFINE f == [A \in SUBSET S |-> A \cup {n + 1}]
  <2>1. f \in [SUBSET S -> New] /\ \A B \in New : \E A \in SUBSET S : f[A] = B
    OBVIOUS
  <2>2. ASSUME NEW A \in SUBSET S, NEW B \in SUBSET S, f[A] = f[B] PROVE A = B
    <3>1. A \cup {n + 1} = B \cup {n + 1}
      BY <2>2
    <3>2. n + 1 \notin A /\ n + 1 \notin B
      BY <1>1
    <3> QED
      BY <3>1, <3>2
  <2> HIDE DEF f, New, S
  <2>3. f \in Bijection(SUBSET S, New)
    BY <2>1, <2>2 DEF Bijection, Injection, Surjection, IsInjective
  <2> QED
    BY <2>3 DEF ExistsBijection
<1>4. IsFiniteSet(New) /\ Cardinality(New) = 2^n
  <2> HIDE DEF New, S
  <2> QED
    BY <1>2, <1>3, FS_Bijection
<1>5. SUBSET T = Old \cup New /\ Old \cap New = {}
  <2>1. ASSUME NEW A \in SUBSET T PROVE A \in Old \cup New
    <3>1. CASE n + 1 \in A
      <4>1. A \ {n + 1} \in SUBSET S /\ A = (A \ {n + 1}) \cup {n + 1}
        BY <3>1
      <4> QED
        BY <4>1
    <3>2. CASE n + 1 \notin A
      BY <3>2
    <3> QED
      BY <3>1, <3>2
  <2>2. ASSUME NEW A \in Old PROVE A \notin New /\ A \in SUBSET T
    <3>1. n + 1 \notin A
      BY <1>1
    <3> QED
      BY <3>1
  <2>3. ASSUME NEW A \in New PROVE A \in SUBSET T
    OBVIOUS
  <2> HIDE DEF Old, New, T
  <2> QED
    BY <2>1, <2>2, <2>3
<1>6. /\ Cardinality(SUBSET T) = Cardinality(SUBSET S) + Cardinality(New)
      /\ Cardinality(SUBSET S) \in Nat
  <2>0. IsFiniteSet(Old) /\ Cardinality(Old) = Cardinality(SUBSET S)
    BY <1>2
  <2> HIDE DEF New, Old, T
  <2>1. Cardinality(Old \cup New) = Cardinality(Old) + Cardinality(New) - Cardinality(Old \cap New)
    BY <1>4, <2>0, FS_Union
  <2>2. Cardinality(Old \cap New) = 0
    BY <1>5, FS_EmptySet
  <2>3. Cardinality(Old) \in Nat /\ Cardinality(New) \in Nat
    BY <1>4, <2>0, FS_CardinalityType
  <2>4. Cardinality(SUBSET T) = Cardinality(Old \cup New)
    BY <1>5
  <2>5. Cardinality(Old \cup New) = Cardinality(Old) + Cardinality(New)
    BY <2>1, <2>2, <2>3
  <2>6. Cardinality(SUBSET T) = Cardinality(SUBSET S) + Cardinality(New)
    BY <2>0, <2>4, <2>5
  <2> QED
    BY <2>0, <2>3, <2>6
<1>7. Cardinality(SUBSET S) # 0
  <2>1. SUBSET S # {}
    OBVIOUS
  <2> HIDE DEF S
  <2> QED
    BY <1>2, <2>1, FS_EmptySet
<1> HIDE DEF S, T, New
<1>8. 2^n \in Nat \ {0}
  BY <1>2, <1>6, <1>7
<1>9. 2^(n + 1) = 2^n + 2^n
  BY <1>2, <1>4, <1>6
<1> DEFINE p == 2^n
<1>10. p \in Nat => p + p = 2 * p
  <2> HIDE DEF p
  <2> QED
    OBVIOUS
<1> QED
  BY <1>8, <1>9, <1>10

\* And grow.
LEMMA PowersGrow ==
  ASSUME NEW m \in Nat, NEW n \in Nat, m <= n
  PROVE  2^m \in Nat /\ 2^n \in Nat /\ 2^m <= 2^n
<1>1. ASSUME NEW k \in Nat
      PROVE  IsFiniteSet(SUBSET (1 .. k)) /\ Cardinality(SUBSET (1 .. k)) = 2^k
  <2>1. 1 \in Int /\ k \in Int
    OBVIOUS
  <2>2. IsFiniteSet(1 .. k) /\ Cardinality(1 .. k) = IF 1 > k THEN 0 ELSE k - 1 + 1
    BY <2>1, FS_Interval
  <2>3. IsFiniteSet(1 .. k) /\ Cardinality(1 .. k) = k
    BY <2>2
  <2> QED
    BY <2>3, FS_SUBSET
<1>2. SUBSET (1 .. m) \subseteq SUBSET (1 .. n)
  <2>1. 1 .. m \subseteq 1 .. n
    OBVIOUS
  <2> QED
    BY <2>1, Zenon
<1>3. Cardinality(SUBSET (1 .. m)) <= Cardinality(SUBSET (1 .. n))
  BY <1>1, <1>2, FS_Subset
<1> QED
  BY <1>1, <1>3, PowerDoubles
-----------------------------------------------------------------------------
(* Induction, over sets of numbers.                                        *)

LEMMA Induction ==
  ASSUME NEW S, 0 \in S, \A n \in Nat : n \in S => n + 1 \in S
  PROVE  \A n \in Nat : n \in S
<1> DEFINE Out == {n \in Nat : n \notin S}
<1>1. CASE Out = {}
  BY <1>1
<1>2. ASSUME Out # {} PROVE FALSE
  <2>1. Out \in SUBSET Nat
    OBVIOUS
  <2>2. PICK least \in Out : \A x \in Out : least <= x
    <3> HIDE DEF Out
    <3> QED
      BY <1>2, <2>1, Minimum
  <2>3. least \in Nat /\ least \notin S /\ least # 0
    OBVIOUS
  <2>4. least - 1 \in Nat /\ (least - 1) + 1 = least /\ ~ (least <= least - 1)
    BY <2>3
  <2>5. least - 1 \in S
    BY <2>2, <2>4
  <2> QED
    BY <2>3, <2>4, <2>5
<1> QED
  BY <1>1, <1>2

\* Powers of two add their exponents and multiply.
LEMMA PowersMultiply ==
  ASSUME NEW m \in Nat, NEW n \in Nat
  PROVE  2^(m + n) = 2^m * 2^n
<1> DEFINE T == {k \in Nat : 2^(m + k) = 2^m * 2^k}
<1>1. 2^m \in Nat \ {0}
  BY PowerDoubles
<1>2. 0 \in T
  <2>1. 2^0 = 1
    OBVIOUS
  <2>2. m + 0 = m
    OBVIOUS
  <2> QED
    BY <1>1, <2>1, <2>2
<1>3. ASSUME NEW k \in Nat, k \in T PROVE k + 1 \in T
  <2>1. (m + k) + 1 = m + (k + 1) /\ m + k \in Nat
    OBVIOUS
  <2>2. 2^(m + (k + 1)) = 2 * 2^(m + k) /\ 2^(k + 1) = 2 * 2^k /\ 2^k \in Nat
    BY <2>1, PowerDoubles
  <2>3. PICK p \in Nat, q \in Nat : p = 2^m /\ q = 2^k
    BY <1>1, <2>2
  <2>4. 2 * (p * q) = p * (2 * q)
    OBVIOUS
  <2>5. 2^(m + k) = p * q
    BY <1>3, <2>3
  <2> QED
    BY <2>2, <2>3, <2>4, <2>5
<1> HIDE DEF T
<1>4. \A k \in Nat : k \in T
  BY <1>2, <1>3, Induction
<1> QED
  BY <1>4 DEF T

(* A recursive definition has a function, if there is a measure of its     *)
(* arguments that falls: F gives the value at an argument, from the        *)
(* function's values at arguments that measure less.                       *)

Local(F, S, V, m) ==
  \A x \in S : \A g \in [S -> V] : \A h \in [S -> V] :
    (\A y \in S : m[y] < m[x] => g[y] = h[y]) => F[<<x, g>>] = F[<<x, h>>]

Obeys(g, F, S, m, n) == \A x \in S : m[x] < n => g[x] = F[<<x, g>>]

LEMMA RecursionUnique ==
  ASSUME NEW S, NEW V, NEW m \in [S -> Nat], NEW F, Local(F, S, V, m)
  PROVE  \A n \in Nat : \A g \in [S -> V] : \A h \in [S -> V] :
           Obeys(g, F, S, m, n) /\ Obeys(h, F, S, m, n)
             => \A x \in S : m[x] < n => g[x] = h[x]
<1> DEFINE Agree(g, h, n) == \A x \in S : m[x] < n => g[x] = h[x]
           Good == {n \in Nat : \A g \in [S -> V] : \A h \in [S -> V] :
                      Obeys(g, F, S, m, n) /\ Obeys(h, F, S, m, n) => Agree(g, h, n)}
<1>1. 0 \in Good
  BY DEF Obeys
<1>2. ASSUME NEW n \in Nat, n \in Good PROVE n + 1 \in Good
  <2> SUFFICES ASSUME NEW g \in [S -> V], NEW h \in [S -> V],
                      Obeys(g, F, S, m, n + 1), Obeys(h, F, S, m, n + 1)
               PROVE  Agree(g, h, n + 1)
    OBVIOUS
  <2>1. Obeys(g, F, S, m, n) /\ Obeys(h, F, S, m, n)
    <3>1. \A x \in S : m[x] < n => m[x] < n + 1
      OBVIOUS
    <3> QED
      BY <3>1 DEF Obeys
  <2>2. Agree(g, h, n)
    BY <1>2, <2>1
  <2>3. ASSUME NEW x \in S, m[x] < n + 1 PROVE g[x] = h[x]
    <3>1. \A y \in S : m[y] < m[x] => m[y] < n
      BY <2>3
    <3>2. \A y \in S : m[y] < m[x] => g[y] = h[y]
      BY <2>2, <3>1
    <3>3. F[<<x, g>>] = F[<<x, h>>]
      BY <3>2 DEF Local
    <3> QED
      BY <2>3, <3>3 DEF Obeys
  <2> QED
    BY <2>3
<1> HIDE DEF Good
<1>3. \A n \in Nat : n \in Good
  BY <1>1, <1>2, Induction
<1> QED
  BY <1>3 DEF Good

\* F defines a function from S to V, and f is one that it defines.
Descends(F, S, V, m) ==
  /\ V # {} /\ m \in [S -> Nat] /\ Local(F, S, V, m)
  /\ \A x \in S : \A g \in [S -> V] : F[<<x, g>>] \in V
Solves(f, F, S, V) == f \in [S -> V] /\ \A x \in S : f[x] = F[<<x, f>>]

LEMMA Recursion ==
  ASSUME NEW S, NEW V, NEW m, NEW F, Descends(F, S, V, m)
  PROVE  \E f : Solves(f, F, S, V)
<1>0. /\ V # {} /\ m \in [S -> Nat] /\ Local(F, S, V, m)
      /\ \A x \in S : \A g \in [S -> V] : F[<<x, g>>] \in V
  BY DEF Descends
<1> DEFINE Good == {n \in Nat : \E g \in [S -> V] : Obeys(g, F, S, m, n)}
<1>1. 0 \in Good
  <2>1. PICK v \in V : TRUE
    BY <1>0
  <2>2. [x \in S |-> v] \in [S -> V] /\ Obeys([x \in S |-> v], F, S, m, 0)
    BY <1>0, <2>1 DEF Obeys
  <2> QED
    BY <2>2
<1>2. ASSUME NEW n \in Nat, n \in Good PROVE n + 1 \in Good
  <2>1. PICK g \in [S -> V] : Obeys(g, F, S, m, n)
    BY <1>2
  <2> DEFINE h == [x \in S |-> IF m[x] < n THEN g[x] ELSE F[<<x, g>>]]
  <2>2. h \in [S -> V]
    BY <1>0
  <2>3. \A x \in S : m[x] < n => h[x] = g[x]
    OBVIOUS
  <2>4. \A x \in S : h[x] = F[<<x, g>>]
    BY <1>0, <2>1 DEF Obeys
  <2> HIDE DEF h
  <2>5. ASSUME NEW x \in S, m[x] < n + 1 PROVE h[x] = F[<<x, h>>]
    <3>1. \A y \in S : m[y] < m[x] => m[y] < n
      BY <1>0, <2>5
    <3>2. \A y \in S : m[y] < m[x] => g[y] = h[y]
      BY <2>3, <3>1
    <3>3. F[<<x, g>>] = F[<<x, h>>]
      BY <1>0, <2>1, <2>2, <3>2 DEF Local
    <3> QED
      BY <2>4, <3>3
  <2> QED
    BY <2>2, <2>5 DEF Obeys
<1> HIDE DEF Good
<1>3. \A n \in Nat : n \in Good
  BY <1>1, <1>2, Induction
<1>4. \A n \in Nat : \E g \in [S -> V] : Obeys(g, F, S, m, n)
  BY <1>3 DEF Good
<1> DEFINE upTo(n) == CHOOSE g \in [S -> V] : Obeys(g, F, S, m, n)
           f == [x \in S |-> upTo(m[x] + 1)[x]]
<1>5. \A n \in Nat : upTo(n) \in [S -> V] /\ Obeys(upTo(n), F, S, m, n)
  BY <1>4
<1>6. f \in [S -> V] /\ \A x \in S : f[x] = upTo(m[x] + 1)[x]
  BY <1>0, <1>5
<1> HIDE DEF upTo, f
<1>7. ASSUME NEW x \in S PROVE f[x] = F[<<x, f>>]
  <2>1. m[x] + 1 \in Nat /\ m[x] < m[x] + 1
    BY <1>0
  <2> DEFINE g == upTo(m[x] + 1)
  <2>2. g \in [S -> V] /\ Obeys(g, F, S, m, m[x] + 1) /\ f[x] = g[x]
    BY <1>5, <1>6, <2>1
  <2> HIDE DEF g
  <2>3. ASSUME NEW y \in S, m[y] < m[x] PROVE f[y] = g[y]
    <3>1. m[y] + 1 \in Nat /\ m[y] < m[y] + 1 /\ \A z \in S : m[z] < m[y] + 1 => m[z] < m[x] + 1
      BY <1>0, <2>3
    <3>2. Obeys(g, F, S, m, m[y] + 1)
      BY <2>2, <3>1 DEF Obeys
    <3>3. /\ upTo(m[y] + 1) \in [S -> V] /\ Obeys(upTo(m[y] + 1), F, S, m, m[y] + 1)
          /\ f[y] = upTo(m[y] + 1)[y]
      BY <1>5, <1>6, <3>1
    <3> QED
      BY <1>0, <2>2, <3>1, <3>2, <3>3, RecursionUnique
  <2>4. F[<<x, f>>] = F[<<x, g>>]
    BY <1>0, <1>6, <2>2, <2>3 DEF Local
  <2> QED
    BY <2>1, <2>2, <2>4 DEF Obeys
<1> QED
  BY <1>6, <1>7 DEF Solves

(* A loop written as a recursive function: from an argument on, by next,   *)
(* until one is done.                                                      *)

Loops(Done, out, next, S, V, m) ==
  /\ V # {} /\ m \in [S -> Nat] /\ out \in [S -> V] /\ next \in [S -> S]
  /\ \A x \in S : x \notin Done => m[next[x]] < m[x]
LoopAt(Done, out, next, x, f) == IF x \in Done THEN out[x] ELSE f[next[x]]
LoopOf(f, Done, out, next, S, V) ==
  f \in [S -> V] /\ \A x \in S : f[x] = LoopAt(Done, out, next, x, f)

LEMMA LoopExists ==
  ASSUME NEW Done, NEW out, NEW next, NEW S, NEW V, NEW m, Loops(Done, out, next, S, V, m)
  PROVE  \E f : LoopOf(f, Done, out, next, S, V)
<1>0. /\ V # {} /\ m \in [S -> Nat] /\ out \in [S -> V] /\ next \in [S -> S]
      /\ \A x \in S : x \notin Done => m[next[x]] < m[x]
  BY DEF Loops
<1> DEFINE F == [z \in S \X [S -> V] |-> LoopAt(Done, out, next, z[1], z[2])]
<1>1. \A x \in S : \A g \in [S -> V] : F[<<x, g>>] = LoopAt(Done, out, next, x, g)
  OBVIOUS
<1>2. \A x \in S : \A g \in [S -> V] : LoopAt(Done, out, next, x, g) \in V
  BY <1>0 DEF LoopAt
<1>3. ASSUME NEW x \in S, NEW g \in [S -> V], NEW h \in [S -> V],
             \A y \in S : m[y] < m[x] => g[y] = h[y]
      PROVE  LoopAt(Done, out, next, x, g) = LoopAt(Done, out, next, x, h)
  BY <1>0, <1>3 DEF LoopAt
<1> HIDE DEF F
<1>4. Descends(F, S, V, m)
  <2>1. Local(F, S, V, m)
    BY <1>1, <1>3 DEF Local
  <2> QED
    BY <1>0, <1>1, <1>2, <2>1 DEF Descends
<1>5. PICK f : Solves(f, F, S, V)
  BY <1>4, Recursion
<1> QED
  BY <1>1, <1>5 DEF Solves, LoopOf

\* Induction along a measure.
Inherits(T, S, m) ==
  /\ m \in [S -> Nat]
  /\ \A x \in S : (\A y \in S : m[y] < m[x] => y \in T) => x \in T

LEMMA MeasureInduction ==
  ASSUME NEW S, NEW m, NEW T, Inherits(T, S, m)
  PROVE  \A x \in S : x \in T
<1>0. /\ m \in [S -> Nat]
      /\ \A x \in S : (\A y \in S : m[y] < m[x] => y \in T) => x \in T
  BY DEF Inherits
<1> DEFINE Good == {n \in Nat : \A x \in S : m[x] < n => x \in T}
<1>1. 0 \in Good
  BY <1>0
<1>2. ASSUME NEW n \in Nat, n \in Good PROVE n + 1 \in Good
  <2>1. ASSUME NEW x \in S, m[x] < n + 1 PROVE x \in T
    <3>1. \A y \in S : m[y] < m[x] => m[y] < n
      BY <1>0, <2>1
    <3> QED
      BY <1>0, <1>2, <3>1
  <2> QED
    BY <2>1
<1> HIDE DEF Good
<1>3. \A n \in Nat : n \in Good
  BY <1>1, <1>2, Induction
<1>4. ASSUME NEW x \in S PROVE x \in T
  <2>1. m[x] + 1 \in Nat /\ m[x] < m[x] + 1
    BY <1>0
  <2> QED
    BY <1>3, <2>1 DEF Good
<1> QED
  BY <1>4-----------------------------------------------------------------------------
(* Folds over the places of a sequence, in their order: the community      *)
(* modules' FoldLeft takes the highest place of a set of places away.  G   *)
(* gives the result at a place from the place and the result so far.       *)

Highest(s) == CHOOSE x \in s : \A y \in s : x >= y
FoldStep(G, base, s, g) == IF s = {} THEN base ELSE G[<<Highest(s), g[s \ {Highest(s)}]>>]

Foldable(G, base, n, V) ==
  n \in Nat /\ base \in V /\ \A k \in 1 .. n : \A v \in V : G[<<k, v>>] \in V
FoldsUp(iter, G, base, n, V) ==
  /\ iter = [s \in SUBSET (1 .. n) |-> FoldStep(G, base, s, iter)]
  /\ iter \in [SUBSET (1 .. n) -> V]
  /\ iter[{}] = base
  /\ \A k \in 1 .. n : iter[1 .. k] = G[<<k, iter[1 .. k - 1]>>]

LEMMA HighestOf ==
  ASSUME NEW n \in Nat, NEW s \in SUBSET (1 .. n), s # {}
  PROVE  /\ Highest(s) \in s
         /\ IsFiniteSet(s) /\ Cardinality(s) \in Nat
         /\ Cardinality(s \ {Highest(s)}) \in Nat
         /\ Cardinality(s \ {Highest(s)}) < Cardinality(s)
<1>1. \E greatest \in s : \A x \in s : x <= greatest
  <2>1. s \in SUBSET Nat /\ \A x \in s : x <= n
    OBVIOUS
  <2> QED
    BY <2>1, Maximum
<1>2. PICK greatest \in s : \A y \in s : greatest >= y
  <2>1. s \in SUBSET Nat
    OBVIOUS
  <2> QED
    BY <1>1, <2>1
<1>3. Highest(s) \in s
  BY <1>2 DEF Highest
<1>4. IsFiniteSet(s)
  <2>1. IsFiniteSet(1 .. n)
    BY FS_Interval
  <2> QED
    BY <2>1, FS_Subset
<1>5. IsFiniteSet(s \ {Highest(s)}) /\ Cardinality(s \ {Highest(s)}) = Cardinality(s) - 1
  BY <1>3, <1>4, FS_RemoveElement
<1>6. Cardinality(s) \in Nat /\ Cardinality(s \ {Highest(s)}) \in Nat
  BY <1>4, <1>5, FS_CardinalityType
<1> QED
  BY <1>3, <1>4, <1>5, <1>6

LEMMA HighestOfInterval ==
  ASSUME NEW k \in Nat \ {0}
  PROVE  Highest(1 .. k) = k /\ (1 .. k) \ {k} = 1 .. k - 1
<1>1. k \in 1 .. k /\ \A y \in 1 .. k : k >= y
  OBVIOUS
<1>2. \A x \in 1 .. k : (\A y \in 1 .. k : x >= y) => x = k
  OBVIOUS
<1>3. Highest(1 .. k) \in 1 .. k /\ \A y \in 1 .. k : Highest(1 .. k) >= y
  BY <1>1 DEF Highest
<1> QED
  BY <1>2, <1>3

LEMMA FoldUp ==
  ASSUME NEW G, NEW base, NEW n, NEW V, Foldable(G, base, n, V)
  PROVE  \E iter : FoldsUp(iter, G, base, n, V)
<1>0. n \in Nat /\ base \in V /\ \A k \in 1 .. n : \A v \in V : G[<<k, v>>] \in V
  BY DEF Foldable
<1> DEFINE S == SUBSET (1 .. n)
           m == [s \in S |-> Cardinality(s)]
           F == [z \in S \X [S -> V] |-> FoldStep(G, base, z[1], z[2])]
<1>1. \A s \in S : Cardinality(s) \in Nat
  <2>1. IsFiniteSet(1 .. n)
    BY <1>0, FS_Interval
  <2> QED
    BY <2>1, FS_Subset, FS_CardinalityType
<1>2. m \in [S -> Nat] /\ \A s \in S : m[s] = Cardinality(s)
  BY <1>1
<1>3. \A s \in S, g \in [S -> V] : F[<<s, g>>] = FoldStep(G, base, s, g)
  <2> HIDE DEF S
  <2> QED
    OBVIOUS
<1>4. ASSUME NEW s \in S, s # {}
      PROVE  /\ Highest(s) \in 1 .. n /\ s \ {Highest(s)} \in S
             /\ m[s \ {Highest(s)}] < m[s]
  <2>1. Highest(s) \in s /\ Cardinality(s \ {Highest(s)}) < Cardinality(s)
    BY <1>0, <1>4, HighestOf
  <2>2. s \ {Highest(s)} \in S
    OBVIOUS
  <2> HIDE DEF m
  <2> QED
    BY <1>2, <2>1, <2>2
<1> HIDE DEF m, F
<1>5. Descends(F, S, V, m)
  <2>1. \A s \in S : \A g \in [S -> V] : F[<<s, g>>] \in V
    <3>1. ASSUME NEW s \in S, NEW g \in [S -> V] PROVE FoldStep(G, base, s, g) \in V
      <4>1. CASE s = {}
        BY <1>0, <4>1 DEF FoldStep
      <4>2. CASE s # {}
        <5>1. Highest(s) \in 1 .. n /\ g[s \ {Highest(s)}] \in V
          BY <1>4, <4>2
        <5> QED
          BY <1>0, <4>2, <5>1 DEF FoldStep
      <4> QED
        BY <4>1, <4>2
    <3> HIDE DEF S
    <3> QED
      BY <1>3, <3>1
  <2>2. Local(F, S, V, m)
    <3>1. ASSUME NEW s \in S, NEW g \in [S -> V], NEW h \in [S -> V],
                 \A r \in S : m[r] < m[s] => g[r] = h[r]
          PROVE  FoldStep(G, base, s, g) = FoldStep(G, base, s, h)
      <4>1. s # {} => g[s \ {Highest(s)}] = h[s \ {Highest(s)}]
        BY <1>4, <3>1
      <4> QED
        BY <4>1 DEF FoldStep
    <3> HIDE DEF S
    <3> QED
      BY <1>3, <3>1 DEF Local
  <2>3. V # {}
    BY <1>0
  <2> QED
    BY <1>2, <2>1, <2>2, <2>3 DEF Descends
<1>6. PICK iter \in [S -> V] : \A s \in S : iter[s] = FoldStep(G, base, s, iter)
  <2> HIDE DEF S
  <2>1. PICK iter \in [S -> V] : \A s \in S : iter[s] = F[<<s, iter>>]
    BY <1>5, Recursion DEF Solves
  <2> QED
    BY <1>3, <2>1
<1>7. iter[{}] = base
  BY <1>6 DEF FoldStep
<1>8. ASSUME NEW k \in 1 .. n PROVE iter[1 .. k] = G[<<k, iter[1 .. k - 1]>>]
  <2>1. k \in Nat \ {0} /\ 1 .. k \in S /\ 1 .. k # {}
    BY <1>0
  <2>2. Highest(1 .. k) = k /\ (1 .. k) \ {k} = 1 .. k - 1
    BY <2>1, HighestOfInterval
  <2>3. iter[1 .. k] = FoldStep(G, base, 1 .. k, iter)
    BY <1>6, <2>1
  <2> HIDE DEF S
  <2> QED
    BY <2>1, <2>2, <2>3 DEF FoldStep
<1>9. iter = [s \in S |-> FoldStep(G, base, s, iter)]
  <2> HIDE DEF S
  <2> QED
    BY <1>6
<1> QED
  BY <1>6, <1>7, <1>8, <1>9 DEF FoldsUp
-----------------------------------------------------------------------------
(* Sequences strung together.  Where each of them starts, and what is there. *)

Strung(off, seqs, whole) ==
  /\ off \in [0 .. Len(seqs) -> Nat] /\ off[0] = 0
  /\ \A i \in 1 .. Len(seqs) : off[i] = off[i - 1] + Len(seqs[i])
  /\ Len(whole) = off[Len(seqs)]
  /\ \A i \in 1 .. Len(seqs) : \A j \in 1 .. Len(seqs[i]) : whole[off[i - 1] + j] = seqs[i][j]

\* The function that strings them together, one after the other.
Strings(f, seqs) ==
  f = [i \in 1 .. Len(seqs) |-> IF i = 1 THEN seqs[i] ELSE f[i - 1] \o seqs[i]]

LEMMA StringsExist ==
  ASSUME NEW C, NEW seqs \in Seq(Seq(C)), Len(seqs) # 0
  PROVE  \E f : /\ Strings(f, seqs) /\ f \in [1 .. Len(seqs) -> Seq(C)]
                /\ FlattenSeq(seqs) = f[Len(seqs)]
<1> DEFINE n == Len(seqs)
           S == 1 .. n
           V == Seq(C)
           m == [i \in S |-> i]
           Body(i, g) == IF i = 1 THEN seqs[i] ELSE g[i - 1] \o seqs[i]
           F == [z \in S \X [S -> V] |-> Body(z[1], z[2])]
           flatten == CHOOSE g : g = [i \in S |-> Body(i, g)]
<1>0. n \in Nat \ {0} /\ \A i \in S : i \in Nat /\ seqs[i] \in V
  BY LenProperties
<1>1. FlattenSeq(seqs) = flatten[n]
  BY <1>0 DEF FlattenSeq
<1>2. m \in [S -> Nat]
  BY <1>0
<1>3. \A i \in S : i # 1 => i - 1 \in S /\ m[i - 1] < m[i]
  BY <1>0
<1>4. \A i \in S, g \in [S -> V] : Body(i, g) \in V
  <2> SUFFICES ASSUME NEW i \in S, NEW g \in [S -> V] PROVE Body(i, g) \in V
    OBVIOUS
  <2>1. CASE i = 1
    BY <1>0, <2>1
  <2>2. CASE i # 1
    <3>1. g[i - 1] \in Seq(C) /\ seqs[i] \in Seq(C)
      BY <1>0, <1>3, <2>2
    <3>2. g[i - 1] \o seqs[i] \in Seq(C)
      BY <3>1, ConcatProperties
    <3> QED
      BY <2>2, <3>2
  <2> QED
    BY <2>1, <2>2
<1>5. ASSUME NEW i \in S, NEW g, NEW h, \A j \in S : m[j] < m[i] => g[j] = h[j]
      PROVE  Body(i, g) = Body(i, h)
  <2> HIDE DEF m, S
  <2> QED
    BY <1>0, <1>3, <1>5
<1>6. \A i \in S, g \in [S -> V] : F[<<i, g>>] = Body(i, g)
  <2> HIDE DEF Body, V, S
  <2> QED
    OBVIOUS
<1>7. V # {}
  <2>1. <<>> \in V
    OBVIOUS
  <2> QED
    BY <2>1
<1> HIDE DEF n, S, V, Body, m, F, flatten
<1>8. Descends(F, S, V, m)
  <2>1. \A x \in S : \A g \in [S -> V] : F[<<x, g>>] \in V
    BY <1>4, <1>6
  <2>2. Local(F, S, V, m)
    BY <1>5, <1>6 DEF Local
  <2> QED
    BY <1>2, <1>7, <2>1, <2>2 DEF Descends
<1>9. PICK f : Solves(f, F, S, V)
  BY <1>8, Recursion
<1>10. f = [i \in S |-> Body(i, f)]
  BY <1>6, <1>9 DEF Solves
<1>11. flatten = [i \in S |-> Body(i, flatten)]
  BY <1>10 DEF flatten
<1>12. flatten \in [S -> V]
  <2> DEFINE T == {i \in S : flatten[i] \in V}
  <2>1. ASSUME NEW i \in S, \A j \in S : m[j] < m[i] => j \in T PROVE i \in T
    <3>1. flatten[i] = Body(i, flatten)
      BY <1>11
    <3>2. CASE i = 1
      BY <1>0, <3>1, <3>2 DEF Body
    <3>3. CASE i # 1
      <4>1. flatten[i - 1] \in Seq(C) /\ seqs[i] \in Seq(C)
        BY <1>0, <1>3, <2>1, <3>3 DEF V
      <4>2. flatten[i - 1] \o seqs[i] \in Seq(C)
        BY <4>1, ConcatProperties
      <4> QED
        BY <3>1, <3>3, <4>2 DEF Body, V
    <3> QED
      BY <3>2, <3>3
  <2> HIDE DEF T
  <2>2. \A i \in S : i \in T
    BY <1>2, <2>1, MeasureInduction DEF Inherits
  <2> QED
    BY <1>11, <2>2 DEF T
<1>13. Strings(flatten, seqs)
  BY <1>11 DEF Strings, S, Body, n
<1> QED
  BY <1>1, <1>12, <1>13 DEF n, S, V

LEMMA Ascends ==
  ASSUME NEW n \in Nat, NEW f \in [0 .. n -> Nat], \A k \in 1 .. n : f[k - 1] <= f[k]
  PROVE  \A k, l \in 0 .. n : k <= l => f[k] <= f[l]
<1> SUFFICES ASSUME NEW k \in 0 .. n PROVE \A l \in 0 .. n : k <= l => f[k] <= f[l]
  OBVIOUS
<1> DEFINE T == {d \in Nat : k + d <= n => f[k] <= f[k + d]}
<1>1. 0 \in T
  OBVIOUS
<1>2. ASSUME NEW d \in Nat, d \in T PROVE d + 1 \in T
  <2> SUFFICES ASSUME k + (d + 1) <= n PROVE f[k] <= f[k + (d + 1)]
    OBVIOUS
  <2>1. k + d \in 0 .. n /\ k + (d + 1) \in 1 .. n /\ (k + (d + 1)) - 1 = k + d /\ k + (d + 1) \in 0 .. n
    OBVIOUS
  <2>2. f[k + d] <= f[k + (d + 1)] /\ f[k] <= f[k + d]
    BY <1>2, <2>1
  <2>3. f[k] \in Nat /\ f[k + d] \in Nat /\ f[k + (d + 1)] \in Nat
    BY <2>1
  <2> QED
    BY <2>2, <2>3
<1> HIDE DEF T
<1>3. \A d \in Nat : d \in T
  BY <1>1, <1>2, Induction
<1>4. ASSUME NEW l \in 0 .. n, k <= l PROVE f[k] <= f[l]
  <2>1. l - k \in Nat /\ k + (l - k) = l /\ l <= n
    BY <1>4
  <2>2. PICK d \in Nat : k + d = l
    BY <2>1
  <2>3. d \in T
    BY <1>3
  <2> QED
    BY <2>1, <2>2, <2>3 DEF T
<1> QED
  BY <1>4

LEMMA FlattenPlaces ==
  ASSUME NEW C, NEW seqs \in Seq(Seq(C))
  PROVE  /\ FlattenSeq(seqs) \in Seq(C)
         /\ \E off : Strung(off, seqs, FlattenSeq(seqs))
<1> DEFINE n == Len(seqs)
<1>0. n \in Nat /\ DOMAIN seqs = 1 .. n /\ \A i \in 1 .. n : seqs[i] \in Seq(C)
  BY LenProperties
<1>1. CASE n = 0
  <2>1. FlattenSeq(seqs) = <<>> /\ <<>> \in Seq(C) /\ Len(<<>>) = 0
    <3>1. seqs = <<>>
      BY <1>1, EmptySeq
    <3> QED
      BY <1>1, <3>1 DEF FlattenSeq
  <2> DEFINE off == [i \in 0 .. n |-> 0]
  <2>2. off \in [0 .. n -> Nat] /\ off[0] = 0 /\ off[n] = 0
    BY <1>1
  <2> HIDE DEF off
  <2>3. Strung(off, seqs, FlattenSeq(seqs))
    BY <1>0, <1>1, <2>1, <2>2 DEF Strung
  <2> QED
    BY <2>1, <2>3
<1>2. CASE n # 0
  <2>1. PICK f : /\ Strings(f, seqs) /\ f \in [1 .. n -> Seq(C)]
                 /\ FlattenSeq(seqs) = f[n]
    BY <1>2, StringsExist
  <2>2. \A i \in 1 .. n : Len(f[i]) \in Nat /\ Len(seqs[i]) \in Nat
    BY <1>0, <2>1, LenProperties
  <2> DEFINE off == [i \in 0 .. n |-> IF i = 0 THEN 0 ELSE Len(f[i])]
  <2>3. off \in [0 .. n -> Nat] /\ off[0] = 0 /\ \A i \in 1 .. n : off[i] = Len(f[i])
    BY <1>0, <2>2
  <2> HIDE DEF off
  <2>4. n \in 1 .. n
    BY <1>0, <1>2
  <2>5. ASSUME NEW i \in 1 .. n
        PROVE  /\ off[i] = off[i - 1] + Len(seqs[i])
               /\ \A j \in 1 .. Len(seqs[i]) : f[i][off[i - 1] + j] = seqs[i][j]
               /\ i # 1 => \A p \in 1 .. off[i - 1] : f[i][p] = f[i - 1][p]
    <3>1. f[i] = IF i = 1 THEN seqs[i] ELSE f[i - 1] \o seqs[i]
      <4> HIDE DEF n
      <4> QED
        BY <2>1 DEF Strings, n
    <3>2. CASE i = 1
      <4>1. off[i - 1] = 0
        BY <2>3, <3>2
      <4>2. f[i] = seqs[i] /\ off[i] = Len(seqs[i])
        BY <2>3, <3>1, <3>2
      <4> HIDE DEF n
      <4> QED
        BY <2>2, <3>2, <4>1, <4>2
    <3>3. CASE i # 1
      <4>1. i - 1 \in 1 .. n
        BY <1>0, <3>3
      <4>2. off[i - 1] = Len(f[i - 1]) /\ off[i] = Len(f[i])
        BY <2>3, <4>1
      <4>3. f[i] = f[i - 1] \o seqs[i] /\ f[i - 1] \in Seq(C) /\ seqs[i] \in Seq(C)
        BY <1>0, <2>1, <3>1, <3>3, <4>1
      <4> DEFINE s == f[i - 1]
                 t == seqs[i]
      <4> HIDE DEF s, t, n
      <4>4. /\ Len(s \o t) = Len(s) + Len(t)
            /\ \A p \in 1 .. Len(s) + Len(t) :
                 (s \o t)[p] = IF p <= Len(s) THEN s[p] ELSE t[p - Len(s)]
        BY <4>3, ConcatProperties DEF s, t
      <4>5. Len(s) \in Nat /\ Len(t) \in Nat
        BY <2>2, <4>1 DEF s, t
      <4>6. \A j \in 1 .. Len(t) : (s \o t)[Len(s) + j] = t[j]
        <5>1. \A j \in 1 .. Len(t) : /\ Len(s) + j \in 1 .. Len(s) + Len(t)
                                     /\ ~(Len(s) + j <= Len(s)) /\ (Len(s) + j) - Len(s) = j
          BY <4>5
        <5> QED
          BY <4>4, <5>1
      <4>7. \A p \in 1 .. Len(s) : (s \o t)[p] = s[p]
        BY <4>4, <4>5
      <4> QED
        BY <4>2, <4>3, <4>4, <4>6, <4>7 DEF s, t
    <3> QED
      BY <3>2, <3>3
  <2> DEFINE Holds(k) == \A i \in 1 .. k : \A j \in 1 .. Len(seqs[i]) : f[k][off[i - 1] + j] = seqs[i][j]
             T == {k \in Nat : k \in 1 .. n => Holds(k)}
  <2>6. 0 \in T
    OBVIOUS
  <2>7. ASSUME NEW k \in Nat, k \in T PROVE k + 1 \in T
    <3> HIDE DEF Holds
    <3> SUFFICES ASSUME k + 1 \in 1 .. n PROVE Holds(k + 1)
      OBVIOUS
    <3> SUFFICES ASSUME NEW i \in 1 .. k + 1, NEW j \in 1 .. Len(seqs[i])
                 PROVE  f[k + 1][off[i - 1] + j] = seqs[i][j]
      BY DEF Holds
    <3>1. CASE i = k + 1
      BY <2>5, <3>1
    <3>2. CASE i # k + 1
      <4>1. i \in 1 .. k /\ k \in 1 .. n /\ i \in 1 .. n /\ (k + 1) - 1 = k /\ k + 1 # 1
        BY <1>0, <3>2
      <4>2. f[k][off[i - 1] + j] = seqs[i][j]
        BY <2>7, <4>1 DEF Holds
      <4>3. off[i - 1] + j \in 1 .. off[k]
        <5>1. \A l \in 0 .. n : off[l] \in Nat
          BY <2>3
        <5>2. \A l \in 1 .. n : off[l - 1] <= off[l]
          <6>1. \A l \in 1 .. n : l \in 0 .. n /\ l - 1 \in 0 .. n
            BY <1>0
          <6>2. \A l \in 1 .. n : off[l] = off[l - 1] + Len(seqs[l])
            BY <2>5
          <6>3. \A l \in 1 .. n : off[l] \in Nat /\ off[l - 1] \in Nat /\ Len(seqs[l]) \in Nat
            BY <2>2, <5>1, <6>1
          <6>4. \A x, y, z \in Nat : x = y + z => y <= x
            OBVIOUS
          <6> QED
            BY <6>2, <6>3, <6>4
        <5>5. i \in 0 .. n /\ k \in 0 .. n /\ i <= k
          BY <1>0, <4>1
        <5>6. off[i] <= off[k]
          BY <1>0, <2>3, <5>2, <5>5, Ascends
        <5>7. off[i] = off[i - 1] + Len(seqs[i]) /\ Len(seqs[i]) \in Nat /\ off[i - 1] \in Nat /\ off[k] \in Nat
          <6>1. i - 1 \in 0 .. n /\ k \in 0 .. n
            BY <1>0, <4>1
          <6> QED
            BY <2>2, <2>5, <4>1, <5>1, <6>1
        <5> QED
          BY <5>6, <5>7, SMTT(30)
      <4>4. f[k + 1][off[i - 1] + j] = f[k][off[i - 1] + j]
        BY <2>5, <4>1, <4>3, SMTT(30)
      <4> QED
        BY <4>2, <4>4
    <3> QED
      BY <3>1, <3>2
  <2> HIDE DEF T, Holds
  <2>8. \A k \in Nat : k \in T
    BY <2>6, <2>7, Induction
  <2>9. Holds(n)
    BY <1>0, <2>4, <2>8 DEF T
  <2>10. Len(FlattenSeq(seqs)) = off[n]
    BY <2>1, <2>3, <2>4
  <2>11. Strung(off, seqs, FlattenSeq(seqs))
    BY <2>1, <2>3, <2>5, <2>9, <2>10 DEF Strung, Holds
  <2> QED
    BY <2>1, <2>4, <2>11
<1> QED
  BY <1>1, <1>2
=============================================================================
