--------------------------- MODULE RecursionFacts ---------------------------
(***************************************************************************)
(* What recursive functions of the models compute, by induction.  A        *)
(* recursive function is the one chosen among those that satisfy its       *)
(* equation, so each is shown to exist first: the iterates of a function,  *)
(* and the sum of the sizes of a finite set of cache lines, which          *)
(* ProxyCache writes as a fold.                                            *)
(***************************************************************************)
EXTENDS Integers, FiniteSetsExt, FiniteSetTheorems, WellFoundedInduction, TLAPS

\* A set of numbers with 0 and every successor is all of them.
LEMMA AllNumbers ==
  ASSUME NEW T, 0 \in T, \A n \in Nat : n \in T => n + 1 \in T
  PROVE  \A n \in Nat : n \in T
<1> DEFINE R == OpToRel(<, Nat)
           F == Nat \ T
<1>1. IsWellFoundedOn(R, Nat)
  BY NatLessThanWellFounded
<1>2. \A x, y \in Nat : <<x, y>> \in R <=> x < y
  BY DEF OpToRel
<1> SUFFICES ASSUME F # {} PROVE FALSE
  OBVIOUS
<1>3. F \in SUBSET Nat
  OBVIOUS
<1> HIDE DEF R, F
<1>4. PICK x \in F : \A y \in F : ~ (<<y, x>> \in R)
  BY <1>1, <1>3, WFMin, Zenon
<1>5. \A y \in F : ~ (y < x)
  BY <1>2, <1>3, <1>4
<1>6. x \in Nat /\ x \notin T /\ x # 0
  BY DEF F
<1>7. x - 1 \in Nat /\ x - 1 \in T
  BY <1>5, <1>6 DEF F
<1> QED
  BY <1>6, <1>7

\* f lists what a loop of n turns computes, of which the i-th takes x to G[<<x, i>>].
Iteration(f, D, base, G, n) ==
  /\ f \in [0..n -> D] /\ f[0] = base
  /\ \A i \in 1..n : f[i] = G[<<f[i-1], i>>]

\* A value that G takes from each turn of a loop to the next.
LEMMA Iterates ==
  ASSUME NEW D, NEW base \in D, NEW G \in [D \X Nat -> D], NEW n \in Nat
  PROVE  \E f : Iteration(f, D, base, G, n)
<1> DEFINE Good(f, k) == f[0] = base /\ \A i \in 1..k : f[i] = G[<<f[i-1], i>>]
           T == {k \in Nat : \E f \in [0..k -> D] : Good(f, k)}
<1>1. 0 \in T
  <2> DEFINE f == [i \in 0..0 |-> base]
  <2>1. f \in [0..0 -> D] /\ Good(f, 0)
    OBVIOUS
  <2> HIDE DEF f
  <2> QED
    BY <2>1
<1>2. ASSUME NEW k \in Nat, k \in T
      PROVE  k + 1 \in T
  <2>1. PICK f \in [0..k -> D] : Good(f, k)
    BY <1>2
  <2> DEFINE h == [i \in 0..k+1 |-> IF i <= k THEN f[i] ELSE G[<<f[k], k + 1>>]]
  <2>2. h \in [0..k+1 -> D]
    <3>1. f[k] \in D /\ G[<<f[k], k + 1>>] \in D
      OBVIOUS
    <3> QED
      BY <3>1
  <2>3. /\ \A i \in 0..k : h[i] = f[i]
        /\ h[k + 1] = G[<<f[k], k + 1>>]
    OBVIOUS
  <2> HIDE DEF h
  <2>4. ASSUME NEW i \in 1..k+1
        PROVE  h[i] = G[<<h[i-1], i>>]
    <3>1. i - 1 \in 0..k /\ h[i-1] = f[i-1]
      BY <2>3
    <3>2. CASE i = k + 1
      BY <2>3, <3>1, <3>2
    <3>3. CASE i # k + 1
      <4>1. i \in 1..k /\ i \in 0..k
        BY <3>3
      <4> QED
        BY <2>1, <2>3, <3>1, <4>1
    <3> QED
      BY <3>2, <3>3
  <2> QED
    BY <2>1, <2>2, <2>3, <2>4
<1> HIDE DEF T
<1>3. n \in T
  BY <1>1, <1>2, AllNumbers
<1> QED
  BY <1>3 DEF T, Iteration

\* f lists the powers of 2 up to w, by doubling.
Doubles(f, w) == f = [k \in 0..w |-> IF k = 0 THEN 1 ELSE 2 * f[k-1]]

\* There is such a function, and what it lists.
LEMMA Doublings ==
  ASSUME NEW w \in Nat
  PROVE  /\ \E f : Doubles(f, w)
         /\ \A f : Doubles(f, w) => /\ f \in [0..w -> Nat \ {0}] /\ f[0] = 1
                                   /\ \A k \in 1..w : f[k] = 2 * f[k-1]
<1> DEFINE D == Nat \ {0}
           G == [z \in D \X Nat |-> 2 * z[1]]
<1>1. PICK f : Iteration(f, D, 1, G, w)
  <2>1. 1 \in D /\ G \in [D \X Nat -> D]
    OBVIOUS
  <2> HIDE DEF G, D
  <2> QED
    BY <2>1, Iterates
<1>2. f \in [0..w -> D] /\ f[0] = 1 /\ \A k \in 1..w : f[k] = 2 * f[k-1]
  <2>1. f \in [0..w -> D] /\ f[0] = 1 /\ \A k \in 1..w : f[k] = G[<<f[k-1], k>>]
    BY <1>1 DEF Iteration
  <2>2. \A k \in 1..w : k - 1 \in 0..w /\ k \in Nat
    OBVIOUS
  <2> HIDE DEF D
  <2>3. \A k \in 1..w : f[k-1] \in D /\ <<f[k-1], k>> \in D \X Nat
    BY <2>1, <2>2
  <2> QED
    BY <2>1, <2>3
<1>3. Doubles(f, w)
  BY <1>2 DEF Doubles
<1>4. ASSUME NEW p, Doubles(p, w)
      PROVE  p \in [0..w -> D] /\ p[0] = 1 /\ \A k \in 1..w : p[k] = 2 * p[k-1]
  <2>1. \A k \in 0..w : p[k] = IF k = 0 THEN 1 ELSE 2 * p[k-1]
    BY <1>4 DEF Doubles
  <2>2. DOMAIN p = 0..w /\ p = [k \in 0..w |-> p[k]]
    BY <1>4 DEF Doubles
  <2> DEFINE T == {k \in Nat : k <= w => p[k] \in D}
  <2>3. 0 \in T
    BY <2>1
  <2>4. \A k \in Nat : k \in T => k + 1 \in T
    BY <2>1
  <2>5. \A k \in Nat : k \in T
    <3> HIDE DEF T
    <3> QED
      BY <2>3, <2>4, AllNumbers
  <2>6. \A k \in 0..w : p[k] \in D
    BY <2>5
  <2> HIDE DEF T
  <2>7. \A k \in 1..w : p[k] = 2 * p[k-1]
    BY <2>1
  <2>8. p \in [0..w -> D]
    BY <2>2, <2>6, Zenon
  <2>9. p[0] = 1
    BY <2>1
  <2> QED
    BY <2>7, <2>8, <2>9
<1> QED
  BY <1>3, <1>4

-----------------------------------------------------------------------------
\* The sizes that m gives to the lines of S together.
Total(m, S) == FoldSet(LAMBDA l, sum : sum + m[l].size, 0, S)

Chosen(s) == CHOOSE x \in s : TRUE

\* What the fold of s adds, when g folds the smaller sets.
Turn(g, m, s) == IF s = {} THEN 0 ELSE g[s \ {Chosen(s)}] + m[Chosen(s)].size

IsFold(g, m, U) == g = [s \in SUBSET U |-> Turn(g, m, s)]

UpTo(U, n) == {s \in SUBSET U : Cardinality(s) <= n}

\* Removing an element leaves a smaller set.
LEMMA Smaller ==
  ASSUME NEW U, IsFiniteSet(U), NEW s \in SUBSET U, NEW x \in s
  PROVE  /\ IsFiniteSet(s) /\ Cardinality(s) \in Nat
         /\ s \ {x} \in SUBSET U
         /\ Cardinality(s \ {x}) = Cardinality(s) - 1 /\ Cardinality(s \ {x}) \in Nat
BY FS_Subset, FS_RemoveElement, FS_CardinalityType

LEMMA ChosenIsIn ==
  ASSUME NEW s, s # {}
  PROVE  Chosen(s) \in s
BY DEF Chosen

\* The fold exists, on ever larger subsets.
LEMMA FoldExists ==
  ASSUME NEW m, NEW U, IsFiniteSet(U)
  PROVE  \E g : IsFold(g, m, U)
<1> DEFINE T == {n \in Nat : \E g : g = [s \in UpTo(U, n) |-> Turn(g, m, s)]}
<1>1. 0 \in T
  <2> DEFINE g == [s \in UpTo(U, 0) |-> 0]
  <2>1. \A s \in UpTo(U, 0) : s = {}
    BY FS_Subset, FS_CardinalityType, FS_EmptySet DEF UpTo
  <2>2. g = [s \in UpTo(U, 0) |-> Turn(g, m, s)]
    BY <2>1 DEF Turn
  <2> HIDE DEF g
  <2> QED
    BY <2>2
<1>2. ASSUME NEW n \in Nat, n \in T
      PROVE  n + 1 \in T
  <2>1. PICK g : g = [s \in UpTo(U, n) |-> Turn(g, m, s)]
    BY <1>2
  <2> DEFINE h == [s \in UpTo(U, n + 1) |-> Turn(g, m, s)]
  <2>2. ASSUME NEW s \in UpTo(U, n + 1)
        PROVE  h[s] = Turn(h, m, s)
    <3> DEFINE r == s \ {Chosen(s)}
    <3>1. CASE s = {}
      BY <3>1 DEF Turn
    <3>2. CASE s # {}
      <4>1. r \in UpTo(U, n) /\ r \in UpTo(U, n + 1)
        BY <3>2, ChosenIsIn, Smaller DEF UpTo
      <4> HIDE DEF r
      <4>2. h[r] = Turn(g, m, r) /\ g[r] = Turn(g, m, r)
        BY <2>1, <4>1
      <4>3. h[s] = Turn(g, m, s)
        OBVIOUS
      <4> HIDE DEF h
      <4> QED
        BY <3>2, <4>2, <4>3 DEF Turn, r
    <3> QED
      BY <3>1, <3>2
  <2>3. h = [s \in UpTo(U, n + 1) |-> h[s]]
    OBVIOUS
  <2> HIDE DEF h
  <2>4. h = [s \in UpTo(U, n + 1) |-> Turn(h, m, s)]
    BY <2>2, <2>3
  <2> QED
    BY <2>4
<1> HIDE DEF T
<1>3. Cardinality(U) \in Nat
  BY FS_CardinalityType
<1>4. Cardinality(U) \in T
  BY <1>1, <1>2, <1>3, AllNumbers
<1>5. UpTo(U, Cardinality(U)) = SUBSET U
  BY FS_Subset DEF UpTo
<1> QED
  BY <1>4, <1>5 DEF T, IsFold

\* A fold adds the size of any element, not only of the one it chooses.
LEMMA FoldAdds ==
  ASSUME NEW g, NEW m, NEW U, IsFiniteSet(U), IsFold(g, m, U),
         \A x \in U : m[x].size \in Nat
  PROVE  /\ g[{}] = 0
         /\ \A s \in SUBSET U :
              g[s] \in Nat /\ \A x \in s : g[s] = g[s \ {x}] + m[x].size
<1> DEFINE Adds(s) == g[s] \in Nat /\ \A x \in s : g[s] = g[s \ {x}] + m[x].size
           T == {n \in Nat : \A s \in UpTo(U, n) : Adds(s)}
<1>0. \A s \in SUBSET U : g[s] = Turn(g, m, s)
  BY DEF IsFold
<1>e. g[{}] = 0
  BY <1>0 DEF Turn
<1>a. Adds({})
  BY <1>e
<1>1. 0 \in T
  <2>1. \A s \in UpTo(U, 0) : s = {}
    BY FS_Subset, FS_CardinalityType, FS_EmptySet DEF UpTo
  <2> HIDE DEF Adds
  <2> QED
    BY <1>a, <2>1
<1>2. ASSUME NEW n \in Nat, n \in T
      PROVE  n + 1 \in T
  <2>1. ASSUME NEW s \in UpTo(U, n + 1), s # {}
        PROVE  Adds(s)
    <3> DEFINE y == Chosen(s)
               a == s \ {y}
    <3>1. y \in s /\ s \in SUBSET U
      BY <2>1, ChosenIsIn DEF UpTo
    <3>2. a \in UpTo(U, n)
      BY <3>1, Smaller DEF UpTo
    <3>3. g[s] = g[a] + m[y].size
      BY <1>0, <2>1, <3>1 DEF Turn
    <3> HIDE DEF y
    <3>4. g[a] \in Nat /\ m[y].size \in Nat
      BY <1>2, <3>1, <3>2
    <3>5. ASSUME NEW x \in s, x # y
          PROVE  g[s] = g[s \ {x}] + m[x].size
      <4> DEFINE b == s \ {x}
                 c == s \ {x, y}
      <4>1. b \in UpTo(U, n)
        BY <3>1, Smaller DEF UpTo
      <4>2. a \ {x} = c /\ b \ {y} = c /\ x \in a /\ y \in b
        BY <3>1, <3>5
      <4>3. c \in UpTo(U, n)
        <5>1. a \in SUBSET U /\ x \in a /\ Cardinality(a) <= n
          BY <3>2, <4>2 DEF UpTo
        <5>2. Cardinality(a \ {x}) = Cardinality(a) - 1 /\ Cardinality(a) \in Nat
          BY <5>1, Smaller
        <5>3. a \ {x} \in SUBSET U /\ Cardinality(a \ {x}) <= n
          BY <5>1, <5>2
        <5> QED
          BY <5>3, <4>2 DEF UpTo
      <4> HIDE DEF a, b, c
      <4>4. g[a] = g[c] + m[x].size /\ g[b] = g[c] + m[y].size /\ g[c] \in Nat
        BY <1>2, <3>2, <4>1, <4>2, <4>3
      <4>5. m[x].size \in Nat
        BY <3>1
      <4>6. g[s] = g[b] + m[x].size
        BY <3>3, <3>4, <4>4, <4>5
      <4> QED
        BY <4>6 DEF b
    <3>6. g[s] \in Nat
      BY <3>3, <3>4
    <3> QED
      BY <3>3, <3>5, <3>6
  <2> HIDE DEF Adds
  <2>2. \A s \in UpTo(U, n + 1) : Adds(s)
    BY <1>a, <2>1
  <2> QED
    BY <2>2
<1> HIDE DEF T
<1>3. \A n \in Nat : n \in T
  BY <1>1, <1>2, AllNumbers
<1>4. ASSUME NEW s \in SUBSET U
      PROVE  Adds(s)
  <2>1. Cardinality(s) \in Nat /\ s \in UpTo(U, Cardinality(s))
    BY FS_Subset, FS_CardinalityType DEF UpTo
  <2> QED
    BY <1>3, <2>1 DEF T
<1> QED
  BY <1>e, <1>4

\* Two folds agree on the sets that both know, when the sizes do.
LEMMA FoldsAgree ==
  ASSUME NEW g, NEW m, NEW U, IsFiniteSet(U), IsFold(g, m, U),
         NEW h, NEW k, NEW V \in SUBSET U, IsFold(h, k, V),
         \A x \in V : m[x].size = k[x].size
  PROVE  g[V] = h[V]
<1> DEFINE T == {n \in Nat : \A s \in UpTo(V, n) : g[s] = h[s]}
<1>0. /\ \A s \in SUBSET V : g[s] = Turn(g, m, s) /\ h[s] = Turn(h, k, s)
      /\ IsFiniteSet(V)
  BY FS_Subset DEF IsFold
<1>1. 0 \in T
  <2>1. \A s \in UpTo(V, 0) : s = {}
    BY <1>0, FS_Subset, FS_CardinalityType, FS_EmptySet DEF UpTo
  <2> QED
    BY <1>0, <2>1 DEF Turn
<1>2. ASSUME NEW n \in Nat, n \in T
      PROVE  n + 1 \in T
  <2>1. ASSUME NEW s \in UpTo(V, n + 1), s # {}
        PROVE  g[s] = h[s]
    <3>1. Chosen(s) \in s /\ s \in SUBSET V
      BY <2>1, ChosenIsIn DEF UpTo
    <3>2. s \ {Chosen(s)} \in UpTo(V, n)
      BY <1>0, <3>1, Smaller DEF UpTo
    <3>3. g[s \ {Chosen(s)}] = h[s \ {Chosen(s)}]
      BY <1>2, <3>2
    <3> QED
      BY <1>0, <2>1, <3>1, <3>3 DEF Turn
  <2>2. \A s \in UpTo(V, n + 1) : g[s] = h[s]
    BY <1>0, <2>1 DEF Turn
  <2> QED
    BY <2>2
<1> HIDE DEF T
<1>3. Cardinality(V) \in Nat /\ V \in UpTo(V, Cardinality(V))
  BY <1>0, FS_CardinalityType DEF UpTo
<1>4. Cardinality(V) \in T
  BY <1>1, <1>2, <1>3, AllNumbers
<1> QED
  BY <1>3, <1>4 DEF T

\* The sum is a fold of the whole set.
LEMMA TotalIsFold ==
  ASSUME NEW m, NEW S, IsFiniteSet(S)
  PROVE  \E g : IsFold(g, m, S) /\ Total(m, S) = g[S]
<1> DEFINE g == CHOOSE f : f = [s \in SUBSET S |-> Turn(f, m, s)]
<1>1. IsFold(g, m, S)
  BY FoldExists DEF IsFold
<1>2. Total(m, S) = g[S]
  BY DEF Total, FoldSet, MapThenFoldSet, Turn, Chosen
<1> QED
  BY <1>1, <1>2

\* The sum of no lines.
LEMMA TotalOfNone == \A m : Total(m, {}) = 0
<1> TAKE m
<1>1. PICK g : IsFold(g, m, {}) /\ Total(m, {}) = g[{}]
  BY TotalIsFold, FS_EmptySet
<1> QED
  BY <1>1 DEF IsFold, Turn

\* The sum depends on the sizes of the lines summed and on nothing else.
LEMMA TotalSame ==
  ASSUME NEW m, NEW k, NEW S, IsFiniteSet(S), \A x \in S : m[x].size = k[x].size
  PROVE  Total(m, S) = Total(k, S)
<1>1. PICK g : IsFold(g, m, S) /\ Total(m, S) = g[S]
  BY TotalIsFold
<1>2. PICK h : IsFold(h, k, S) /\ Total(k, S) = h[S]
  BY TotalIsFold
<1> QED
  BY <1>1, <1>2, FoldsAgree

\* A line that goes takes its size with it.
LEMMA TotalRemove ==
  ASSUME NEW m, NEW S, IsFiniteSet(S), \A x \in S : m[x].size \in Nat, NEW l \in S
  PROVE  /\ Total(m, S) = Total(m, S \ {l}) + m[l].size
         /\ Total(m, S) \in Nat /\ Total(m, S \ {l}) \in Nat
<1>1. PICK g : IsFold(g, m, S) /\ Total(m, S) = g[S]
  BY TotalIsFold
<1>2. IsFiniteSet(S \ {l}) /\ S \ {l} \in SUBSET S
  BY FS_Subset
<1>3. PICK h : IsFold(h, m, S \ {l}) /\ Total(m, S \ {l}) = h[S \ {l}]
  BY <1>2, TotalIsFold
<1>4. g[S \ {l}] = h[S \ {l}]
  BY <1>1, <1>2, <1>3, FoldsAgree
<1>5. g[S] \in Nat /\ g[S \ {l}] \in Nat /\ g[S] = g[S \ {l}] + m[l].size
  BY <1>1, <1>2, FoldAdds
<1> QED
  BY <1>1, <1>3, <1>4, <1>5
=============================================================================
