---------------------------- MODULE BtestProofs ----------------------------
(***************************************************************************)
(* The data lab: what the operators of C do to words of 32 bits, each      *)
(* puzzle against its test for every word, and btest.                      *)
(***************************************************************************)
EXTENDS BtestProgram, Bits, SequencesExt, SequenceTheorems, RecursionFacts

-----------------------------------------------------------------------------
(* Words of 32 bits.                                                       *)

\* All of them.
Words == [Bit -> {0, 1}]

\* 2^k, also for the bit of the sign.
Half == 2147483648
Pow(k) == IF k = 31 THEN Half ELSE pow2[k]

\* The bound of the ints of C.
LEMMA HalfIs == Half \in Nat /\ Half > 1000
BY SMT DEF Half

\* The recursive function exists: each power is twice the one before.
LEMMA WordPowers ==
  /\ pow2 \in [0..30 -> Nat \ {0}] /\ pow2[0] = 1
  /\ \A k \in 1..30 : pow2[k] = 2 * pow2[k-1]
<1> DEFINE Is(f) == Doubles(f, 30)
<1>1. pow2 = CHOOSE f : Is(f)
  BY DEF pow2, Doubles
<1>2. \E f : Is(f)
  BY Doublings
<1> HIDE DEF Is
<1>3. Is(pow2)
  BY <1>1, <1>2
<1> QED
  BY <1>3, Doublings DEF Is

\* The powers that are written out.
LEMMA PowerValues ==
  /\ pow2[0] = 1 /\ pow2[1] = 2 /\ pow2[2] = 4 /\ pow2[3] = 8 /\ pow2[4] = 16
  /\ pow2[5] = 32 /\ pow2[6] = 64 /\ pow2[7] = 128 /\ pow2[8] = 256
  /\ pow2[22] = 4194304 /\ pow2[23] = 8388608 /\ pow2[24] = 16777216
  /\ pow2[30] = 1073741824
<1>1. \A k \in 0..29 : pow2[k + 1] = 2 * pow2[k]
  <2> TAKE k \in 0..29
  <2>1. k + 1 \in 1..30 /\ (k + 1) - 1 = k
    OBVIOUS
  <2> QED
    BY <2>1, WordPowers
<1>2. pow2[0] = 1
  BY WordPowers
<1>3. pow2[0+1] = 2 /\ pow2[1+1] = 4 /\ pow2[2+1] = 8 /\ pow2[3+1] = 16 /\ pow2[4+1] = 32
  BY <1>1, <1>2, SMT
<1>4. pow2[5+1] = 64 /\ pow2[6+1] = 128 /\ pow2[7+1] = 256 /\ pow2[8+1] = 512 /\ pow2[9+1] = 1024
  BY <1>1, <1>3, SMT
<1>5. pow2[10+1] = 2048 /\ pow2[11+1] = 4096 /\ pow2[12+1] = 8192 /\ pow2[13+1] = 16384 /\ pow2[14+1] = 32768
  BY <1>1, <1>4, SMT
<1>6. pow2[15+1] = 65536 /\ pow2[16+1] = 131072 /\ pow2[17+1] = 262144 /\ pow2[18+1] = 524288 /\ pow2[19+1] = 1048576
  BY <1>1, <1>5, SMT
<1>7. pow2[20+1] = 2097152 /\ pow2[21+1] = 4194304 /\ pow2[22+1] = 8388608 /\ pow2[23+1] = 16777216 /\ pow2[24+1] = 33554432
  BY <1>1, <1>6, SMT
<1>8. pow2[25+1] = 67108864 /\ pow2[26+1] = 134217728 /\ pow2[27+1] = 268435456 /\ pow2[28+1] = 536870912 /\ pow2[29+1] = 1073741824
  BY <1>1, <1>7, SMT
<1> QED
  BY <1>2, <1>3, <1>4, <1>7, <1>8, SMT

\* What the powers are, by one name.
LEMMA PowIs ==
  /\ Pow(0) = 1
  /\ \A k \in 0..31 : Pow(k) \in Nat \ {0}
  /\ \A k \in 0..30 : Pow(k + 1) = 2 * Pow(k)
<1>1. Pow(0) = 1
  BY WordPowers DEF Pow
<1>2. \A k \in 0..31 : Pow(k) \in Nat \ {0}
  BY WordPowers, HalfIs, SMT DEF Pow
<1>3. ASSUME NEW k \in 0..30
      PROVE  Pow(k + 1) = 2 * Pow(k)
  <2>1. CASE k = 30
    BY <2>1, PowerValues, SMT DEF Pow, Half
  <2>2. CASE k # 30
    <3>1. k + 1 \in 1..30 /\ (k + 1) - 1 = k /\ k # 31 /\ k + 1 # 31
      BY <2>2
    <3> QED
      BY <3>1, WordPowers DEF Pow
  <2> QED
    BY <2>1, <2>2
<1> QED
  BY <1>1, <1>2, <1>3

-----------------------------------------------------------------------------
\* v sums the n bits of x from lo.
Sums(v, x, lo, n) == v = [k \in 0..n |-> IF k = 0 THEN 0 ELSE v[k-1] + x[lo + k - 1] * pow2[k-1]]

\* The value of the n bits of x from lo.
Part(x, lo, n) == Field(x, lo, lo + n - 1)

\* The sums of the bits exist.
LEMMA SumsExist ==
  ASSUME NEW x \in Words, NEW lo \in Nat, NEW n \in 0..31, lo + n <= 32
  PROVE  \E v : Sums(v, x, lo, n)
<1> DEFINE G == [z \in Nat \X Nat |-> IF z[2] \in 1..n THEN z[1] + x[lo + z[2] - 1] * pow2[z[2] - 1] ELSE 0]
<1>1. PICK f : Iteration(f, Nat, 0, G, n)
  <2>1. ASSUME NEW z \in Nat \X Nat, z[2] \in 1..n
        PROVE  z[1] + x[lo + z[2] - 1] * pow2[z[2] - 1] \in Nat
    <3>1. lo + z[2] - 1 \in 0..31 /\ z[2] - 1 \in 0..30 /\ z[1] \in Nat
      BY <2>1
    <3>2. x[lo + z[2] - 1] \in {0, 1} /\ pow2[z[2] - 1] \in Nat
      BY <3>1, WordPowers DEF Words, Bit
    <3> QED
      BY <3>1, <3>2
  <2> DEFINE D == Nat
  <2>2. 0 \in D /\ G \in [D \X Nat -> D] /\ n \in Nat
    BY <2>1
  <2> HIDE DEF G, D
  <2>3. \E f : Iteration(f, D, 0, G, n)
    BY <2>2, Iterates
  <2> QED
    BY <2>3 DEF D
<1>2. f \in [0..n -> Nat] /\ f[0] = 0 /\ \A k \in 1..n : f[k] = G[<<f[k-1], k>>]
  BY <1>1 DEF Iteration
<1>3. \A k \in 1..n : f[k-1] \in Nat /\ k \in Nat
  BY <1>2
<1>4. \A k \in 1..n : f[k] = f[k-1] + x[lo + k - 1] * pow2[k-1]
  BY <1>2, <1>3
<1> HIDE DEF G
<1>5. \A k \in 0..n : f[k] = IF k = 0 THEN 0 ELSE f[k-1] + x[lo + k - 1] * pow2[k-1]
  <2>1. \A k \in 0..n : k = 0 \/ k \in 1..n
    OBVIOUS
  <2> QED
    BY <1>2, <1>4, <2>1
<1>6. f = [k \in 0..n |-> IF k = 0 THEN 0 ELSE f[k-1] + x[lo + k - 1] * pow2[k-1]]
  <2> DEFINE F(k) == IF k = 0 THEN 0 ELSE f[k-1] + x[lo + k - 1] * pow2[k-1]
  <2>1. f \in [0..n -> Nat] /\ \A k \in 0..n : f[k] = F(k)
    BY <1>2, <1>5
  <2> HIDE DEF F
  <2>2. f = [k \in 0..n |-> F(k)]
    BY <2>1
  <2> QED
    BY <2>2 DEF F
<1> QED
  BY <1>6 DEF Sums

\* The sum of a field is that of such a function, and it grows bit by bit.
LEMMA PartIs ==
  ASSUME NEW x \in Words, NEW lo \in Nat, NEW n \in 0..31, lo + n <= 32
  PROVE  \E v : Sums(v, x, lo, n) /\ Part(x, lo, n) = v[n]
<1> DEFINE Is(v) == Sums(v, x, lo, n)
           u == CHOOSE v : Is(v)
<1>1. \E v : Is(v)
  BY SumsExist
<1>2. Part(x, lo, n) = u[n]
  <2>1. (lo + n - 1) - lo + 1 = n
    OBVIOUS
  <2> QED
    BY <2>1 DEF Part, Field, Sums
<1> HIDE DEF Is
<1>3. Is(u)
  BY <1>1
<1> QED
  BY <1>2, <1>3 DEF Is

\* A part grows by its next bit.
LEMMA PartStep ==
  ASSUME NEW x \in Words, NEW lo \in Nat
  PROVE  /\ lo <= 32 => Part(x, lo, 0) = 0
         /\ \A n \in 0..30 : lo + n <= 31 =>
              Part(x, lo, n + 1) = Part(x, lo, n) + x[lo + n] * pow2[n]
<1>1. ASSUME lo <= 32
      PROVE  Part(x, lo, 0) = 0
  <2>1. PICK v : Sums(v, x, lo, 0) /\ Part(x, lo, 0) = v[0]
    <3>1. 0 \in 0..31 /\ lo + 0 <= 32
      BY <1>1
    <3> QED
      BY <3>1, PartIs
  <2> QED
    BY <2>1 DEF Sums
<1>2. ASSUME NEW n \in 0..30, lo + n <= 31
      PROVE  Part(x, lo, n + 1) = Part(x, lo, n) + x[lo + n] * pow2[n]
  <2>1. n + 1 \in 0..31 /\ n \in 0..31 /\ lo + (n + 1) <= 32 /\ lo + n <= 32
    BY <1>2
  <2>2. PICK v : Sums(v, x, lo, n + 1) /\ Part(x, lo, n + 1) = v[n + 1]
    BY <2>1, PartIs
  <2>3. PICK u : Sums(u, x, lo, n) /\ Part(x, lo, n) = u[n]
    BY <2>1, PartIs
  <2>4. \A k \in 0..n+1 : v[k] = IF k = 0 THEN 0 ELSE v[k-1] + x[lo + k - 1] * pow2[k-1]
    BY <2>2 DEF Sums
  <2>5. \A k \in 0..n : u[k] = IF k = 0 THEN 0 ELSE u[k-1] + x[lo + k - 1] * pow2[k-1]
    BY <2>3 DEF Sums
  <2> DEFINE T == {k \in Nat : k <= n => v[k] = u[k]}
  <2>6. 0 \in T
    BY <2>4, <2>5
  <2>7. ASSUME NEW k \in Nat, k \in T
        PROVE  k + 1 \in T
    <3> SUFFICES ASSUME k + 1 <= n PROVE v[k + 1] = u[k + 1]
      OBVIOUS
    <3>1. k + 1 \in 0..n /\ k + 1 \in 0..n+1 /\ k + 1 # 0 /\ (k + 1) - 1 = k
      OBVIOUS
    <3>2. v[k] = u[k]
      BY <2>7
    <3> QED
      BY <2>4, <2>5, <3>1, <3>2
  <2>8. n \in T
    <3> HIDE DEF T
    <3> QED
      BY <2>6, <2>7, AllNumbers
  <2>9. n + 1 \in 0..n+1 /\ n + 1 # 0 /\ (n + 1) - 1 = n /\ lo + (n + 1) - 1 = lo + n
    OBVIOUS
  <2>10. v[n + 1] = v[n] + x[lo + n] * pow2[n]
    BY <2>4, <2>9
  <2> QED
    BY <2>2, <2>3, <2>8, <2>10
<1> QED
  BY <1>1, <1>2

\* The value of n bits is below 2^n, and it is 0 when the bits are.
LEMMA PartRange ==
  ASSUME NEW x \in Words, NEW lo \in Nat, NEW n \in 0..31, lo + n <= 32
  PROVE  Part(x, lo, n) \in Nat /\ Part(x, lo, n) < Pow(n)
<1> DEFINE T == {k \in Nat : k <= n => Part(x, lo, k) \in Nat /\ Part(x, lo, k) < Pow(k)}
<1>1. 0 \in T
  <2>1. lo <= 32
    OBVIOUS
  <2>2. Part(x, lo, 0) = 0
    BY <2>1, PartStep
  <2> QED
    BY <2>2, PowIs
<1>2. ASSUME NEW k \in Nat, k \in T
      PROVE  k + 1 \in T
  <2> SUFFICES ASSUME k + 1 <= n
               PROVE  Part(x, lo, k + 1) \in Nat /\ Part(x, lo, k + 1) < Pow(k + 1)
    OBVIOUS
  <2>1. k \in 0..30 /\ lo + k <= 31 /\ lo + k \in Bit /\ k # 31
    BY DEF Bit
  <2>2. Part(x, lo, k + 1) = Part(x, lo, k) + x[lo + k] * pow2[k]
    BY <2>1, PartStep
  <2>3. Part(x, lo, k) \in Nat /\ Part(x, lo, k) < Pow(k)
    BY <1>2
  <2>4. Pow(k + 1) = 2 * Pow(k) /\ Pow(k) = pow2[k] /\ pow2[k] \in Nat
    BY <2>1, PowIs, WordPowers DEF Pow
  <2>5. x[lo + k] = 0 \/ x[lo + k] = 1
    BY <2>1 DEF Words
  <2>6. x[lo + k] * pow2[k] = 0 \/ x[lo + k] * pow2[k] = pow2[k]
    BY <2>4, <2>5
  <2> QED
    BY <2>2, <2>3, <2>4, <2>6
<1> HIDE DEF T
<1>3. n \in T
  BY <1>1, <1>2, AllNumbers
<1> QED
  BY <1>3 DEF T

\* The last bit of a part, and the part without it.
LEMMA PartLast ==
  ASSUME NEW x \in Words, NEW lo \in Nat, NEW n \in 0..30, lo + n <= 31
  PROVE  /\ lo + n \in Bit
         /\ x[lo + n] = 0 => Part(x, lo, n + 1) = Part(x, lo, n)
         /\ x[lo + n] = 1 => Part(x, lo, n + 1) = Part(x, lo, n) + Pow(n)
         /\ Pow(n + 1) = 2 * Pow(n) /\ Pow(n) \in Nat \ {0}
         /\ Part(x, lo, n) \in Nat /\ Part(x, lo, n) < Pow(n)
<1>1. lo + n \in Bit /\ n # 31 /\ n \in 0..31 /\ lo + n <= 32
  BY DEF Bit
<1>2. Part(x, lo, n + 1) = Part(x, lo, n) + x[lo + n] * pow2[n]
  BY PartStep
<1>3. Pow(n) = pow2[n] /\ Pow(n) \in Nat \ {0} /\ Pow(n + 1) = 2 * Pow(n)
  BY <1>1, PowIs DEF Pow
<1>4. Part(x, lo, n) \in Nat /\ Part(x, lo, n) < Pow(n)
  BY <1>1, PartRange
<1> QED
  BY <1>1, <1>2, <1>3, <1>4

\* Bits that agree from some place on have parts that differ by the rest only.
LEMMA PartZero ==
  ASSUME NEW x \in Words, NEW lo \in Nat, NEW n \in 0..31, lo + n <= 32
  PROVE  /\ (\A k \in 0..n-1 : x[lo + k] = 0) => Part(x, lo, n) = 0
         /\ \A m \in 0..n : Part(x, lo, n) >= Part(x, lo, m)
         /\ \A k \in 0..n-1 : x[lo + k] = 1 => Part(x, lo, n) >= Pow(k)
         /\ \A m \in 0..n : (\A k \in m..n-1 : x[lo + k] = 0) => Part(x, lo, n) = Part(x, lo, m)
<1> DEFINE Good(i) == /\ \A m \in 0..i : Part(x, lo, i) >= Part(x, lo, m)
                      /\ \A k \in 0..i-1 : x[lo + k] = 1 => Part(x, lo, i) >= Pow(k)
                      /\ \A m \in 0..i : (\A k \in m..i-1 : x[lo + k] = 0)
                                            => Part(x, lo, i) = Part(x, lo, m)
           T == {i \in Nat : i <= n => Good(i)}
<1>0. \A i \in 0..n : Part(x, lo, i) \in Nat
  <2> TAKE i \in 0..n
  <2>1. i \in 0..31 /\ lo + i <= 32
    OBVIOUS
  <2> QED
    BY <2>1, PartRange
<1>1. 0 \in T
  BY <1>0
<1>2. ASSUME NEW i \in Nat, i \in T
      PROVE  i + 1 \in T
  <2> SUFFICES ASSUME i + 1 <= n PROVE Good(i + 1)
    <3> HIDE DEF Good
    <3> QED
      OBVIOUS
  <2>1. i \in 0..30 /\ lo + i <= 31
    OBVIOUS
  <2>2. /\ lo + i \in Bit
        /\ x[lo + i] = 0 => Part(x, lo, i + 1) = Part(x, lo, i)
        /\ x[lo + i] = 1 => Part(x, lo, i + 1) = Part(x, lo, i) + Pow(i)
        /\ Pow(i) \in Nat \ {0} /\ Part(x, lo, i) \in Nat
    BY <2>1, PartLast
  <2>3. x[lo + i] = 0 \/ x[lo + i] = 1
    BY <2>2 DEF Words
  <2>4. Good(i)
    BY <1>2
  <2>5. Part(x, lo, i + 1) >= Part(x, lo, i) /\ Part(x, lo, i + 1) \in Nat
    BY <2>2, <2>3
  <2>6. ASSUME NEW m \in 0..i+1
        PROVE  Part(x, lo, i + 1) >= Part(x, lo, m)
    <3>1. CASE m = i + 1
      BY <2>5, <3>1
    <3>2. CASE m # i + 1
      <4>1. m \in 0..i /\ m \in 0..n
        BY <3>2
      <4>2. Part(x, lo, i) >= Part(x, lo, m) /\ Part(x, lo, m) \in Nat
        BY <1>0, <2>4, <4>1
      <4> QED
        BY <2>2, <2>5, <4>2
    <3> QED
      BY <3>1, <3>2
  <2>7. ASSUME NEW k \in 0..(i + 1)-1, x[lo + k] = 1
        PROVE  Part(x, lo, i + 1) >= Pow(k)
    <3>1. CASE k = i
      BY <2>2, <2>7, <3>1
    <3>2. CASE k # i
      <4>1. k \in 0..i-1 /\ k \in 0..31
        BY <3>2
      <4>2. Part(x, lo, i) >= Pow(k) /\ Pow(k) \in Nat
        BY <2>4, <2>7, <4>1, PowIs
      <4> QED
        BY <2>2, <2>5, <4>2
    <3> QED
      BY <3>1, <3>2
  <2>8. ASSUME NEW m \in 0..i+1, \A k \in m..(i + 1)-1 : x[lo + k] = 0
        PROVE  Part(x, lo, i + 1) = Part(x, lo, m)
    <3>1. CASE m # i + 1
      <4>1. m \in 0..i /\ i \in m..(i + 1)-1 /\ \A k \in m..i-1 : k \in m..(i + 1)-1
        BY <3>1
      <4>2. x[lo + i] = 0 /\ \A k \in m..i-1 : x[lo + k] = 0
        BY <2>8, <4>1
      <4> QED
        BY <2>2, <2>4, <4>1, <4>2
    <3> QED
      BY <3>1
  <2> HIDE DEF T
  <2> QED
    BY <2>6, <2>7, <2>8
<1> HIDE DEF T
<1>3. n \in T
  BY <1>1, <1>2, AllNumbers
<1>4. Good(n)
  BY <1>3 DEF T
<1>5. Part(x, lo, 0) = 0
  BY PartStep
<1>6. ASSUME \A k \in 0..n-1 : x[lo + k] = 0
      PROVE  Part(x, lo, n) = 0
  BY <1>4, <1>5, <1>6
<1> QED
  BY <1>4, <1>6

\* The value of the low bits.
Low(x, n) == Part(x, 0, n)

\* The same of the low part.
LEMMA LowLast ==
  ASSUME NEW x \in Words, NEW n \in 0..30
  PROVE  /\ n \in Bit /\ x[n] \in {0, 1}
         /\ x[n] = 0 => Low(x, n + 1) = Low(x, n)
         /\ x[n] = 1 => Low(x, n + 1) = Low(x, n) + Pow(n)
         /\ Pow(n + 1) = 2 * Pow(n) /\ Pow(n) \in Nat \ {0}
         /\ Low(x, n) \in Nat /\ Low(x, n) < Pow(n)
<1>1. 0 + n <= 31 /\ 0 + n = n /\ 0 \in Nat
  OBVIOUS
<1>2. /\ 0 + n \in Bit
      /\ x[0 + n] = 0 => Part(x, 0, n + 1) = Part(x, 0, n)
      /\ x[0 + n] = 1 => Part(x, 0, n + 1) = Part(x, 0, n) + Pow(n)
      /\ Pow(n + 1) = 2 * Pow(n) /\ Pow(n) \in Nat \ {0}
      /\ Part(x, 0, n) \in Nat /\ Part(x, 0, n) < Pow(n)
  BY <1>1, PartLast
<1>3. x[n] \in {0, 1}
  BY <1>1, <1>2 DEF Words
<1> QED
  BY <1>1, <1>2, <1>3 DEF Low

\* The low part of n bits is below 2^n.
LEMMA LowRange ==
  ASSUME NEW x \in Words, NEW n \in 0..31
  PROVE  Low(x, 0) = 0 /\ Low(x, n) \in Nat /\ Low(x, n) < Pow(n)
<1>1. 0 \in Nat /\ 0 <= 32 /\ 0 + n <= 32
  OBVIOUS
<1>2. Part(x, 0, 0) = 0
  BY <1>1, PartStep
<1>3. Part(x, 0, n) \in Nat /\ Part(x, 0, n) < Pow(n)
  BY <1>1, PartRange
<1> QED
  BY <1>2, <1>3 DEF Low

\* Words with the same low part have the same bits there.
LEMMA LowInjective ==
  ASSUME NEW x \in Words, NEW y \in Words, NEW n \in 0..31, Low(x, n) = Low(y, n)
  PROVE  \A k \in 0..n-1 : x[k] = y[k]
<1> DEFINE Same(i) == Low(x, i) = Low(y, i) => \A k \in 0..i-1 : x[k] = y[k]
           T == {i \in Nat : i <= n => Same(i)}
<1>1. 0 \in T
  OBVIOUS
<1>2. ASSUME NEW i \in Nat, i \in T
      PROVE  i + 1 \in T
  <2> SUFFICES ASSUME i + 1 <= n, Low(x, i + 1) = Low(y, i + 1)
               PROVE  \A k \in 0..(i + 1)-1 : x[k] = y[k]
    OBVIOUS
  <2>1. i \in 0..30
    OBVIOUS
  <2>2. /\ x[i] \in {0, 1} /\ y[i] \in {0, 1}
        /\ x[i] = 0 => Low(x, i + 1) = Low(x, i)
        /\ x[i] = 1 => Low(x, i + 1) = Low(x, i) + Pow(i)
        /\ y[i] = 0 => Low(y, i + 1) = Low(y, i)
        /\ y[i] = 1 => Low(y, i + 1) = Low(y, i) + Pow(i)
        /\ Pow(i) \in Nat
        /\ Low(x, i) \in Nat /\ Low(x, i) < Pow(i) /\ Low(y, i) \in Nat /\ Low(y, i) < Pow(i)
    BY <2>1, LowLast
  <2>3. x[i] = y[i] /\ Low(x, i) = Low(y, i)
    BY <2>2
  <2>4. \A k \in 0..i-1 : x[k] = y[k]
    BY <1>2, <2>3
  <2> QED
    BY <2>3, <2>4
<1> HIDE DEF T
<1>3. n \in T
  BY <1>1, <1>2, AllNumbers
<1> QED
  BY <1>3 DEF T

-----------------------------------------------------------------------------
(* The operators of C on numbers. *)

\* The sum of two bits and a carry.
LEMMA BitSum ==
  ASSUME NEW p \in {0, 1}, NEW q \in {0, 1}, NEW r \in {0, 1}
  PROVE  /\ (p + q + r) % 2 \in {0, 1}
         /\ p + q + r = ((p + q + r) % 2) + (IF p + q + r >= 2 THEN 2 ELSE 0)
OBVIOUS

\* The carry of x + y into bit k.
Carry(x, y, k) ==
  IF \E l \in 0..k-1 : x[l] = 1 /\ y[l] = 1 /\ \A m \in l+1..k-1 : x[m] # y[m] THEN 1 ELSE 0

\* It comes from the bits of one place and the carry into them.
LEMMA CarryStep ==
  ASSUME NEW x \in Words, NEW y \in Words
  PROVE  /\ \A k \in Nat : Carry(x, y, k) \in {0, 1}
         /\ Carry(x, y, 0) = 0
         /\ \A k \in 0..31 :
              Carry(x, y, k + 1) = IF x[k] + y[k] + Carry(x, y, k) >= 2 THEN 1 ELSE 0
<1>1. \A k \in Nat : Carry(x, y, k) \in {0, 1}
  BY DEF Carry
<1>2. Carry(x, y, 0) = 0
  BY DEF Carry
<1>3. ASSUME NEW k \in 0..31
      PROVE  Carry(x, y, k + 1) = IF x[k] + y[k] + Carry(x, y, k) >= 2 THEN 1 ELSE 0
  <2> DEFINE C(j, l) == x[l] = 1 /\ y[l] = 1 /\ \A m \in l+1..j-1 : x[m] # y[m]
  <2>1. x[k] \in {0, 1} /\ y[k] \in {0, 1}
    BY DEF Words, Bit
  <2>2. CASE x[k] = 1 /\ y[k] = 1
    <3>1. k \in 0..(k + 1)-1 /\ C(k + 1, k)
      BY <2>2
    <3>2. Carry(x, y, k + 1) = 1
      BY <3>1 DEF Carry
    <3> QED
      BY <1>1, <2>2, <3>2
  <2>3. CASE x[k] # y[k]
    <3>1. ASSUME NEW l \in 0..k-1
          PROVE  C(k + 1, l) <=> C(k, l)
      <4>1. \A m \in l+1..(k + 1)-1 : m = k \/ m \in l+1..k-1
        OBVIOUS
      <4>2. \A m \in l+1..k-1 : m \in l+1..(k + 1)-1
        OBVIOUS
      <4> QED
        BY <2>3, <4>1, <4>2
    <3>2. ~ C(k + 1, k)
      BY <2>3
    <3>3. \A l \in 0..(k + 1)-1 : l = k \/ l \in 0..k-1
      OBVIOUS
    <3>4. (\E l \in 0..(k + 1)-1 : C(k + 1, l)) <=> (\E l \in 0..k-1 : C(k, l))
      <4>1. \A l \in 0..k-1 : l \in 0..(k + 1)-1
        OBVIOUS
      <4> HIDE DEF C
      <4> QED
        BY <3>1, <3>2, <3>3, <4>1
    <3>5. Carry(x, y, k + 1) = Carry(x, y, k)
      BY <3>4 DEF Carry
    <3>6. Carry(x, y, k) \in {0, 1}
      BY <1>1
    <3>7. x[k] + y[k] = 1
      BY <2>1, <2>3
    <3> QED
      BY <3>5, <3>6, <3>7
  <2>4. CASE x[k] = 0 /\ y[k] = 0
    <3>1. \A l \in 0..(k + 1)-1 : ~ C(k + 1, l)
      <4> TAKE l \in 0..(k + 1)-1
      <4>1. CASE l = k
        BY <2>4, <4>1
      <4>2. CASE l # k
        <5>1. k \in l+1..(k + 1)-1
          BY <4>2
        <5> QED
          BY <2>4, <5>1
      <4> QED
        BY <4>1, <4>2
    <3>2. Carry(x, y, k + 1) = 0
      BY <3>1 DEF Carry
    <3>3. Carry(x, y, k) \in {0, 1}
      BY <1>1
    <3> QED
      BY <2>4, <3>2, <3>3
  <2> QED
    BY <2>1, <2>2, <2>3, <2>4
<1> QED
  BY <1>1, <1>2, <1>3

\* Plus adds bit by bit, with the carry.
LEMMA PlusBits ==
  ASSUME NEW x \in Words, NEW y \in Words
  PROVE  /\ Plus(x, y) \in Words
         /\ \A k \in Bit : Plus(x, y)[k] = (x[k] + y[k] + Carry(x, y, k)) % 2
<1>1. Plus(x, y) = [k \in Bit |-> (x[k] + y[k] + Carry(x, y, k)) % 2]
  BY DEF Plus, Carry
<1>2. ASSUME NEW k \in Bit
      PROVE  (x[k] + y[k] + Carry(x, y, k)) % 2 \in {0, 1}
  <2>1. x[k] \in {0, 1} /\ y[k] \in {0, 1} /\ k \in Nat
    BY DEF Words, Bit
  <2>2. Carry(x, y, k) \in {0, 1}
    BY <2>1, CarryStep
  <2> QED
    BY <2>1, <2>2, BitSum
<1> QED
  BY <1>1, <1>2 DEF Words

\* The low parts add up to the low part of the sum and the carry out of it.
LEMMA PlusLow ==
  ASSUME NEW x \in Words, NEW y \in Words, NEW n \in 0..31
  PROVE  Low(Plus(x, y), n) + (IF Carry(x, y, n) = 1 THEN Pow(n) ELSE 0) = Low(x, n) + Low(y, n)
<1> DEFINE z == Plus(x, y)
           Adds(i) == Low(z, i) + (IF Carry(x, y, i) = 1 THEN Pow(i) ELSE 0) = Low(x, i) + Low(y, i)
           T == {i \in Nat : i <= n => Adds(i)}
<1>1. /\ z \in Words
      /\ \A k \in Bit : z[k] = (x[k] + y[k] + Carry(x, y, k)) % 2
  BY PlusBits
<1> HIDE DEF z
<1>2. 0 \in T
  <2>1. Low(x, 0) = 0 /\ Low(y, 0) = 0 /\ Low(z, 0) = 0
    BY <1>1, LowRange
  <2>2. Carry(x, y, 0) = 0
    BY CarryStep
  <2> QED
    BY <2>1, <2>2
<1>3. ASSUME NEW i \in Nat, i \in T
      PROVE  i + 1 \in T
  <2> SUFFICES ASSUME i + 1 <= n PROVE Adds(i + 1)
    <3> HIDE DEF Adds
    <3> QED
      OBVIOUS
  <2>1. i \in 0..30 /\ i \in 0..31 /\ i \in Nat
    OBVIOUS
  <2>2. /\ i \in Bit /\ x[i] \in {0, 1} /\ y[i] \in {0, 1} /\ z[i] \in {0, 1}
        /\ x[i] = 0 => Low(x, i + 1) = Low(x, i)
        /\ x[i] = 1 => Low(x, i + 1) = Low(x, i) + Pow(i)
        /\ y[i] = 0 => Low(y, i + 1) = Low(y, i)
        /\ y[i] = 1 => Low(y, i + 1) = Low(y, i) + Pow(i)
        /\ z[i] = 0 => Low(z, i + 1) = Low(z, i)
        /\ z[i] = 1 => Low(z, i + 1) = Low(z, i) + Pow(i)
        /\ Pow(i + 1) = 2 * Pow(i) /\ Pow(i) \in Nat
        /\ Low(x, i) \in Nat /\ Low(y, i) \in Nat /\ Low(z, i) \in Nat
    BY <1>1, <2>1, LowLast
  <2>3. /\ Carry(x, y, i) \in {0, 1}
        /\ Carry(x, y, i + 1) = IF x[i] + y[i] + Carry(x, y, i) >= 2 THEN 1 ELSE 0
    BY <2>1, CarryStep
  <2>4. z[i] = (x[i] + y[i] + Carry(x, y, i)) % 2
    BY <1>1, <2>2
  <2>5. Low(z, i) + (IF Carry(x, y, i) = 1 THEN Pow(i) ELSE 0) = Low(x, i) + Low(y, i)
    BY <1>3
  <2> HIDE DEF T
  <2> QED
    BY <2>2, <2>3, <2>4, <2>5
<1> HIDE DEF T
<1>4. n \in T
  BY <1>2, <1>3, AllNumbers
<1> QED
  BY <1>4 DEF T, z

Ints == {v \in Int : v >= -Half /\ v < Half}

\* The number of a word: its low bits, less 2^31 when the sign is set.
LEMMA NumberIs ==
  ASSUME NEW x \in Words
  PROVE  /\ Number(x) = Low(x, 31) - (IF x[31] = 1 THEN Half ELSE 0)
         /\ x[31] \in {0, 1} /\ Low(x, 31) \in Nat /\ Low(x, 31) < Half
         /\ Number(x) \in Ints
         /\ x[31] = 1 <=> Number(x) < 0
<1>1. x[31] \in {0, 1}
  BY DEF Words, Bit
<1>2. Low(x, 31) = Field(x, 0, 30)
  BY DEF Low, Part
<1>3. Low(x, 31) \in Nat /\ Low(x, 31) < Half
  <2>1. 31 \in 0..31
    OBVIOUS
  <2>2. Low(x, 31) \in Nat /\ Low(x, 31) < Pow(31)
    BY <2>1, LowRange
  <2> QED
    BY <2>2 DEF Pow
<1>4. Number(x) = Low(x, 31) - x[31] * (Half - 1) - x[31]
  <2>1. Half - 1 = 2147483647
    BY SMT DEF Half
  <2> QED
    BY <1>2, <2>1, SMT DEF Number
<1>5. Number(x) = Low(x, 31) - (IF x[31] = 1 THEN Half ELSE 0)
  BY <1>1, <1>3, <1>4, HalfIs
<1> QED
  BY <1>1, <1>3, <1>5, HalfIs DEF Ints

\* The number of a sum is the sum of the numbers, wrapped to 32 bits.
Wrapped(v) == IF v >= Half THEN v - 2 * Half
              ELSE IF v < -Half THEN v + 2 * Half ELSE v

\* Plus wraps.
LEMMA NumberPlus ==
  ASSUME NEW x \in Words, NEW y \in Words
  PROVE  Plus(x, y) \in Words /\ Number(Plus(x, y)) = Wrapped(Number(x) + Number(y))
<1> DEFINE z == Plus(x, y)
           c == Carry(x, y, 31)
<1>1. z \in Words /\ z[31] = (x[31] + y[31] + c) % 2
  <2>1. 31 \in Bit
    BY DEF Bit
  <2> QED
    BY <2>1, PlusBits
<1>2. Low(z, 31) + (IF c = 1 THEN Half ELSE 0) = Low(x, 31) + Low(y, 31)
  <2>1. 31 \in 0..31 /\ Pow(31) = Half
    BY DEF Pow
  <2> QED
    BY <2>1, PlusLow
<1>3. c \in {0, 1}
  BY CarryStep
<1> HIDE DEF z, c
<1>4. /\ Number(x) = Low(x, 31) - (IF x[31] = 1 THEN Half ELSE 0)
      /\ x[31] \in {0, 1} /\ Low(x, 31) \in Nat /\ Low(x, 31) < Half
      /\ Number(y) = Low(y, 31) - (IF y[31] = 1 THEN Half ELSE 0)
      /\ y[31] \in {0, 1} /\ Low(y, 31) \in Nat /\ Low(y, 31) < Half
      /\ Number(z) = Low(z, 31) - (IF z[31] = 1 THEN Half ELSE 0)
      /\ z[31] \in {0, 1} /\ Low(z, 31) \in Nat /\ Low(z, 31) < Half
  BY <1>1, NumberIs
<1>5. x[31] + y[31] + c = z[31] + (IF x[31] + y[31] + c >= 2 THEN 2 ELSE 0)
  BY <1>1, <1>3, <1>4, BitSum
<1>6. Number(z) = Wrapped(Number(x) + Number(y))
  BY <1>2, <1>3, <1>4, <1>5, HalfIs DEF Wrapped
<1> QED
  BY <1>1, <1>6 DEF z

\* The complement.
LEMMA NumberNot ==
  ASSUME NEW x \in Words
  PROVE  /\ Not(x) \in Words /\ \A k \in Bit : Not(x)[k] = 1 - x[k]
         /\ Number(Not(x)) = -1 - Number(x)
<1> DEFINE y == Not(x)
<1>1. \A k \in Bit : x[k] \in {0, 1} /\ y[k] = 1 - x[k]
  BY DEF Words, Not
<1>2. y \in Words
  BY <1>1 DEF Words, Not
<1> HIDE DEF y
<1> DEFINE T == {i \in Nat : i <= 31 => Low(x, i) + Low(y, i) = Pow(i) - 1}
<1>3. 0 \in T
  <2>1. 0 \in 0..31
    OBVIOUS
  <2>2. Low(x, 0) = 0 /\ Low(y, 0) = 0
    BY <1>2, <2>1, LowRange
  <2> QED
    BY <2>2, PowIs
<1>4. ASSUME NEW i \in Nat, i \in T
      PROVE  i + 1 \in T
  <2> SUFFICES ASSUME i + 1 <= 31 PROVE Low(x, i + 1) + Low(y, i + 1) = Pow(i + 1) - 1
    OBVIOUS
  <2>1. i \in 0..30
    OBVIOUS
  <2>2. /\ i \in Bit
        /\ x[i] = 0 => Low(x, i + 1) = Low(x, i)
        /\ x[i] = 1 => Low(x, i + 1) = Low(x, i) + Pow(i)
        /\ y[i] = 0 => Low(y, i + 1) = Low(y, i)
        /\ y[i] = 1 => Low(y, i + 1) = Low(y, i) + Pow(i)
        /\ Pow(i + 1) = 2 * Pow(i) /\ Pow(i) \in Nat
        /\ Low(x, i) \in Nat /\ Low(y, i) \in Nat
    BY <1>2, <2>1, LowLast
  <2>3. Low(x, i) + Low(y, i) = Pow(i) - 1
    BY <1>4
  <2> HIDE DEF T
  <2> QED
    BY <1>1, <2>2, <2>3
<1> HIDE DEF T
<1>5. 31 \in T
  BY <1>3, <1>4, AllNumbers
<1>6. Low(x, 31) + Low(y, 31) = Half - 1
  BY <1>5 DEF T, Pow
<1>7. /\ Number(x) = Low(x, 31) - (IF x[31] = 1 THEN Half ELSE 0) /\ Low(x, 31) \in Nat
      /\ Number(y) = Low(y, 31) - (IF y[31] = 1 THEN Half ELSE 0) /\ Low(y, 31) \in Nat
      /\ x[31] \in {0, 1} /\ y[31] = 1 - x[31]
  <2>1. 31 \in Bit
    BY DEF Bit
  <2> QED
    BY <1>1, <1>2, <2>1, NumberIs
<1>8. Number(y) = -1 - Number(x)
  BY <1>6, <1>7, HalfIs
<1> QED
  BY <1>1, <1>2, <1>8 DEF y

\* The sign and the rest of a number can be told from it.
LEMMA SignAndRest ==
  ASSUME NEW a \in Nat, NEW b \in Nat, a < Half, b < Half, NEW p \in {0, 1}, NEW q \in {0, 1},
         a - (IF p = 1 THEN Half ELSE 0) = b - (IF q = 1 THEN Half ELSE 0)
  PROVE  a = b /\ p = q
BY HalfIs

\* A word is the only one of its number.
LEMMA NumberInjective ==
  ASSUME NEW x \in Words, NEW y \in Words, Number(x) = Number(y)
  PROVE  x = y
<1>1. x[31] = y[31] /\ Low(x, 31) = Low(y, 31)
  <2>1. /\ Number(x) = Low(x, 31) - (IF x[31] = 1 THEN Half ELSE 0)
        /\ x[31] \in {0, 1} /\ Low(x, 31) \in Nat /\ Low(x, 31) < Half
        /\ Number(y) = Low(y, 31) - (IF y[31] = 1 THEN Half ELSE 0)
        /\ y[31] \in {0, 1} /\ Low(y, 31) \in Nat /\ Low(y, 31) < Half
    BY NumberIs
  <2>2. Low(x, 31) - (IF x[31] = 1 THEN Half ELSE 0) = Low(y, 31) - (IF y[31] = 1 THEN Half ELSE 0)
    BY <2>1
  <2> DEFINE a == Low(x, 31)
             b == Low(y, 31)
             p == x[31]
             q == y[31]
  <2>3. /\ a \in Nat /\ b \in Nat /\ a < Half /\ b < Half /\ p \in {0, 1} /\ q \in {0, 1}
        /\ a - (IF p = 1 THEN Half ELSE 0) = b - (IF q = 1 THEN Half ELSE 0)
    BY <2>1, <2>2
  <2> HIDE DEF a, b, p, q
  <2>4. a = b /\ p = q
    BY <2>3, SignAndRest
  <2> QED
    BY <2>4 DEF a, b, p, q
<1>2. \A k \in 0..31-1 : x[k] = y[k]
  <2>1. 31 \in 0..31
    OBVIOUS
  <2> QED
    BY <1>1, <2>1, LowInjective
<1>3. \A k \in Bit : x[k] = y[k]
  <2>1. \A k \in Bit : k = 31 \/ k \in 0..31-1
    BY DEF Bit
  <2> QED
    BY <1>1, <1>2, <2>1
<1> QED
  BY <1>3 DEF Words

\* Taking one more digit of v: the remainder by 2p.
LEMMA NextDigit ==
  ASSUME NEW v \in Int, NEW p \in Nat \ {0}
  PROVE  /\ (v \div p) % 2 \in {0, 1} /\ v % p \in Nat /\ v % p < p
         /\ v % (2 * p) = (v % p) + (IF (v \div p) % 2 = 1 THEN p ELSE 0)
<1> DEFINE q == v \div p
           r == v % p
           h == q \div 2
           e == q % 2
<1>1. q \in Int /\ r \in Int /\ v = p * q + r /\ 0 <= r /\ r < p
  OBVIOUS
<1>2. h \in Int /\ e \in {0, 1} /\ q = 2 * h + e
  BY <1>1
<1> HIDE DEF q, r, h, e
<1> DEFINE u == (IF e = 1 THEN p ELSE 0) + r
<1>3. u \in Nat /\ u < 2 * p
  BY <1>1, <1>2
<1>4. v = (2 * p) * h + u
  <2> DEFINE a == p * q
             b == (2 * p) * h
  <2>1. a \in Int /\ b \in Int /\ v = a + r
    BY <1>1, <1>2
  <2>2. a = b + (IF e = 1 THEN p ELSE 0)
    <3>1. CASE e = 0
      <4>1. p * q = p * (2 * h) /\ p * (2 * h) = (2 * p) * h
        BY <1>2, <3>1
      <4> HIDE DEF a, b
      <4> QED
        BY <2>1, <3>1, <4>1 DEF a, b
    <3>2. CASE e = 1
      <4>1. p * q = p * (2 * h + 1) /\ p * (2 * h + 1) = (2 * p) * h + p
        BY <1>2, <3>2
      <4> QED
        BY <2>1, <3>2, <4>1
    <3> QED
      BY <1>2, <3>1, <3>2
  <2> HIDE DEF a, b
  <2>3. v = b + u
    BY <1>1, <1>2, <2>1, <2>2
  <2> QED
    BY <2>3 DEF b
<1> HIDE DEF u
<1>5. v % (2 * p) = u
  <2> DEFINE d == 2 * p
             g == v \div d
             w == v % d
  <2>1. d \in Nat \ {0} /\ g \in Int /\ w \in Int /\ v = d * g + w /\ 0 <= w /\ w < d
    OBVIOUS
  <2>2. v = d * h + u /\ u \in Nat /\ u < d
    BY <1>3, <1>4
  <2> HIDE DEF d, g, w
  <2>3. d * (g - h) = u - w
    BY <1>2, <2>1, <2>2
  <2>4. g = h
    <3> DEFINE t == g - h
    <3>1. t \in Int /\ d * t = u - w /\ u - w < d /\ u - w > -d
      BY <1>2, <2>1, <2>2, <2>3
    <3> HIDE DEF t
    <3>2. ASSUME t >= 1 PROVE FALSE
      <4>1. d * t >= d
        BY <2>1, <3>1, <3>2
      <4> QED
        BY <2>1, <2>2, <3>1, <4>1
    <3>3. ASSUME t <= -1 PROVE FALSE
      <4>1. d * t <= -d
        BY <2>1, <3>1, <3>3
      <4> QED
        BY <2>1, <2>2, <3>1, <4>1
    <3>4. t = 0
      BY <3>1, <3>2, <3>3
    <3> QED
      BY <1>2, <2>1, <3>4 DEF t
  <2>5. u = w
    BY <1>2, <2>1, <2>2, <2>4
  <2> QED
    BY <2>5 DEF d, w
<1> QED
  BY <1>1, <1>2, <1>5 DEF u, q, r, e

\* Words of binary digits: the low ones are those of the remainder.
LEMMA LowDigits ==
  ASSUME NEW x \in Words, NEW v \in Int, NEW n \in 0..31, \A k \in 0..n-1 : x[k] = (v \div Pow(k)) % 2
  PROVE  Low(x, n) = v % Pow(n)
<1> DEFINE T == {i \in Nat : i <= n => Low(x, i) = v % Pow(i)}
<1>1. 0 \in T
  <2>1. 0 \in 0..31
    OBVIOUS
  <2>2. Low(x, 0) = 0 /\ Pow(0) = 1
    BY <2>1, LowRange, PowIs
  <2>3. v % 1 = 0
    OBVIOUS
  <2> QED
    BY <2>2, <2>3
<1>2. ASSUME NEW i \in Nat, i \in T
      PROVE  i + 1 \in T
  <2> SUFFICES ASSUME i + 1 <= n PROVE Low(x, i + 1) = v % Pow(i + 1)
    OBVIOUS
  <2>1. i \in 0..30 /\ i \in 0..n-1
    OBVIOUS
  <2>2. /\ x[i] = 0 => Low(x, i + 1) = Low(x, i)
        /\ x[i] = 1 => Low(x, i + 1) = Low(x, i) + Pow(i)
        /\ Pow(i + 1) = 2 * Pow(i) /\ Pow(i) \in Nat \ {0}
    BY <2>1, LowLast
  <2>3. Low(x, i) = v % Pow(i) /\ x[i] = (v \div Pow(i)) % 2
    BY <1>2, <2>1
  <2>4. /\ (v \div Pow(i)) % 2 \in {0, 1} /\ v % Pow(i) \in Nat
        /\ v % (2 * Pow(i)) = (v % Pow(i)) + (IF (v \div Pow(i)) % 2 = 1 THEN Pow(i) ELSE 0)
    BY <2>2, NextDigit
  <2> HIDE DEF T
  <2> QED
    BY <2>2, <2>3, <2>4
<1> HIDE DEF T
<1>3. n \in T
  BY <1>1, <1>2, AllNumbers
<1> QED
  BY <1>3 DEF T

\* The word of a number has that number.
LEMMA NumberWord ==
  ASSUME NEW v \in Ints
  PROVE  Word(v) \in Words /\ Number(Word(v)) = v
<1> DEFINE x == Word(v)
<1>0. v \in Int /\ v >= -Half /\ v < Half
  BY HalfIs DEF Ints
<1>1. \A k \in 0..30 : x[k] = (v \div Pow(k)) % 2
  BY DEF Word, Pow, Bit
<1>2. x[31] = IF v < 0 THEN 1 ELSE 0
  BY DEF Word, Bit
<1>3. x \in Words
  <2>1. \A k \in Bit : x[k] \in {0, 1}
    <3> TAKE k \in Bit
    <3>1. CASE k = 31
      BY <1>2, <3>1
    <3>2. CASE k # 31
      <4>1. k \in 0..30 /\ Pow(k) \in Nat \ {0}
        BY <3>2, PowIs DEF Bit
      <4> QED
        BY <1>0, <1>1, <4>1, NextDigit
    <3> QED
      BY <3>1, <3>2
  <2>2. x = [k \in Bit |-> x[k]]
    BY DEF Word
  <2> HIDE DEF x
  <2> QED
    BY <2>1, <2>2 DEF Words
<1> HIDE DEF x
<1>7. Low(x, 31) = v % Half
  <2>1. 31 \in 0..31 /\ 31-1 = 30 /\ Pow(31) = Half
    BY DEF Pow
  <2> QED
    BY <1>0, <1>1, <1>3, <2>1, LowDigits
<1>8. v % Half = IF v < 0 THEN v + Half ELSE v
  BY <1>0, SMT DEF Half
<1>9. Number(x) = v
  <2>1. Number(x) = Low(x, 31) - (IF x[31] = 1 THEN Half ELSE 0)
    BY <1>3, NumberIs
  <2>2. CASE v < 0
    BY <1>0, <1>2, <1>7, <1>8, <2>1, <2>2, HalfIs
  <2>3. CASE ~ (v < 0)
    BY <1>0, <1>2, <1>7, <1>8, <2>1, <2>3, HalfIs
  <2> QED
    BY <2>2, <2>3
<1> QED
  BY <1>3, <1>9 DEF x

-----------------------------------------------------------------------------
\* Two words are one when their bits are.
LEMMA SameWord ==
  ASSUME NEW x \in Words, NEW y \in Words, \A k \in Bit : x[k] = y[k]
  PROVE  x = y
BY DEF Words

\* The bits of what the operators give: conjunction, disjunction, exclusive or.
LEMMA AndBits ==
  ASSUME NEW x \in Words, NEW y \in Words
  PROVE  And(x, y) \in Words /\ \A k \in Bit : And(x, y)[k] = IF x[k] = 1 /\ y[k] = 1 THEN 1 ELSE 0
<1>1. \A k \in Bit : x[k] \in {0, 1} /\ y[k] \in {0, 1}
  BY DEF Words
<1>2. \A k \in Bit : And(x, y)[k] = IF x[k] = 1 /\ y[k] = 1 THEN 1 ELSE 0
  BY <1>1 DEF And
<1>3. And(x, y) = [k \in Bit |-> And(x, y)[k]]
  BY DEF And
<1>4. \A k \in Bit : And(x, y)[k] \in {0, 1}
  BY <1>2
<1> QED
  BY <1>2, <1>3, <1>4, Zenon DEF Words

\* Disjunction.
LEMMA OrBits ==
  ASSUME NEW x \in Words, NEW y \in Words
  PROVE  Or(x, y) \in Words /\ \A k \in Bit : Or(x, y)[k] = IF x[k] = 1 \/ y[k] = 1 THEN 1 ELSE 0
<1>1. \A k \in Bit : x[k] \in {0, 1} /\ y[k] \in {0, 1}
  BY DEF Words
<1>2. \A k \in Bit : Or(x, y)[k] = IF x[k] = 1 \/ y[k] = 1 THEN 1 ELSE 0
  BY <1>1 DEF Or
<1>3. Or(x, y) = [k \in Bit |-> Or(x, y)[k]]
  BY DEF Or
<1>4. \A k \in Bit : Or(x, y)[k] \in {0, 1}
  BY <1>2
<1> QED
  BY <1>2, <1>3, <1>4, Zenon DEF Words

\* The exclusive or.
LEMMA XorBits ==
  ASSUME NEW x \in Words, NEW y \in Words
  PROVE  Xor(x, y) \in Words /\ \A k \in Bit : Xor(x, y)[k] = IF x[k] = y[k] THEN 0 ELSE 1
<1>1. \A k \in Bit : x[k] \in {0, 1} /\ y[k] \in {0, 1}
  BY DEF Words
<1>2. \A k \in Bit : Xor(x, y)[k] = IF x[k] = y[k] THEN 0 ELSE 1
  BY <1>1 DEF Xor
<1>3. Xor(x, y) = [k \in Bit |-> Xor(x, y)[k]]
  BY DEF Xor
<1>4. \A k \in Bit : Xor(x, y)[k] \in {0, 1}
  BY <1>2
<1> QED
  BY <1>2, <1>3, <1>4, Zenon DEF Words

\* Shifted words.
LEMMA ShiftBits ==
  ASSUME NEW x \in Words, NEW n \in Nat
  PROVE  /\ Sar(x, n) \in Words /\ \A k \in Bit : Sar(x, n)[k] = IF k + n <= 31 THEN x[k + n] ELSE x[31]
         /\ Shl(x, n) \in Words /\ \A k \in Bit : Shl(x, n)[k] = IF k >= n THEN x[k - n] ELSE 0
<1>1. \A k \in Bit : Sar(x, n)[k] = IF k + n <= 31 THEN x[k + n] ELSE x[31]
  BY DEF Sar
<1>2. \A k \in Bit : Shl(x, n)[k] = IF k >= n THEN x[k - n] ELSE 0
  BY DEF Shl
<1>3. Sar(x, n) \in Words
  <2>1. \A k \in Bit : Sar(x, n)[k] \in {0, 1}
    <3> TAKE k \in Bit
    <3>1. 31 \in Bit /\ (k + n <= 31 => k + n \in Bit)
      BY DEF Bit
    <3> QED
      BY <1>1, <3>1 DEF Words
  <2>2. Sar(x, n) = [k \in Bit |-> Sar(x, n)[k]]
    BY DEF Sar
  <2> QED
    BY <2>1, <2>2, Zenon DEF Words
<1>4. Shl(x, n) \in Words
  <2>1. \A k \in Bit : Shl(x, n)[k] \in {0, 1}
    <3> TAKE k \in Bit
    <3>1. k >= n => k - n \in Bit
      BY DEF Bit
    <3> QED
      BY <1>2, <3>1 DEF Words
  <2>2. Shl(x, n) = [k \in Bit |-> Shl(x, n)[k]]
    BY DEF Shl
  <2> QED
    BY <2>1, <2>2, Zenon DEF Words
<1> QED
  BY <1>1, <1>2, <1>3, <1>4

\* The small constants.
LEMMA Constants ==
  /\ Zero \in Words /\ Number(Zero) = 0 /\ \A k \in Bit : Zero[k] = 0
  /\ One \in Words /\ Number(One) = 1 /\ \A k \in Bit : One[k] = IF k = 0 THEN 1 ELSE 0
  /\ Zero # One
<1>1. 0 \in Ints /\ 1 \in Ints
  BY HalfIs DEF Ints
<1>2. Zero \in Words /\ Number(Zero) = 0 /\ One \in Words /\ Number(One) = 1
  BY <1>1, NumberWord DEF Zero, One
<1>3. \A k \in Bit : Zero[k] = 0
  <2> TAKE k \in Bit
  <2>1. CASE k = 31
    BY <2>1 DEF Zero, Word
  <2>2. CASE k # 31
    <3>1. k \in 0..30
      BY <2>2 DEF Bit
    <3>2. pow2[k] \in Nat \ {0}
      BY <3>1, WordPowers
    <3>3. Zero[k] = (0 \div pow2[k]) % 2
      BY <2>2 DEF Zero, Word
    <3>4. 0 \div pow2[k] = 0
      BY <3>2
    <3> QED
      BY <3>3, <3>4
  <2> QED
    BY <2>1, <2>2
<1>4. \A k \in Bit : One[k] = IF k = 0 THEN 1 ELSE 0
  <2> TAKE k \in Bit
  <2>1. CASE k = 31
    BY <2>1 DEF One, Word
  <2>2. CASE k = 0
    <3>1. One[k] = (1 \div pow2[0]) % 2
      BY <2>2 DEF One, Word
    <3>2. (1 \div 1) % 2 = 1
      OBVIOUS
    <3> QED
      BY <2>2, <3>1, <3>2, WordPowers
  <2>3. CASE k # 31 /\ k # 0
    <3>1. k \in 1..30 /\ k - 1 \in 0..30
      BY <2>3 DEF Bit
    <3>2. pow2[k] \in Nat /\ pow2[k] > 1
      BY <3>1, WordPowers
    <3>3. One[k] = (1 \div pow2[k]) % 2
      BY <2>3 DEF One, Word
    <3>4. 1 \div pow2[k] = 0
      BY <3>2
    <3> QED
      BY <2>3, <3>3, <3>4
  <2> QED
    BY <2>1, <2>2, <2>3
<1>5. Zero # One
  BY <1>2
<1> QED
  BY <1>2, <1>3, <1>4, <1>5

\* A word is 0 when its number is.
LEMMA ZeroIs ==
  ASSUME NEW x \in Words
  PROVE  /\ x = Zero <=> Number(x) = 0
         /\ x = Zero <=> \A k \in Bit : x[k] = 0
<1>1. x = Zero <=> Number(x) = 0
  BY Constants, NumberInjective
<1>2. x = Zero <=> \A k \in Bit : x[k] = 0
  BY Constants, SameWord
<1> QED
  BY <1>1, <1>2

\* Truth values, 1 and 0.
LEMMA TruthIs ==
  ASSUME NEW p \in BOOLEAN
  PROVE  /\ Truth(p) \in Words /\ \A k \in Bit : Truth(p)[k] = IF k = 0 /\ p THEN 1 ELSE 0
         /\ Number(Truth(p)) = IF p THEN 1 ELSE 0
         /\ Bang(Truth(p)) = Truth(~p)
BY Constants DEF Truth, Bang

\* The operators on truth values.
LEMMA TruthTable ==
  ASSUME NEW p \in BOOLEAN, NEW q \in BOOLEAN
  PROVE  /\ And(Truth(p), Truth(q)) = Truth(p /\ q)
         /\ Or(Truth(p), Truth(q)) = Truth(p \/ q)
         /\ Xor(Truth(p), Truth(q)) = Truth(~ (p <=> q))
<1>1. /\ Truth(p) \in Words /\ \A k \in Bit : Truth(p)[k] = IF k = 0 /\ p THEN 1 ELSE 0
      /\ Truth(q) \in Words /\ \A k \in Bit : Truth(q)[k] = IF k = 0 /\ q THEN 1 ELSE 0
  BY TruthIs
<1>2. And(Truth(p), Truth(q)) = Truth(p /\ q)
  <2>1. /\ Truth(p /\ q) \in Words
        /\ \A k \in Bit : Truth(p /\ q)[k] = IF k = 0 /\ (p /\ q) THEN 1 ELSE 0
    BY TruthIs
  <2>2. \A k \in Bit : And(Truth(p), Truth(q))[k] = Truth(p /\ q)[k]
    BY <1>1, <2>1, AndBits
  <2> QED
    BY <1>1, <2>1, <2>2, AndBits, SameWord
<1>3. Or(Truth(p), Truth(q)) = Truth(p \/ q)
  <2>1. /\ Truth(p \/ q) \in Words
        /\ \A k \in Bit : Truth(p \/ q)[k] = IF k = 0 /\ (p \/ q) THEN 1 ELSE 0
    BY TruthIs
  <2>2. \A k \in Bit : Or(Truth(p), Truth(q))[k] = Truth(p \/ q)[k]
    BY <1>1, <2>1, OrBits
  <2> QED
    BY <1>1, <2>1, <2>2, OrBits, SameWord
<1>4. Xor(Truth(p), Truth(q)) = Truth(~ (p <=> q))
  <2>1. /\ Truth(~ (p <=> q)) \in Words
        /\ \A k \in Bit : Truth(~ (p <=> q))[k] = IF k = 0 /\ ~ (p <=> q) THEN 1 ELSE 0
    BY TruthIs
  <2>2. \A k \in Bit : Xor(Truth(p), Truth(q))[k] = Truth(~ (p <=> q))[k]
    BY <1>1, <2>1, XorBits
  <2> QED
    BY <1>1, <2>1, <2>2, XorBits, SameWord
<1> QED
  BY <1>2, <1>3, <1>4
-----------------------------------------------------------------------------
(* The puzzles on integers. *)

\* The powers grow.
LEMMA PowGrows ==
  ASSUME NEW k \in 0..31, NEW n \in 0..k
  PROVE  Pow(n) <= Pow(k) /\ Pow(n) \in Nat /\ Pow(k) \in Nat
<1> DEFINE T == {i \in Nat : n <= i /\ i <= 31 => Pow(n) <= Pow(i)}
<1>0. \A i \in 0..31 : Pow(i) \in Nat \ {0}
  BY PowIs
<1>1. 0 \in T
  BY <1>0
<1>2. ASSUME NEW i \in Nat, i \in T
      PROVE  i + 1 \in T
  <2>1. CASE n <= i /\ i <= 30
    <3>1. Pow(i + 1) = 2 * Pow(i) /\ Pow(n) <= Pow(i)
      BY <1>2, <2>1, PowIs
    <3>2. Pow(i) \in Nat /\ Pow(n) \in Nat
      BY <1>0, <2>1
    <3> QED
      BY <3>1, <3>2
  <2>2. CASE ~ (n <= i /\ i <= 30)
    <3>1. n <= i + 1 /\ i + 1 <= 31 => n = i + 1
      BY <2>2
    <3> QED
      BY <1>0, <3>1
  <2> QED
    BY <2>1, <2>2
<1> HIDE DEF T
<1>3. k \in T
  BY <1>1, <1>2, AllNumbers
<1> QED
  BY <1>0, <1>3 DEF T

\* A word shifted to the right is 0 when it is a number of that few bits.
LEMMA ShiftedOut ==
  ASSUME NEW x \in Words, NEW n \in 0..31
  PROVE  /\ Sar(x, n) = Zero <=> \A k \in n..31 : x[k] = 0
         /\ Sar(x, n) = Zero <=> (0 <= Number(x) /\ Number(x) < Pow(n))
<1>1. Sar(x, n) = Zero <=> \A k \in n..31 : x[k] = 0
  <2>0. Sar(x, n) \in Words /\ \A k \in Bit : Sar(x, n)[k] = IF k + n <= 31 THEN x[k + n] ELSE x[31]
    <3>1. n \in Nat
      OBVIOUS
    <3> QED
      BY <3>1, ShiftBits
  <2>1. ASSUME Sar(x, n) = Zero, NEW k \in n..31
        PROVE  x[k] = 0
    <3>1. k - n \in Bit /\ (k - n) + n = k
      BY DEF Bit
    <3> QED
      BY <2>0, <2>1, <3>1, Constants
  <2>2. ASSUME \A k \in n..31 : x[k] = 0
        PROVE  Sar(x, n) = Zero
    <3>1. \A k \in Bit : 31 \in n..31 /\ (k + n <= 31 => k + n \in n..31)
      BY DEF Bit
    <3>2. \A k \in Bit : Sar(x, n)[k] = 0
      BY <2>0, <2>2, <3>1
    <3> QED
      BY <2>0, <3>2, ZeroIs
  <2> QED
    BY <2>1, <2>2
<1>2. /\ Number(x) = Low(x, 31) - (IF x[31] = 1 THEN Half ELSE 0)
      /\ x[31] \in {0, 1} /\ Low(x, 31) \in Nat /\ Low(x, 31) < Half
  BY NumberIs
<1>3. \A k \in 0..31 : Pow(k) \in Nat \ {0}
  BY PowIs
<1>4. /\ \A k \in 0..31-1 : x[0 + k] = 1 => Low(x, 31) >= Pow(k)
      /\ \A m \in 0..31 : (\A k \in m..31-1 : x[0 + k] = 0) => Low(x, 31) = Low(x, m)
  <2>1. 31 \in 0..31 /\ 0 + 31 <= 32 /\ 0 \in Nat
    OBVIOUS
  <2> QED
    BY <2>1, PartZero DEF Low
<1>5. ASSUME \A k \in n..31 : x[k] = 0
      PROVE  0 <= Number(x) /\ Number(x) < Pow(n)
  <2>1. x[31] = 0 /\ \A k \in n..31-1 : x[0 + k] = 0
    BY <1>5
  <2>2. Low(x, 31) = Low(x, n) /\ Low(x, n) < Pow(n)
    BY <1>4, <2>1, LowRange
  <2> QED
    BY <1>2, <1>3, <2>1, <2>2
<1>6. ASSUME 0 <= Number(x), Number(x) < Pow(n), NEW k \in n..31
      PROVE  x[k] = 0
  <2>1. x[31] = 0 /\ Low(x, 31) = Number(x)
    BY <1>2, <1>6, HalfIs
  <2>2. CASE k = 31
    BY <2>1, <2>2
  <2>3. CASE k # 31
    <3>1. k \in 0..31-1 /\ 0 + k = k /\ k \in Bit /\ k \in 0..31 /\ n \in 0..k
      BY <2>3 DEF Bit
    <3>2. x[k] = 1 => Low(x, 31) >= Pow(k)
      BY <1>4, <3>1
    <3>3. Pow(n) <= Pow(k) /\ Pow(n) \in Nat /\ Pow(k) \in Nat
      BY <3>1, PowGrows
    <3>4. x[k] \in {0, 1}
      BY <3>1 DEF Words
    <3> QED
      BY <1>2, <1>6, <2>1, <3>2, <3>3, <3>4
  <2> QED
    BY <2>2, <2>3
<1> QED
  BY <1>1, <1>5, <1>6

\* The sign alone.
LEMMA SignIs ==
  ASSUME NEW x \in Words
  PROVE  /\ Bang(Sar(x, 31)) = Truth(Number(x) >= 0)
         /\ \A k \in Bit : Sar(x, 31)[k] = IF Number(x) < 0 THEN 1 ELSE 0
<1>1. Number(x) \in Int /\ Number(x) < Half /\ Pow(31) = Half /\ 31 \in 0..31 /\ 31 \in Nat
  <2>1. Number(x) \in Ints
    BY NumberIs
  <2> QED
    BY <2>1 DEF Ints, Pow
<1>2. Bang(Sar(x, 31)) = Truth(Number(x) >= 0)
  <2>1. Sar(x, 31) = Zero <=> (0 <= Number(x) /\ Number(x) < Pow(31))
    BY <1>1, ShiftedOut
  <2>2. Sar(x, 31) = Zero <=> Number(x) >= 0
    BY <1>1, <2>1
  <2> QED
    BY <2>2 DEF Bang
<1>3. ASSUME NEW k \in Bit
      PROVE  Sar(x, 31)[k] = IF Number(x) < 0 THEN 1 ELSE 0
  <2>1. Sar(x, 31)[k] = IF k + 31 <= 31 THEN x[k + 31] ELSE x[31]
    BY <1>1, ShiftBits
  <2>2. k + 31 <= 31 => k + 31 = 31
    BY DEF Bit
  <2>3. Sar(x, 31)[k] = x[31]
    BY <2>1, <2>2
  <2> QED
    BY <2>3, NumberIs
<1> QED
  BY <1>2, <1>3

\* The smallest int, with which the other bit of the sign is set.
LEMMA TminIs ==
  /\ Tmin \in Words /\ Number(Tmin) = -Half
  /\ \A k \in Bit : Tmin[k] = IF k = 31 THEN 1 ELSE 0
<1>1. Tmin \in Words /\ \A k \in Bit : Tmin[k] = IF k >= 31 THEN One[k - 31] ELSE 0
  <2>1. 31 \in Nat
    OBVIOUS
  <2> QED
    BY <2>1, Constants, ShiftBits DEF Tmin
<1>2. \A k \in Bit : Tmin[k] = IF k = 31 THEN 1 ELSE 0
  <2>1. \A k \in Bit : (k >= 31 <=> k = 31) /\ 31 - 31 = 0 /\ 0 \in Bit
    BY DEF Bit
  <2> QED
    BY <1>1, <2>1, Constants
<1>3. Low(Tmin, 31) = 0
  <2>1. \A k \in 0..31-1 : 0 + k \in Bit /\ 0 + k # 31
    BY DEF Bit
  <2>2. \A k \in 0..31-1 : Tmin[0 + k] = 0
    BY <1>2, <2>1
  <2>3. 31 \in 0..31 /\ 0 + 31 <= 32 /\ 0 \in Nat
    OBVIOUS
  <2>4. (\A k \in 0..31-1 : Tmin[0 + k] = 0) => Part(Tmin, 0, 31) = 0
    BY <1>1, <2>3, PartZero
  <2> QED
    BY <2>2, <2>4 DEF Low
<1>4. Number(Tmin) = -Half
  <2>1. 31 \in Bit
    BY DEF Bit
  <2>2. Number(Tmin) = Low(Tmin, 31) - (IF Tmin[31] = 1 THEN Half ELSE 0)
    BY <1>1, NumberIs
  <2> QED
    BY <1>2, <1>3, <2>1, <2>2, HalfIs
<1> QED
  BY <1>1, <1>2, <1>4

\* bitXor is the exclusive or.
LEMMA BitXorRight ==
  ASSUME NEW x \in Words, NEW y \in Words
  PROVE  bitXor(x, y) = test_bitXor(x, y)
<1>0. Xor(x, y) \in Words /\ \A k \in Bit : Xor(x, y)[k] = IF x[k] = y[k] THEN 0 ELSE 1
  BY XorBits
<1> DEFINE a == And(x, y)
           b == And(Not(x), Not(y))
<1>1. Not(x) \in Words /\ Not(y) \in Words /\ a \in Words
  BY NumberNot, AndBits
<1>2. b \in Words
  BY <1>1, AndBits
<1>3. \A k \in Bit : x[k] \in {0, 1} /\ y[k] \in {0, 1}
  BY DEF Words
<1>4. /\ \A k \in Bit : a[k] = IF x[k] = 1 /\ y[k] = 1 THEN 1 ELSE 0
      /\ \A k \in Bit : Not(x)[k] = 1 - x[k]
      /\ \A k \in Bit : Not(y)[k] = 1 - y[k]
  BY NumberNot, AndBits
<1>5. \A k \in Bit : b[k] = IF x[k] = 1 \/ y[k] = 1 THEN 0 ELSE 1
  <2>1. \A k \in Bit : b[k] = IF Not(x)[k] = 1 /\ Not(y)[k] = 1 THEN 1 ELSE 0
    BY <1>1, AndBits
  <2> QED
    BY <1>3, <1>4, <2>1
<1>6. bitXor(x, y) = And(Not(a), Not(b))
  BY DEF bitXor
<1> HIDE DEF a, b
<1>7. /\ Not(a) \in Words /\ \A k \in Bit : Not(a)[k] = 1 - a[k]
      /\ Not(b) \in Words /\ \A k \in Bit : Not(b)[k] = 1 - b[k]
  BY <1>1, <1>2, NumberNot
<1>8. /\ And(Not(a), Not(b)) \in Words
      /\ \A k \in Bit : And(Not(a), Not(b))[k] = IF Not(a)[k] = 1 /\ Not(b)[k] = 1 THEN 1 ELSE 0
  BY <1>7, AndBits
<1>10. \A k \in Bit : And(Not(a), Not(b))[k] = Xor(x, y)[k]
  BY <1>3, <1>4, <1>5, <1>7, <1>8, <1>0
<1> QED
  BY <1>6, <1>8, <1>0, <1>10, SameWord DEF test_bitXor

\* A bit by its hexadecimal digit.
LEMMA DigitOf ==
  ASSUME NEW k \in 0..31
  PROVE  /\ k % 4 \in 0..3 /\ k \div 4 \in 0..7
         /\ k = 31 <=> k \div 4 = 7 /\ k % 4 = 3
<1>1. PICK q \in Int, r \in Int : q = k \div 4 /\ r = k % 4
  OBVIOUS
<1>2. k = 4 * q + r /\ 0 <= r /\ r < 4
  BY <1>1
<1>3. r \in 0..3 /\ q \in 0..7 /\ (k = 31 <=> q = 7 /\ r = 3)
  BY <1>2
<1> QED
  BY <1>1, <1>3, Zenon

\* tmin is the word that the test writes in hexadecimal.
LEMMA TminRight == tmin = test_tmin
<1>1. \A k \in Bit : test_tmin[k] = IF k = 31 THEN 1 ELSE 0
  <2> DEFINE d == <<8, 0, 0, 0, 0, 0, 0, 0>>
  <2> TAKE k \in Bit
  <2>1. test_tmin[k] = (d[8 - k \div 4] \div pow2[k % 4]) % 2
    BY DEF test_tmin, Hex
  <2>2. k \in 0..31
    BY DEF Bit
  <2>3. /\ k % 4 \in 0..3 /\ k \div 4 \in 0..7
        /\ k = 31 <=> k \div 4 = 7 /\ k % 4 = 3
    BY <2>2, DigitOf
  <2>4. pow2[0] = 1 /\ pow2[1] = 2 /\ pow2[2] = 4 /\ pow2[3] = 8
    BY PowerValues
  <2>5. pow2[k % 4] \in {1, 2, 4, 8} /\ (k % 4 = 3 <=> pow2[k % 4] = 8)
    BY <2>3, <2>4
  <2>6. CASE k \div 4 = 7
    <3>1. d[8 - k \div 4] = 8
      BY <2>6
    <3>2. k = 31 <=> k % 4 = 3
      BY <2>3, <2>6
    <3>3. (8 \div 1) % 2 = 0 /\ (8 \div 2) % 2 = 0 /\ (8 \div 4) % 2 = 0 /\ (8 \div 8) % 2 = 1
      OBVIOUS
    <3> QED
      BY <2>1, <2>5, <3>1, <3>2, <3>3
  <2>7. CASE k \div 4 # 7
    <3>1. d[8 - k \div 4] = 0
      <4>1. 8 - k \div 4 \in 2..8
        BY <2>3, <2>7
      <4> QED
        BY <4>1
    <3>2. (0 \div 1) % 2 = 0 /\ (0 \div 2) % 2 = 0 /\ (0 \div 4) % 2 = 0 /\ (0 \div 8) % 2 = 0
      OBVIOUS
    <3>3. k # 31
      BY <2>3, <2>7
    <3> QED
      BY <2>1, <2>5, <3>1, <3>2, <3>3
  <2> QED
    BY <2>6, <2>7
<1>2. test_tmin \in Words
  <2>1. test_tmin = [k \in Bit |-> test_tmin[k]]
    BY DEF test_tmin, Hex
  <2>2. \A k \in Bit : test_tmin[k] \in {0, 1}
    BY <1>1
  <2> QED
    BY <2>1, <2>2, Zenon DEF Words
<1> QED
  BY <1>1, <1>2, TminIs, SameWord DEF tmin, Tmin

\* Adding one to the complement negates, but for the smallest int.
LEMMA Negation ==
  ASSUME NEW x \in Words
  PROVE  /\ Plus(Not(x), One) \in Words
         /\ Number(Plus(Not(x), One)) = IF Number(x) = -Half THEN -Half ELSE -Number(x)
<1>1. Not(x) \in Words /\ Number(Not(x)) = -1 - Number(x)
  BY NumberNot
<1>2. Plus(Not(x), One) \in Words /\ Number(Plus(Not(x), One)) = Wrapped((-1 - Number(x)) + 1)
  BY <1>1, Constants, NumberPlus
<1>3. Number(x) \in Int /\ Number(x) >= -Half /\ Number(x) < Half
  BY NumberIs, Zenon DEF Ints
<1>4. Wrapped((-1 - Number(x)) + 1) = IF Number(x) = -Half THEN -Half ELSE -Number(x)
  BY <1>3, HalfIs DEF Wrapped
<1> QED
  BY <1>2, <1>4

\* The word with every bit set is that of -1.
LEMMA MinusOne ==
  /\ Not(Zero) \in Words /\ Number(Not(Zero)) = -1 /\ \A k \in Bit : Not(Zero)[k] = 1
  /\ \A x \in Words : Xor(Not(Zero), x) = Not(x)
<1>1. Not(Zero) \in Words /\ Number(Not(Zero)) = -1 /\ \A k \in Bit : Not(Zero)[k] = 1
  BY Constants, NumberNot
<1>2. ASSUME NEW x \in Words
      PROVE  Xor(Not(Zero), x) = Not(x)
  <2>1. /\ Xor(Not(Zero), x) \in Words
        /\ \A k \in Bit : Xor(Not(Zero), x)[k] = IF Not(Zero)[k] = x[k] THEN 0 ELSE 1
    BY <1>1, XorBits
  <2>2. Not(x) \in Words /\ \A k \in Bit : Not(x)[k] = 1 - x[k]
    BY NumberNot
  <2>3. \A k \in Bit : x[k] \in {0, 1}
    BY DEF Words
  <2>4. \A k \in Bit : Xor(Not(Zero), x)[k] = Not(x)[k]
    BY <1>1, <2>1, <2>2, <2>3
  <2> QED
    BY <2>1, <2>2, <2>4, SameWord
<1> QED
  BY <1>1, <1>2

\* negate gives -x.
LEMMA NegateRight ==
  ASSUME NEW x \in Words
  PROVE  negate(x) = test_negate(x)
<1>1. Number(x) \in Int /\ Number(x) >= -Half /\ Number(x) < Half
  BY NumberIs, Zenon DEF Ints
<1>2. negate(x) \in Words /\ Number(negate(x)) = IF Number(x) = -Half THEN -Half ELSE -Number(x)
  BY Negation DEF negate
<1>3. Tmin \in Words /\ (x = Tmin <=> Number(x) = -Half)
  BY TminIs, NumberInjective
<1>4. CASE x = Tmin
  BY <1>2, <1>3, <1>4, TminIs, NumberInjective DEF test_negate
<1>5. CASE x # Tmin
  <2>1. -Number(x) \in Ints
    BY <1>1, <1>3, <1>5, HalfIs DEF Ints
  <2>2. Word(-Number(x)) \in Words /\ Number(Word(-Number(x))) = -Number(x)
    BY <2>1, NumberWord
  <2> QED
    BY <1>2, <1>3, <1>5, <2>2, NumberInjective DEF test_negate
<1> QED
  BY <1>4, <1>5

\* isTmax tells the largest int by x + 1 = ~x, which holds of it and of -1.
LEMMA IsTmaxRight ==
  ASSUME NEW x \in Words
  PROVE  isTmax(x) = test_isTmax(x)
<1> DEFINE n == Number(x)
           s == Plus(x, One)
           d == Xor(s, x)
<1>1. n \in Int /\ n >= -Half /\ n < Half
  BY NumberIs, Zenon DEF Ints
<1>2. s \in Words /\ Number(s) = Wrapped(n + 1)
  BY Constants, NumberPlus
<1>3. Not(x) \in Words /\ Number(Not(x)) = -1 - n /\ \A k \in Bit : Not(x)[k] = 1 - x[k]
  BY NumberNot
<1>4. d \in Words /\ \A k \in Bit : d[k] = IF s[k] = x[k] THEN 0 ELSE 1
  BY <1>2, XorBits
<1>5. isTmax(x) = Xor(Bang(Not(d)), Bang(Not(x)))
  BY DEF isTmax
<1>6. test_isTmax(x) = Truth(n = Half - 1)
  <2>1. Half - 1 = 2147483647
    BY SMT DEF Half
  <2> QED
    BY <2>1, SMT DEF test_isTmax
<1> HIDE DEF n, d
<1>7. Not(d) = Zero <=> s = Not(x)
  <2>1. Not(d) \in Words /\ \A k \in Bit : Not(d)[k] = 1 - d[k]
    BY <1>4, NumberNot
  <2>2. \A k \in Bit : x[k] \in {0, 1} /\ s[k] \in {0, 1}
    BY <1>2 DEF Words
  <2>3. \A k \in Bit : Not(d)[k] = 0 <=> s[k] = Not(x)[k]
    BY <1>3, <1>4, <2>1, <2>2
  <2>4. s = Not(x) <=> \A k \in Bit : s[k] = Not(x)[k]
    BY <1>2, <1>3, SameWord
  <2> QED
    BY <2>1, <2>3, <2>4, ZeroIs
<1>8. s = Not(x) <=> Wrapped(n + 1) = -1 - n
  BY <1>2, <1>3, NumberInjective
<1> HIDE DEF s
<1>9. Wrapped(n + 1) = -1 - n <=> n = -1 \/ n = Half - 1
  BY <1>1, HalfIs DEF Wrapped
<1>10. Not(x) = Zero <=> n = -1
  BY <1>1, <1>3, ZeroIs
<1>11. Xor(Truth(n = -1 \/ n = Half - 1), Truth(n = -1)) = Truth(n = Half - 1)
  <2>1. Xor(Truth(n = -1 \/ n = Half - 1), Truth(n = -1)) = Truth(~ ((n = -1 \/ n = Half - 1) <=> n = -1))
    BY TruthTable
  <2>2. ~ ((n = -1 \/ n = Half - 1) <=> n = -1) <=> n = Half - 1
    BY <1>1, HalfIs
  <2> QED
    BY <2>1, <2>2 DEF Truth
<1> QED
  <2>1. Bang(Not(d)) = Truth(n = -1 \/ n = Half - 1)
    BY <1>7, <1>8, <1>9 DEF Bang, Truth
  <2>2. Bang(Not(x)) = Truth(n = -1)
    BY <1>10 DEF Bang, Truth
  <2> QED
    BY <1>5, <1>6, <1>11, <2>1, <2>2

\* isAsciiDigit compares with both bounds, on a number below 64.
LEMMA IsAsciiDigitRight ==
  ASSUME NEW x \in Words
  PROVE  isAsciiDigit(x) = test_isAsciiDigit(x)
<1> DEFINE n == Number(x)
           a == Plus(Plus(Not(x), One), Word(57))
           b == Plus(Plus(x, Not(Word(48))), One)
<1>1. n \in Int /\ n >= -Half /\ n < Half
  BY NumberIs, Zenon DEF Ints
<1>2. 57 \in Ints /\ 48 \in Ints
  BY HalfIs DEF Ints
<1>3. /\ Word(57) \in Words /\ Number(Word(57)) = 57
      /\ Not(Word(48)) \in Words /\ Number(Not(Word(48))) = -49
  BY <1>2, NumberWord, NumberNot
<1>4. a \in Words /\ Number(a) = Wrapped((IF n = -Half THEN -Half ELSE -n) + 57)
  BY <1>3, Negation, NumberPlus
<1>5. b \in Words /\ Number(b) = Wrapped(Wrapped(n - 49) + 1)
  <2>1. Plus(x, Not(Word(48))) \in Words /\ Number(Plus(x, Not(Word(48)))) = Wrapped(n + (-49))
    BY <1>3, NumberPlus
  <2>2. n + (-49) = n - 49
    BY <1>1
  <2> QED
    BY <2>1, <2>2, Constants, NumberPlus
<1>6. Sar(x, 6) = Zero <=> 0 <= n /\ n < 64
  <2>1. 6 \in 0..31 /\ Pow(6) = 64
    BY PowerValues DEF Pow
  <2> QED
    BY <2>1, ShiftedOut
<1>7. isAsciiDigit(x) = And(And(Bang(Sar(x, 6)), Bang(Sar(a, 31))), Bang(Sar(b, 31)))
  BY DEF isAsciiDigit
<1>8. test_isAsciiDigit(x) = Truth(n \in 48..57)
  BY DEF test_isAsciiDigit
<1> HIDE DEF n, a, b
<1> DEFINE p == 0 <= n /\ n < 64
           q == Number(a) >= 0
           r == Number(b) >= 0
<1>9. Bang(Sar(x, 6)) = Truth(p) /\ Bang(Sar(a, 31)) = Truth(q) /\ Bang(Sar(b, 31)) = Truth(r)
  BY <1>4, <1>5, <1>6, SignIs DEF Bang, Truth
<1>10. p /\ q /\ r <=> n \in 48..57
  BY <1>1, <1>4, <1>5, HalfIs DEF Wrapped
<1>11. p \in BOOLEAN /\ q \in BOOLEAN /\ r \in BOOLEAN
  OBVIOUS
<1> HIDE DEF p, q, r
<1>12. And(Truth(p), Truth(q)) = Truth(p /\ q)
  BY <1>11, TruthTable
<1>13. And(Truth(p /\ q), Truth(r)) = Truth((p /\ q) /\ r)
  BY <1>11, TruthTable
<1>14. Truth((p /\ q) /\ r) = Truth(n \in 48..57)
  BY <1>10 DEF Truth
<1> QED
  BY <1>7, <1>8, <1>9, <1>12, <1>13, <1>14

\* A mask of equal bits chooses one of two words.
LEMMA MaskChooses ==
  ASSUME NEW m \in Words, NEW y \in Words, NEW z \in Words, NEW u \in {0, 1}, \A k \in Bit : m[k] = u
  PROVE  Or(And(m, y), And(Not(m), z)) = IF u = 1 THEN y ELSE z
<1> DEFINE r == IF u = 1 THEN y ELSE z
           a == And(m, y)
           b == And(Not(m), z)
<1>1. r \in Words
  OBVIOUS
<1>2. a \in Words /\ \A k \in Bit : a[k] = IF m[k] = 1 /\ y[k] = 1 THEN 1 ELSE 0
  BY AndBits
<1>3. Not(m) \in Words /\ \A k \in Bit : Not(m)[k] = 1 - m[k]
  BY NumberNot
<1>4. b \in Words /\ \A k \in Bit : b[k] = IF Not(m)[k] = 1 /\ z[k] = 1 THEN 1 ELSE 0
  BY <1>3, AndBits
<1> HIDE DEF a, b
<1>5. Or(a, b) \in Words /\ \A k \in Bit : Or(a, b)[k] = IF a[k] = 1 \/ b[k] = 1 THEN 1 ELSE 0
  BY <1>2, <1>4, OrBits
<1>6. \A k \in Bit : y[k] \in {0, 1} /\ z[k] \in {0, 1}
  BY DEF Words
<1>7. \A k \in Bit : Or(a, b)[k] = r[k]
  <2> TAKE k \in Bit
  <2>1. CASE u = 1
    BY <1>2, <1>3, <1>4, <1>5, <1>6, <2>1
  <2>2. CASE u = 0
    BY <1>2, <1>3, <1>4, <1>5, <1>6, <2>2
  <2> QED
    BY <2>1, <2>2
<1> HIDE DEF r
<1>8. Or(a, b) = r
  BY <1>1, <1>5, <1>7, SameWord
<1> QED
  BY <1>8 DEF a, b, r

\* conditional masks both with a word of ones or of zeros.
LEMMA ConditionalRight ==
  ASSUME NEW x \in Words, NEW y \in Words, NEW z \in Words
  PROVE  conditional(x, y, z) = test_conditional(x, y, z)
<1> DEFINE m == Plus(Bang(x), Not(Zero))
           u == IF x # Zero THEN 1 ELSE 0
<1>1. m \in Words /\ \A k \in Bit : m[k] = u
  <2>1. /\ Bang(x) \in Words
        /\ Number(Bang(x)) = IF x = Zero THEN 1 ELSE 0
    BY TruthIs DEF Bang
  <2>2. m \in Words /\ Number(m) = Wrapped((IF x = Zero THEN 1 ELSE 0) + (-1))
    BY <2>1, MinusOne, NumberPlus
  <2>3. Number(m) = IF x = Zero THEN 0 ELSE -1
    BY <2>2, HalfIs DEF Wrapped
  <2>4. m = IF x = Zero THEN Zero ELSE Not(Zero)
    BY <2>2, <2>3, MinusOne, Constants, NumberInjective
  <2> QED
    BY <2>2, <2>4, MinusOne, Constants
<1>2. conditional(x, y, z) = Or(And(m, y), And(Not(m), z))
  BY DEF conditional
<1> HIDE DEF m
<1>3. Or(And(m, y), And(Not(m), z)) = IF u = 1 THEN y ELSE z
  BY <1>1, MaskChooses
<1> QED
  BY <1>2, <1>3 DEF test_conditional

\* isLessOrEqual decides by the signs when they differ, and by the difference,
\* which cannot overflow then, when they do not.
LEMMA IsLessOrEqualRight ==
  ASSUME NEW x \in Words, NEW y \in Words
  PROVE  isLessOrEqual(x, y) = test_isLessOrEqual(x, y)
<1> DEFINE m == Number(x)
           n == Number(y)
           d == Plus(Plus(Not(x), One), y)
           p == m >= 0
           q == n >= 0
           r == Number(d) >= 0
<1>1. m \in Int /\ m >= -Half /\ m < Half /\ n \in Int /\ n >= -Half /\ n < Half
  BY NumberIs, Zenon DEF Ints
<1>2. d \in Words /\ Number(d) = Wrapped((IF m = -Half THEN -Half ELSE -m) + n)
  BY Negation, NumberPlus
<1>3. isLessOrEqual(x, y) =
        Or(And(Xor(Bang(Sar(x, 31)), Bang(Sar(y, 31))), Bang(Sar(y, 31))),
           And(Bang(Xor(Bang(Sar(x, 31)), Bang(Sar(y, 31)))), Bang(Sar(d, 31))))
  BY MinusOne DEF isLessOrEqual
<1>4. test_isLessOrEqual(x, y) = Truth(m <= n)
  BY DEF test_isLessOrEqual
<1> HIDE DEF d
<1>5. Bang(Sar(x, 31)) = Truth(p) /\ Bang(Sar(y, 31)) = Truth(q) /\ Bang(Sar(d, 31)) = Truth(r)
  BY <1>2, SignIs
<1>6. (~ (p <=> q) /\ q) \/ (~ ~ (p <=> q) /\ r) <=> m <= n
  BY <1>1, <1>2, HalfIs DEF Wrapped
<1>7. p \in BOOLEAN /\ q \in BOOLEAN /\ r \in BOOLEAN
  OBVIOUS
<1> HIDE DEF p, q, r
<1> DEFINE e == ~ (p <=> q)
<1>8. Xor(Truth(p), Truth(q)) = Truth(e) /\ e \in BOOLEAN
  BY <1>7, TruthTable
<1>9. Truth((e /\ q) \/ (~ e /\ r)) = Truth(m <= n)
  BY <1>6 DEF Truth
<1> HIDE DEF e, m, n
<1>10. Bang(Truth(e)) = Truth(~ e)
  BY <1>8, TruthIs
<1>11. And(Truth(e), Truth(q)) = Truth(e /\ q) /\ And(Truth(~ e), Truth(r)) = Truth(~ e /\ r)
  BY <1>7, <1>8, TruthTable
<1>12. Or(Truth(e /\ q), Truth(~ e /\ r)) = Truth((e /\ q) \/ (~ e /\ r))
  <2>1. (e /\ q) \in BOOLEAN /\ (~ e /\ r) \in BOOLEAN
    OBVIOUS
  <2> QED
    BY <2>1, TruthTable
<1> QED
  BY <1>3, <1>4, <1>5, <1>8, <1>9, <1>10, <1>11, <1>12

\* logicalNeg: x and -x have one sign only when x is 0 or the smallest int.
LEMMA LogicalNegRight ==
  ASSUME NEW x \in Words
  PROVE  logicalNeg(x) = test_logicalNeg(x)
<1> DEFINE n == Number(x)
           s == Plus(Not(x), One)
           d == Xor(s, x)
           t == Xor(Tmin, x)
           f == Not(Sar(d, 31))
           g == And(One, f)
           h == Sar(t, 31)
<1>1. n \in Int /\ n >= -Half /\ n < Half
  BY NumberIs, Zenon DEF Ints
<1>2. s \in Words /\ Number(s) = IF n = -Half THEN -Half ELSE -n
  BY Negation
<1>3. logicalNeg(x) = And(g, h)
  BY MinusOne DEF logicalNeg
<1>4. test_logicalNeg(x) = Truth(n = 0)
  BY ZeroIs DEF test_logicalNeg, Truth
<1> HIDE DEF s
<1>5. d \in Words /\ d[31] = IF s[31] = x[31] THEN 0 ELSE 1
  <2>1. 31 \in Bit
    BY DEF Bit
  <2> QED
    BY <1>2, <2>1, XorBits
<1>6. t \in Words /\ t[31] = IF x[31] = 1 THEN 0 ELSE 1
  <2>1. 31 \in Bit
    BY DEF Bit
  <2>2. t \in Words /\ \A k \in Bit : t[k] = IF Tmin[k] = x[k] THEN 0 ELSE 1
    BY TminIs, XorBits
  <2>3. Tmin[31] = 1
    BY <2>1, TminIs
  <2> QED
    BY <2>1, <2>2, <2>3
<1> HIDE DEF d, t
<1>7. s[31] = 1 <=> Number(s) < 0
  BY <1>2, NumberIs, Zenon
<1>8. x[31] = 1 <=> n < 0
  BY NumberIs, Zenon
<1>9. s[31] \in {0, 1} /\ x[31] \in {0, 1}
  BY <1>2, NumberIs, Zenon
<1>10. d[31] = 0 /\ t[31] = 1 <=> n = 0
  BY <1>1, <1>2, <1>5, <1>6, <1>7, <1>8, <1>9, HalfIs
<1>11. \A k \in Bit : Sar(d, 31)[k] = d[31] /\ h[k] = t[31]
  <2>1. 31 \in Nat /\ \A k \in Bit : k + 31 <= 31 => k + 31 = 31
    BY DEF Bit
  <2>2. \A k \in Bit : Sar(d, 31)[k] = IF k + 31 <= 31 THEN d[k + 31] ELSE d[31]
    BY <1>5, <2>1, ShiftBits
  <2>3. \A k \in Bit : Sar(t, 31)[k] = IF k + 31 <= 31 THEN t[k + 31] ELSE t[31]
    BY <1>6, <2>1, ShiftBits
  <2> QED
    BY <2>1, <2>2, <2>3
<1>12. h \in Words /\ Sar(d, 31) \in Words
  BY <1>5, <1>6, ShiftBits
<1>13. f \in Words /\ \A k \in Bit : f[k] = 1 - Sar(d, 31)[k]
  BY <1>12, NumberNot
<1> HIDE DEF f, h
<1>14. g \in Words /\ \A k \in Bit : g[k] = IF One[k] = 1 /\ f[k] = 1 THEN 1 ELSE 0
  BY <1>13, Constants, AndBits
<1> HIDE DEF g
<1>15. And(g, h) \in Words /\ \A k \in Bit : And(g, h)[k] = IF g[k] = 1 /\ h[k] = 1 THEN 1 ELSE 0
  BY <1>12, <1>14, AndBits
<1>16. Truth(n = 0) \in Words /\ \A k \in Bit : Truth(n = 0)[k] = IF k = 0 /\ n = 0 THEN 1 ELSE 0
  BY TruthIs
<1>17. \A k \in Bit : One[k] = IF k = 0 THEN 1 ELSE 0
  BY Constants
<1> HIDE DEF n
<1>18. d[31] \in {0, 1}
  BY <1>5, NumberIs, Zenon
<1>19. \A k \in Bit : And(g, h)[k] = Truth(n = 0)[k]
  BY <1>10, <1>11, <1>13, <1>14, <1>15, <1>16, <1>17, <1>18
<1> QED
  BY <1>3, <1>4, <1>15, <1>16, <1>19, SameWord

\* Words that share no bit add without carries.
LEMMA DisjointPlus ==
  ASSUME NEW x \in Words, NEW y \in Words, \A k \in Bit : x[k] = 0 \/ y[k] = 0
  PROVE  Plus(x, y) \in Words /\ \A k \in Bit : Plus(x, y)[k] = IF x[k] = 1 \/ y[k] = 1 THEN 1 ELSE 0
<1>1. ASSUME NEW k \in Bit
      PROVE  Plus(x, y)[k] = IF x[k] = 1 \/ y[k] = 1 THEN 1 ELSE 0
  <2>1. \A l \in 0..k-1 : l \in Bit
    BY DEF Bit
  <2>2. Carry(x, y, k) = 0
    BY <2>1 DEF Carry
  <2>3. x[k] \in {0, 1} /\ y[k] \in {0, 1}
    BY DEF Words
  <2>4. Plus(x, y)[k] = (x[k] + y[k] + 0) % 2
    BY <2>2, PlusBits
  <2>5. (0 + 0 + 0) % 2 = 0 /\ (1 + 0 + 0) % 2 = 1 /\ (0 + 1 + 0) % 2 = 1
    OBVIOUS
  <2> QED
    BY <2>3, <2>4, <2>5
<1> QED
  BY <1>1, PlusBits

\* 85 has the even ones of eight bits.
LEMMA EightyFive ==
  Word(85) \in Words /\ \A k \in Bit : Word(85)[k] = IF k % 2 = 0 /\ k < 8 THEN 1 ELSE 0
<1>1. Word(85) \in Words
  <2>1. 85 \in Ints
    BY HalfIs DEF Ints
  <2> QED
    BY <2>1, NumberWord
<1>2. ASSUME NEW k \in Bit
      PROVE  Word(85)[k] = IF k % 2 = 0 /\ k < 8 THEN 1 ELSE 0
  <2>1. k \in 0..31
    BY DEF Bit
  <2>2. CASE k = 31
    BY <2>2 DEF Word
  <2>3. CASE k \in 8..30
    <3>1. Word(85)[k] = (85 \div pow2[k]) % 2
      BY <2>3 DEF Word
    <3>2. pow2[k] \in Nat /\ pow2[k] >= 256
      <4>1. Pow(8) = 256 /\ Pow(k) = pow2[k] /\ 8 \in 0..k /\ k \in 0..31
        BY <2>3, PowerValues DEF Pow
      <4>2. Pow(8) <= Pow(k) /\ Pow(8) \in Nat /\ Pow(k) \in Nat
        BY <4>1, PowGrows
      <4> QED
        BY <4>1, <4>2
    <3>3. 85 \div pow2[k] = 0
      BY <3>2
    <3> QED
      BY <2>3, <3>1, <3>3
  <2>4. CASE k \in 0..7
    <3>1. Word(85)[k] = (85 \div pow2[k]) % 2
      BY <2>4 DEF Word
    <3>2. k = 0 \/ k = 1 \/ k = 2 \/ k = 3 \/ k = 4 \/ k = 5 \/ k = 6 \/ k = 7
      BY <2>4
    <3>3. /\ pow2[0] = 1 /\ pow2[1] = 2 /\ pow2[2] = 4 /\ pow2[3] = 8
          /\ pow2[4] = 16 /\ pow2[5] = 32 /\ pow2[6] = 64 /\ pow2[7] = 128
      BY PowerValues
    <3>4. /\ (85 \div 1) % 2 = 1 /\ (85 \div 2) % 2 = 0 /\ (85 \div 4) % 2 = 1 /\ (85 \div 8) % 2 = 0
          /\ (85 \div 16) % 2 = 1 /\ (85 \div 32) % 2 = 0 /\ (85 \div 64) % 2 = 1 /\ (85 \div 128) % 2 = 0
      OBVIOUS
    <3>5. /\ 0 % 2 = 0 /\ 1 % 2 = 1 /\ 2 % 2 = 0 /\ 3 % 2 = 1
          /\ 4 % 2 = 0 /\ 5 % 2 = 1 /\ 6 % 2 = 0 /\ 7 % 2 = 1
      OBVIOUS
    <3> QED
      BY <3>1, <3>2, <3>3, <3>4, <3>5
  <2> QED
    BY <2>1, <2>2, <2>3, <2>4
<1> QED
  BY <1>1, <1>2

\* allOddBits fills the even bits and compares with the word of ones.
LEMMA AllOddBitsRight ==
  ASSUME NEW x \in Words
  PROVE  allOddBits(x) = test_allOddBits(x)
<1> DEFINE e == Word(85)
           s == Plus(Shl(e, 8), e)
           m == Plus(Shl(s, 16), s)
           o == Or(x, m)
<1>1. e \in Words /\ \A k \in Bit : e[k] = IF k % 2 = 0 /\ k < 8 THEN 1 ELSE 0
  BY EightyFive
<1>2. allOddBits(x) = Bang(Not(o))
  BY DEF allOddBits
<1> HIDE DEF e
<1>3. s \in Words /\ \A k \in Bit : s[k] = IF k % 2 = 0 /\ k < 16 THEN 1 ELSE 0
  <2> DEFINE h == Shl(e, 8)
  <2>1. h \in Words /\ \A k \in Bit : h[k] = IF k >= 8 THEN e[k - 8] ELSE 0
    BY <1>1, ShiftBits
  <2>2. \A k \in Bit : k \in 0..31 /\ (k >= 8 => k - 8 \in Bit /\ ((k - 8) % 2 = 0 <=> k % 2 = 0))
    BY DEF Bit
  <2> HIDE DEF h
  <2>3. \A k \in Bit : h[k] = IF k % 2 = 0 /\ k >= 8 /\ k < 16 THEN 1 ELSE 0
    BY <1>1, <2>1, <2>2
  <2>4. \A k \in Bit : h[k] = 0 \/ e[k] = 0
    BY <1>1, <2>2, <2>3
  <2>5. Plus(h, e) \in Words /\ \A k \in Bit : Plus(h, e)[k] = IF h[k] = 1 \/ e[k] = 1 THEN 1 ELSE 0
    BY <1>1, <2>1, <2>4, DisjointPlus
  <2>6. \A k \in Bit : Plus(h, e)[k] = IF k % 2 = 0 /\ k < 16 THEN 1 ELSE 0
    BY <1>1, <2>2, <2>3, <2>5
  <2> QED
    BY <2>5, <2>6 DEF h
<1> HIDE DEF s
<1>4. m \in Words /\ \A k \in Bit : m[k] = IF k % 2 = 0 THEN 1 ELSE 0
  <2> DEFINE h == Shl(s, 16)
  <2>1. h \in Words /\ \A k \in Bit : h[k] = IF k >= 16 THEN s[k - 16] ELSE 0
    BY <1>3, ShiftBits
  <2>2. \A k \in Bit : k \in 0..31 /\ (k >= 16 => k - 16 \in Bit /\ ((k - 16) % 2 = 0 <=> k % 2 = 0))
    BY DEF Bit
  <2> HIDE DEF h
  <2>3. \A k \in Bit : h[k] = IF k % 2 = 0 /\ k >= 16 THEN 1 ELSE 0
    BY <1>3, <2>1, <2>2
  <2>4. \A k \in Bit : h[k] = 0 \/ s[k] = 0
    BY <1>3, <2>2, <2>3
  <2>5. Plus(h, s) \in Words /\ \A k \in Bit : Plus(h, s)[k] = IF h[k] = 1 \/ s[k] = 1 THEN 1 ELSE 0
    BY <1>3, <2>1, <2>4, DisjointPlus
  <2>6. \A k \in Bit : Plus(h, s)[k] = IF k % 2 = 0 THEN 1 ELSE 0
    BY <1>3, <2>2, <2>3, <2>5
  <2> QED
    BY <2>5, <2>6 DEF h
<1> HIDE DEF m
<1>5. o \in Words /\ \A k \in Bit : o[k] = IF x[k] = 1 \/ m[k] = 1 THEN 1 ELSE 0
  BY <1>4, OrBits
<1> HIDE DEF o
<1>6. Not(o) \in Words /\ \A k \in Bit : Not(o)[k] = 1 - o[k]
  BY <1>5, NumberNot
<1>7. Not(o) = Zero <=> \A k \in Bit : Not(o)[k] = 0
  BY <1>6, ZeroIs
<1>8. \A k \in Bit : k % 2 = 0 \/ k % 2 = 1
  BY DEF Bit
<1>9. \A k \in Bit : Not(o)[k] = 0 <=> (k % 2 = 1 => x[k] = 1)
  BY <1>4, <1>5, <1>6, <1>8
<1>10. Not(o) = Zero <=> \A k \in Bit : k % 2 = 1 => x[k] = 1
  BY <1>7, <1>9
<1> QED
  BY <1>2, <1>10 DEF Bang, Truth, test_allOddBits

\* x has n bits up to its last 1.
HasLength(x, n) == n \in 0..32 /\ (\A k \in n..31 : x[k] = 0) /\ (n > 0 => x[n-1] = 1)

\* Every word has a length, and a sign that is 0 leaves 31 bits for it.
LEMMA LengthExists ==
  ASSUME NEW x \in Words
  PROVE  \E n \in 0..32 : HasLength(x, n) /\ (x[31] = 0 => n <= 31)
<1> DEFINE T == {m \in Nat : m <= 32 /\ (\A k \in m..31 : x[k] = 0) => \E n \in 0..32 : HasLength(x, n)}
<1>1. 0 \in T
  <2>1. (\A k \in 0..31 : x[k] = 0) => HasLength(x, 0)
    BY DEF HasLength
  <2> QED
    BY <2>1
<1>2. ASSUME NEW m \in Nat, m \in T
      PROVE  m + 1 \in T
  <2> SUFFICES ASSUME m + 1 <= 32, \A k \in m+1..31 : x[k] = 0
               PROVE  \E n \in 0..32 : HasLength(x, n)
    OBVIOUS
  <2>1. m \in Bit /\ x[m] \in {0, 1}
    BY DEF Bit, Words
  <2>2. CASE x[m] = 1
    <3>1. HasLength(x, m + 1)
      BY <2>2 DEF HasLength
    <3>2. m + 1 \in 0..32
      OBVIOUS
    <3> QED
      BY <3>1, <3>2
  <2>3. CASE x[m] = 0
    <3>1. \A k \in m..31 : k = m \/ k \in m+1..31
      OBVIOUS
    <3>2. \A k \in m..31 : x[k] = 0
      BY <2>3, <3>1
    <3>3. m <= 32
      OBVIOUS
    <3> QED
      BY <1>2, <3>2, <3>3
  <2> QED
    BY <2>1, <2>2, <2>3
<1>3. 32 \in T
  <2> HIDE DEF T
  <2>1. 32 \in Nat
    OBVIOUS
  <2> QED
    BY <1>1, <1>2, <2>1, AllNumbers
<1>4. PICK n \in 0..32 : HasLength(x, n)
  <2>1. \A k \in 32..31 : x[k] = 0
    OBVIOUS
  <2> QED
    BY <1>3, <2>1
<1>5. x[31] = 0 => n <= 31
  <2>1. n > 0 => x[n-1] = 1
    BY <1>4 DEF HasLength
  <2> QED
    BY <2>1
<1> QED
  BY <1>4, <1>5

\* Shifting takes bits off, and leaves 0 when there are no more.
LEMMA LengthShifted ==
  ASSUME NEW x \in Words, NEW n \in 0..31, HasLength(x, n), NEW p \in 0..31
  PROVE  /\ Sar(x, p) \in Words
         /\ Sar(x, p) = Zero <=> n <= p
         /\ n >= p => HasLength(Sar(x, p), n - p)
<1>1. Sar(x, p) \in Words /\ \A k \in Bit : Sar(x, p)[k] = IF k + p <= 31 THEN x[k + p] ELSE x[31]
  <2>1. p \in Nat
    OBVIOUS
  <2> QED
    BY <2>1, ShiftBits
<1>2. (\A k \in n..31 : x[k] = 0) /\ (n > 0 => x[n-1] = 1)
  BY DEF HasLength
<1>3. Sar(x, p) = Zero <=> n <= p
  <2>1. Sar(x, p) = Zero <=> \A k \in p..31 : x[k] = 0
    BY ShiftedOut
  <2>2. ASSUME n <= p
        PROVE  \A k \in p..31 : x[k] = 0
    <3>1. \A k \in p..31 : k \in n..31
      BY <2>2
    <3> QED
      BY <1>2, <3>1
  <2>3. ASSUME ~ (n <= p)
        PROVE  ~ (\A k \in p..31 : x[k] = 0)
    <3>1. n - 1 \in p..31 /\ n > 0
      BY <2>3
    <3> QED
      BY <1>2, <3>1
  <2> QED
    BY <2>1, <2>2, <2>3
<1>4. ASSUME n >= p
      PROVE  HasLength(Sar(x, p), n - p)
  <2>1. n - p \in 0..32
    BY <1>4
  <2>2. ASSUME NEW k \in n-p..31
        PROVE  Sar(x, p)[k] = 0
    <3>1. k \in Bit /\ 31 \in n..31 /\ (k + p <= 31 => k + p \in n..31)
      BY <1>4 DEF Bit
    <3> QED
      BY <1>1, <1>2, <3>1
  <2>3. ASSUME n - p > 0
        PROVE  Sar(x, p)[(n - p) - 1] = 1
    <3>1. (n - p) - 1 \in Bit /\ ((n - p) - 1) + p = n - 1 /\ n - 1 <= 31 /\ n > 0
      BY <1>4, <2>3 DEF Bit
    <3>2. Sar(x, p)[(n - p) - 1] = x[n - 1]
      BY <1>1, <3>1
    <3> QED
      BY <1>2, <3>1, <3>2
  <2> QED
    BY <2>1, <2>2, <2>3 DEF HasLength
<1> QED
  BY <1>1, <1>3, <1>4

\* A step of the search leaves at most 2^k bits, and counts those it took.
Counts(f, n, b, most) ==
  /\ f.x \in Words /\ f.bits \in Nat
  /\ n \in 0..31 /\ n <= most /\ HasLength(f.x, n) /\ f.bits + n = b

\* A step of the search leaves half of the length to find.
LEMMA SearchStep ==
  ASSUME NEW f, NEW n, NEW b \in Nat, NEW k \in 0..4, Counts(f, n, b, 2 * pow2[k])
  PROVE  \E m : Counts(Halved(f, k), m, b, pow2[k])
<1> DEFINE p == pow2[k]
           taken == IF Sar(f.x, p) # Zero THEN p ELSE 0
           g == Halved(f, k)
<1>1. p \in {1, 2, 4, 8, 16} /\ p \in 0..31
  <2>1. k = 0 \/ k = 1 \/ k = 2 \/ k = 3 \/ k = 4
    OBVIOUS
  <2> QED
    BY <2>1, PowerValues
<1>2. g.x = Sar(f.x, taken) /\ g.bits = f.bits + taken
  BY DEF Halved
<1>3. /\ f.x \in Words /\ f.bits \in Nat
      /\ n \in 0..31 /\ n <= 2 * p /\ HasLength(f.x, n) /\ f.bits + n = b
  BY DEF Counts
<1> HIDE DEF p, g
<1>4. Sar(f.x, p) = Zero <=> n <= p
  BY <1>1, <1>3, LengthShifted
<1>5. taken = (IF n > p THEN p ELSE 0) /\ taken \in 0..31 /\ n >= taken
  BY <1>1, <1>3, <1>4
<1> HIDE DEF taken
<1>6. g.x \in Words /\ HasLength(g.x, n - taken)
  BY <1>2, <1>3, <1>5, LengthShifted
<1>7. n - taken \in 0..31 /\ n - taken <= p /\ g.bits \in Nat /\ g.bits + (n - taken) = b
  BY <1>1, <1>2, <1>3, <1>5
<1>8. Counts(g, n - taken, b, p)
  BY <1>6, <1>7 DEF Counts
<1> QED
  BY <1>8 DEF g, p

\* howManyBits searches the length of x, or of ~x when x is negative.
LEMMA HowManyBitsRight ==
  ASSUME NEW x \in Words
  PROVE  howManyBits(x) = test_howManyBits(x)
<1> DEFINE a == IF Number(x) < 0 THEN Not(x) ELSE x
           sign == Sar(x, 31)
           c == Or(And(sign, Not(x)), And(Not(sign), x))
<1>1. a \in Words /\ a[31] = 0
  <2>1. 31 \in Bit
    BY DEF Bit
  <2>2. Not(x) \in Words /\ Not(x)[31] = 1 - x[31]
    BY <2>1, NumberNot
  <2>3. x[31] \in {0, 1} /\ (x[31] = 1 <=> Number(x) < 0)
    BY NumberIs, Zenon
  <2> QED
    BY <2>2, <2>3
<1>2. c = a
  <2> DEFINE u == IF Number(x) < 0 THEN 1 ELSE 0
  <2>1. sign \in Words /\ \A k \in Bit : sign[k] = u
    <3>1. 31 \in Nat
      OBVIOUS
    <3> QED
      BY <3>1, ShiftBits, SignIs
  <2>2. Not(x) \in Words /\ u \in {0, 1}
    BY NumberNot
  <2> HIDE DEF sign, u
  <2>3. Or(And(sign, Not(x)), And(Not(sign), x)) = IF u = 1 THEN Not(x) ELSE x
    BY <2>1, <2>2, MaskChooses
  <2> QED
    BY <2>3 DEF u
<1>3. test_howManyBits(x) = Word(1 + Cardinality({k \in Bit : \E i \in k..31 : a[i] = 1}))
  BY DEF test_howManyBits
<1> DEFINE f0 == [x |-> a, bits |-> 1]
           f1 == Halved(f0, 4)
           f2 == Halved(f1, 3)
           f3 == Halved(f2, 2)
           f4 == Halved(f3, 1)
           f5 == Halved(f4, 0)
<1>4. howManyBits(x) = Word(f5.bits + (IF f5.x # Zero THEN 1 ELSE 0))
  BY <1>2, Zenon DEF howManyBits
<1> HIDE DEF a, c
<1>5. PICK n \in 0..32 : HasLength(a, n) /\ n <= 31
  BY <1>1, LengthExists
<1>6. Cardinality({k \in Bit : \E i \in k..31 : a[i] = 1}) = n
  <2> DEFINE S == {k \in Bit : \E i \in k..31 : a[i] = 1}
  <2>1. ASSUME NEW k \in Bit
        PROVE  (\E i \in k..31 : a[i] = 1) <=> k <= n - 1
    <3>1. ASSUME k <= n - 1
          PROVE  \E i \in k..31 : a[i] = 1
      <4>1. n - 1 \in k..31 /\ n > 0
        BY <3>1 DEF Bit
      <4> QED
        BY <1>5, <4>1 DEF HasLength
    <3>2. ASSUME NEW i \in k..31, a[i] = 1, ~ (k <= n - 1)
          PROVE  FALSE
      <4>1. i \in n..31
        BY <3>2 DEF Bit
      <4> QED
        BY <1>5, <3>2, <4>1 DEF HasLength
    <3> QED
      BY <3>1, <3>2
  <2>2. S = 0..n-1
    <3>1. \A k \in 0..n-1 : k \in Bit /\ k <= n - 1
      BY DEF Bit
    <3>2. \A k \in Bit : k <= n - 1 => k \in 0..n-1
      BY DEF Bit
    <3> QED
      BY <2>1, <3>1, <3>2
  <2> HIDE DEF S
  <2>3. Cardinality(0..n-1) = n
    BY FS_Interval
  <2> QED
    BY <2>2, <2>3 DEF S
<1> DEFINE b == 1 + n
<1>7. b \in Nat
  OBVIOUS
<1>8. Counts(f0, n, b, 32)
  BY <1>1, <1>5 DEF Counts
<1> HIDE DEF f0, f1, f2, f3, f4, f5, b
<1>9. /\ 2 * pow2[4] = 32 /\ 2 * pow2[3] = pow2[4] /\ 2 * pow2[2] = pow2[3]
      /\ 2 * pow2[1] = pow2[2] /\ 2 * pow2[0] = pow2[1] /\ pow2[0] = 1
  BY PowerValues
<1>10. \E m : Counts(f1, m, b, pow2[4])
  BY <1>7, <1>8, <1>9, SearchStep DEF f1
<1>11. \E m : Counts(f2, m, b, pow2[3])
  BY <1>7, <1>9, <1>10, SearchStep DEF f2
<1>12. \E m : Counts(f3, m, b, pow2[2])
  BY <1>7, <1>9, <1>11, SearchStep DEF f3
<1>13. \E m : Counts(f4, m, b, pow2[1])
  BY <1>7, <1>9, <1>12, SearchStep DEF f4
<1>14. \E m : Counts(f5, m, b, 1)
  BY <1>7, <1>9, <1>13, SearchStep DEF f5
<1>15. PICK m : Counts(f5, m, b, 1)
  BY <1>14
<1>16. /\ f5.x \in Words /\ f5.bits \in Nat /\ m \in 0..31 /\ m <= 1
       /\ HasLength(f5.x, m) /\ f5.bits + m = b
  BY <1>15 DEF Counts
<1>17. f5.x = Zero <=> m = 0
  <2>1. CASE m = 0
    <3>1. \A k \in Bit : k \in m..31
      BY <2>1 DEF Bit
    <3>2. \A k \in Bit : f5.x[k] = 0
      BY <1>16, <3>1 DEF HasLength
    <3> QED
      BY <1>16, <2>1, <3>2, ZeroIs
  <2>2. CASE m = 1
    <3>1. f5.x[0] = 1 /\ 0 \in Bit
      BY <1>16, <2>2 DEF HasLength, Bit
    <3> QED
      BY <1>16, <2>2, <3>1, ZeroIs
  <2> QED
    BY <1>16, <2>1, <2>2
<1>18. f5.bits + (IF f5.x # Zero THEN 1 ELSE 0) = 1 + n
  BY <1>16, <1>17 DEF b
<1> QED
  BY <1>3, <1>4, <1>6, <1>18
-----------------------------------------------------------------------------
(* The conversion of a float to an int. *)

\* The powers of a sum multiply.
LEMMA PowSum ==
  ASSUME NEW k \in 0..31, NEW n \in 0..31-k
  PROVE  Pow(k + n) = Pow(k) * Pow(n)
<1> DEFINE T == {i \in Nat : i <= n => Pow(k + i) = Pow(k) * Pow(i)}
<1>0. \A i \in 0..31 : Pow(i) \in Nat
  BY PowIs
<1>1. 0 \in T
  <2>1. Pow(0) = 1 /\ k + 0 = k /\ Pow(k) \in Nat
    BY <1>0, PowIs
  <2>2. Pow(k) * 1 = Pow(k)
    BY <2>1
  <2> QED
    BY <2>1, <2>2
<1>2. ASSUME NEW i \in Nat, i \in T
      PROVE  i + 1 \in T
  <2> SUFFICES ASSUME i + 1 <= n PROVE Pow(k + (i + 1)) = Pow(k) * Pow(i + 1)
    OBVIOUS
  <2>1. k + i \in 0..30 /\ i \in 0..30 /\ k + (i + 1) = (k + i) + 1 /\ i \in 0..31
    OBVIOUS
  <2>2. Pow(k + (i + 1)) = 2 * Pow(k + i) /\ Pow(i + 1) = 2 * Pow(i)
    BY <2>1, PowIs
  <2>3. Pow(k + i) = Pow(k) * Pow(i) /\ Pow(k) \in Nat /\ Pow(i) \in Nat
    BY <1>0, <1>2, <2>1
  <2>4. 2 * (Pow(k) * Pow(i)) = Pow(k) * (2 * Pow(i))
    BY <2>3
  <2> QED
    BY <2>2, <2>3, <2>4
<1> HIDE DEF T
<1>3. n \in T
  BY <1>1, <1>2, AllNumbers
<1> QED
  BY <1>3 DEF T

\* The bits of y, k places higher in x, count 2^k times as much.
LEMMA ShiftedLow ==
  ASSUME NEW x \in Words, NEW y \in Words, NEW k \in 0..31, NEW n \in 0..31-k,
         \A i \in 0..n-1 : x[k + i] = y[i]
  PROVE  Low(x, k + n) = Low(x, k) + Pow(k) * Low(y, n)
<1> DEFINE T == {i \in Nat : i <= n => Low(x, k + i) = Low(x, k) + Pow(k) * Low(y, i)}
<1>0. Low(x, k) \in Nat /\ Pow(k) \in Nat
  BY LowRange, PowIs
<1>1. 0 \in T
  <2>1. k + 0 = k /\ Low(y, 0) = 0 /\ Pow(k) * 0 = 0
    <3>1. 0 \in 0..31
      OBVIOUS
    <3> QED
      BY <1>0, <3>1, LowRange
  <2> QED
    BY <1>0, <2>1
<1>2. ASSUME NEW i \in Nat, i \in T
      PROVE  i + 1 \in T
  <2> SUFFICES ASSUME i + 1 <= n
               PROVE  Low(x, k + (i + 1)) = Low(x, k) + Pow(k) * Low(y, i + 1)
    OBVIOUS
  <2>1. k + i \in 0..30 /\ i \in 0..30 /\ k + (i + 1) = (k + i) + 1 /\ i \in 0..n-1 /\ i \in 0..31-k
    OBVIOUS
  <2>2. /\ x[k + i] = 0 => Low(x, (k + i) + 1) = Low(x, k + i)
        /\ x[k + i] = 1 => Low(x, (k + i) + 1) = Low(x, k + i) + Pow(k + i)
        /\ x[k + i] \in {0, 1} /\ Low(x, k + i) \in Nat
    BY <2>1, LowLast
  <2>3. /\ y[i] = 0 => Low(y, i + 1) = Low(y, i)
        /\ y[i] = 1 => Low(y, i + 1) = Low(y, i) + Pow(i)
        /\ Low(y, i) \in Nat /\ Pow(i) \in Nat
    BY <2>1, LowLast
  <2>4. Pow(k + i) = Pow(k) * Pow(i)
    BY <2>1, PowSum
  <2>5. Low(x, k + i) = Low(x, k) + Pow(k) * Low(y, i) /\ x[k + i] = y[i]
    BY <1>2, <2>1
  <2>6. Pow(k) * (Low(y, i) + Pow(i)) = Pow(k) * Low(y, i) + Pow(k) * Pow(i)
    BY <1>0, <2>3
  <2>7. Pow(k) * Low(y, i) \in Nat /\ Pow(k) * Pow(i) \in Nat
    BY <1>0, <2>3
  <2> HIDE DEF T
  <2>8. CASE x[k + i] = 0
    BY <2>1, <2>2, <2>3, <2>5, <2>8
  <2>9. CASE x[k + i] = 1
    <3>1. Low(x, k + (i + 1)) = (Low(x, k) + Pow(k) * Low(y, i)) + Pow(k) * Pow(i)
      BY <2>1, <2>2, <2>4, <2>5, <2>9
    <3>2. Low(y, i + 1) = Low(y, i) + Pow(i)
      BY <2>3, <2>5, <2>9
    <3> HIDE DEF Low
    <3> QED
      BY <1>0, <2>6, <2>7, <3>1, <3>2
  <2> QED
    BY <2>2, <2>8, <2>9
<1> HIDE DEF T
<1>3. n \in T
  BY <1>1, <1>2, AllNumbers
<1> QED
  BY <1>3 DEF T

\* The quotient is the only number with a remainder.
LEMMA QuotientIs ==
  ASSUME NEW v \in Int, NEW d \in Nat \ {0}, NEW q \in Int, NEW r \in Int,
         v = r + d * q, 0 <= r, r < d
  PROVE  v \div d = q
<1> DEFINE g == v \div d
           w == v % d
<1>1. g \in Int /\ w \in Int /\ v = d * g + w /\ 0 <= w /\ w < d
  OBVIOUS
<1> HIDE DEF g, w
<1> DEFINE t == g - q
<1>2. t \in Int /\ d * t = r - w
  BY <1>1
<1> HIDE DEF t
<1>3. ASSUME t >= 1 PROVE FALSE
  <2>1. d * t >= d
    BY <1>2, <1>3
  <2> QED
    BY <1>1, <1>2, <2>1
<1>4. ASSUME t <= -1 PROVE FALSE
  <2>1. d * t <= -d
    BY <1>2, <1>4
  <2> QED
    BY <1>1, <1>2, <2>1
<1>5. t = 0
  BY <1>2, <1>3, <1>4
<1> QED
  BY <1>1, <1>5 DEF t, g

\* Shifting a number that is not negative to the right divides it.
LEMMA NumberSar ==
  ASSUME NEW x \in Words, x[31] = 0, NEW k \in 0..30
  PROVE  Sar(x, k) \in Words /\ Number(Sar(x, k)) = Number(x) \div pow2[k]
<1> DEFINE y == Sar(x, k)
<1>1. y \in Words /\ \A i \in Bit : y[i] = IF i + k <= 31 THEN x[i + k] ELSE x[31]
  <2>1. k \in Nat
    OBVIOUS
  <2> QED
    BY <2>1, ShiftBits
<1> HIDE DEF y
<1>2. \A i \in 0..(31-k)-1 : x[k + i] = y[i]
  <2>1. \A i \in 0..(31-k)-1 : i \in Bit /\ i + k <= 31 /\ i + k = k + i
    BY DEF Bit
  <2> QED
    BY <1>1, <2>1
<1>3. Low(x, k + (31-k)) = Low(x, k) + Pow(k) * Low(y, 31-k)
  <2>1. k \in 0..31 /\ 31-k \in 0..31-k
    OBVIOUS
  <2> QED
    BY <1>1, <1>2, <2>1, ShiftedLow
<1>4. \A i \in 31-k..31 : i \in Bit /\ y[i] = 0
  <2>1. \A i \in 31-k..31 : i \in Bit /\ (i + k <= 31 => i + k = 31)
    BY DEF Bit
  <2> QED
    BY <1>1, <2>1
<1>5. Low(y, 31) = Low(y, 31-k)
  <2>1. 31 \in 0..31 /\ 0 + 31 <= 32 /\ 0 \in Nat /\ 31-k \in 0..31
    OBVIOUS
  <2>2. \A i \in 31-k..31-1 : y[0 + i] = 0
    BY <1>4
  <2> QED
    BY <1>1, <2>1, <2>2, PartZero DEF Low
<1>6. Number(x) = Low(x, 31) /\ Number(y) = Low(y, 31) /\ Number(x) \in Nat /\ Number(y) \in Nat
  <2>1. y[31] = 0
    BY <1>4
  <2>2. /\ Number(x) = Low(x, 31) - (IF x[31] = 1 THEN Half ELSE 0) /\ Low(x, 31) \in Nat
        /\ Number(y) = Low(y, 31) - (IF y[31] = 1 THEN Half ELSE 0) /\ Low(y, 31) \in Nat
    BY <1>1, NumberIs
  <2> QED
    BY <2>1, <2>2
<1>7. Low(x, k) \in Nat /\ Low(x, k) < Pow(k) /\ Pow(k) \in Nat \ {0} /\ Pow(k) = pow2[k]
  <2>1. k \in 0..31 /\ k # 31
    OBVIOUS
  <2> QED
    BY <2>1, LowRange, PowIs DEF Pow
<1>8. k + (31-k) = 31
  OBVIOUS
<1>9. Number(x) = Low(x, k) + Pow(k) * Number(y)
  BY <1>3, <1>5, <1>6, <1>8
<1>10. Number(x) \div Pow(k) = Number(y)
  BY <1>6, <1>7, <1>9, QuotientIs
<1> QED
  BY <1>1, <1>7, <1>10 DEF y

\* Shifting to the left multiplies, when the bits that leave are 0.
LEMMA NumberShl ==
  ASSUME NEW x \in Words, NEW k \in 0..30, \A i \in 31-k..31 : x[i] = 0
  PROVE  Shl(x, k) \in Words /\ Number(Shl(x, k)) = Number(x) * pow2[k]
<1> DEFINE y == Shl(x, k)
<1>1. y \in Words /\ \A i \in Bit : y[i] = IF i >= k THEN x[i - k] ELSE 0
  <2>1. k \in Nat
    OBVIOUS
  <2> QED
    BY <2>1, ShiftBits
<1> HIDE DEF y
<1>2. \A i \in 0..(31-k)-1 : y[k + i] = x[i]
  <2>1. \A i \in 0..(31-k)-1 : k + i \in Bit /\ k + i >= k /\ (k + i) - k = i
    BY DEF Bit
  <2> QED
    BY <1>1, <2>1
<1>3. Low(y, k + (31-k)) = Low(y, k) + Pow(k) * Low(x, 31-k)
  <2>1. k \in 0..31 /\ 31-k \in 0..31-k
    OBVIOUS
  <2> QED
    BY <1>1, <1>2, <2>1, ShiftedLow
<1>4. Low(y, k) = 0
  <2>1. k \in 0..31 /\ 0 + k <= 32 /\ 0 \in Nat
    OBVIOUS
  <2>2. \A i \in 0..k-1 : 0 + i \in Bit /\ ~ (0 + i >= k)
    BY DEF Bit
  <2>3. \A i \in 0..k-1 : y[0 + i] = 0
    BY <1>1, <2>2
  <2> QED
    BY <1>1, <2>1, <2>3, PartZero DEF Low
<1>5. Low(x, 31) = Low(x, 31-k)
  <2>1. 31 \in 0..31 /\ 0 + 31 <= 32 /\ 0 \in Nat /\ 31-k \in 0..31
    OBVIOUS
  <2>2. \A i \in 31-k..31-1 : x[0 + i] = 0
    <3>1. \A i \in 31-k..31-1 : i \in 31-k..31 /\ 0 + i = i
      OBVIOUS
    <3> QED
      BY <3>1
  <2> QED
    BY <2>1, <2>2, PartZero DEF Low
<1>6. Number(x) = Low(x, 31) /\ Number(y) = Low(y, 31) /\ Number(x) \in Nat
  <2>1. x[31] = 0 /\ y[31] = 0
    <3>1. 31 \in 31-k..31 /\ 31 \in Bit /\ 31 >= k /\ 31-k \in 31-k..31
      BY DEF Bit
    <3> QED
      BY <1>1, <3>1
  <2>2. /\ Number(x) = Low(x, 31) - (IF x[31] = 1 THEN Half ELSE 0) /\ Low(x, 31) \in Nat
        /\ Number(y) = Low(y, 31) - (IF y[31] = 1 THEN Half ELSE 0) /\ Low(y, 31) \in Nat
    BY <1>1, NumberIs
  <2> QED
    BY <2>1, <2>2
<1>7. Pow(k) \in Nat /\ Pow(k) = pow2[k]
  <2>1. k \in 0..31 /\ k # 31
    OBVIOUS
  <2> QED
    BY <2>1, PowIs DEF Pow
<1>8. k + (31-k) = 31
  OBVIOUS
<1>9. Number(y) = 0 + Pow(k) * Number(x)
  BY <1>3, <1>4, <1>5, <1>6, <1>8
<1>10. 0 + Pow(k) * Number(x) = Number(x) * Pow(k)
  BY <1>6, <1>7
<1> QED
  BY <1>1, <1>7, <1>9, <1>10 DEF y

\* The fields of a float.
LEMMA FloatFields ==
  ASSUME NEW uf \in Words
  PROVE  /\ Exp(uf) \in 0..255
         /\ Frac(uf) = Low(uf, 23) /\ Frac(uf) \in Nat /\ Frac(uf) < pow2[23]
<1>1. Exp(uf) = Part(uf, 23, 8) /\ Frac(uf) = Low(uf, 23)
  <2>1. 23 + 8 - 1 = 30 /\ 0 + 23 - 1 = 22
    OBVIOUS
  <2> QED
    BY <2>1 DEF Exp, Frac, Part, Low
<1>2. Part(uf, 23, 8) \in Nat /\ Part(uf, 23, 8) < Pow(8)
  <2>1. 23 \in Nat /\ 8 \in 0..31 /\ 23 + 8 <= 32
    OBVIOUS
  <2> QED
    BY <2>1, PartRange
<1>3. Low(uf, 23) \in Nat /\ Low(uf, 23) < Pow(23)
  <2>1. 23 \in 0..31
    OBVIOUS
  <2> QED
    BY <2>1, LowRange
<1>4. Pow(8) = 256 /\ Pow(23) = pow2[23]
  BY PowerValues DEF Pow
<1> QED
  BY <1>1, <1>2, <1>3, <1>4

\* The significand, with the 1 that the float leaves out.
LEMMA Significand ==
  ASSUME NEW uf \in Words
  PROVE  LET M == Float(Zero, 1, Frac(uf))
         IN  /\ M \in Words /\ \A i \in 24..31 : M[i] = 0
             /\ Number(M) = pow2[23] + Frac(uf)
<1> DEFINE M == Float(Zero, 1, Frac(uf))
           v == Frac(uf)
<1>1. v \in Nat /\ v < pow2[23] /\ pow2[23] = Pow(23) /\ Pow(23) \in Nat \ {0}
  BY FloatFields, PowIs DEF Pow
<1>2. /\ M = [i \in Bit |-> M[i]]
      /\ \A i \in Bit : M[i] = IF i = 31 THEN Zero[31] ELSE IF i >= 23 THEN (1 \div pow2[i - 23]) % 2
                               ELSE (v \div pow2[i]) % 2
  BY DEF Float
<1> HIDE DEF M, v
<1>3. M[31] = 0
  <2>1. 31 \in Bit
    BY DEF Bit
  <2> QED
    BY <1>2, <2>1, Constants
<1>4. \A i \in 0..22 : M[i] = (v \div Pow(i)) % 2 /\ M[i] \in {0, 1}
  <2> TAKE i \in 0..22
  <2>1. i \in Bit /\ i # 31 /\ ~ (i >= 23) /\ Pow(i) = pow2[i] /\ Pow(i) \in Nat \ {0} /\ v \in Int
    BY <1>1, PowIs DEF Bit, Pow
  <2>2. M[i] = (v \div Pow(i)) % 2
    BY <1>2, <2>1
  <2> QED
    BY <2>1, <2>2, NextDigit
<1>5. M[23] = 1
  <2>1. 23 \in Bit /\ 23 - 23 = 0 /\ (1 \div 1) % 2 = 1
    BY DEF Bit
  <2>2. pow2[0] = 1
    BY PowerValues
  <2>3. M[23] = (1 \div pow2[23 - 23]) % 2
    BY <1>2, <2>1
  <2> QED
    BY <2>1, <2>2, <2>3
<1>6. \A i \in 24..31 : M[i] = 0
  <2> TAKE i \in 24..31
  <2>1. CASE i = 31
    BY <1>3, <2>1
  <2>2. CASE i # 31
    <3>1. i \in Bit /\ i >= 23 /\ i - 23 \in 1..30
      BY <2>2 DEF Bit
    <3>2. pow2[i - 23] \in Nat /\ pow2[i - 23] > 1
      <4>1. (i - 23) - 1 \in 0..30
        BY <3>1
      <4> QED
        BY <3>1, <4>1, WordPowers
    <3>3. 1 \div pow2[i - 23] = 0
      BY <3>2
    <3>4. M[i] = (1 \div pow2[i - 23]) % 2
      BY <1>2, <2>2, <3>1
    <3> QED
      BY <3>3, <3>4
  <2> QED
    BY <2>1, <2>2
<1>7. M \in Words
  <2>1. \A i \in Bit : i \in 0..22 \/ i = 23 \/ i \in 24..31
    BY DEF Bit
  <2>2. \A i \in Bit : M[i] \in {0, 1}
    BY <1>4, <1>5, <1>6, <2>1
  <2> QED
    BY <1>2, <2>2, Zenon DEF Words
<1>8. Low(M, 23) = v
  <2>1. 23 \in 0..31 /\ 23-1 = 22 /\ v \in Int
    BY <1>1
  <2>2. \A i \in 0..23-1 : M[i] = (v \div Pow(i)) % 2
    BY <1>4, <2>1
  <2>3. Low(M, 23) = v % Pow(23)
    BY <1>7, <2>1, <2>2, LowDigits
  <2>4. v % Pow(23) = v
    BY <1>1
  <2> QED
    BY <2>3, <2>4
<1>9. Low(M, 24) = v + Pow(23)
  <2>1. 23 \in 0..30 /\ 23 + 1 = 24
    OBVIOUS
  <2> QED
    BY <1>5, <1>7, <1>8, <2>1, LowLast
<1>10. Low(M, 31) = Low(M, 24)
  <2>1. 31 \in 0..31 /\ 0 + 31 <= 32 /\ 0 \in Nat /\ 24 \in 0..31
    OBVIOUS
  <2>2. \A i \in 24..31-1 : M[0 + i] = 0
    <3>1. \A i \in 24..31-1 : i \in 24..31 /\ 0 + i = i
      OBVIOUS
    <3> QED
      BY <1>6, <3>1
  <2> QED
    BY <1>7, <2>1, <2>2, PartZero DEF Low
<1>11. Number(M) = pow2[23] + v
  <2>1. Number(M) = Low(M, 31) - (IF M[31] = 1 THEN Half ELSE 0)
    BY <1>7, NumberIs
  <2> QED
    BY <1>1, <1>3, <1>9, <1>10, <2>1
<1> QED
  BY <1>6, <1>7, <1>11 DEF M, v

\* floatFloat2Int shifts the significand, where the test divides or multiplies it.
LEMMA FloatFloat2IntRight ==
  ASSUME NEW uf \in Words
  PROVE  floatFloat2Int(uf) = test_floatFloat2Int(uf)
<1> DEFINE e == Exp(uf)
           M == Float(Zero, 1, Frac(uf))
           s == pow2[23] + Frac(uf)
           size == IF e - 127 < 23 THEN Sar(M, 23 - (e - 127)) ELSE Shl(M, (e - 127) - 23)
           amount == CASE e < 127 -> 0
                       [] e \in 127..150 -> s \div pow2[150 - e]
                       [] OTHER -> s * pow2[e - 150]
<1>1. e \in 0..255
  BY FloatFields
<1>2. M \in Words /\ (\A i \in 24..31 : M[i] = 0) /\ Number(M) = s
  BY Significand
<1>3. s \in Nat
  BY FloatFields, PowerValues
<1>4. floatFloat2Int(uf) =
        CASE e = 255 -> Tmin
          [] e = 0 \/ e - 127 < 0 -> Zero
          [] e # 255 /\ e - 127 >= 31 -> Tmin
          [] OTHER -> IF uf[31] = 1 THEN Neg(size) ELSE size
  BY DEF floatFloat2Int
<1>5. test_floatFloat2Int(uf) =
        IF e >= 158 THEN Tmin ELSE Word(IF uf[31] = 1 THEN -amount ELSE amount)
  BY DEF test_floatFloat2Int
<1> HIDE DEF e, M, s
<1>6. CASE e >= 158
  <2>1. e = 255 \/ (~ (e = 0 \/ e - 127 < 0) /\ e # 255 /\ e - 127 >= 31)
    BY <1>1, <1>6
  <2>2. test_floatFloat2Int(uf) = Tmin
    BY <1>5, <1>6
  <2>3. floatFloat2Int(uf) = Tmin
    <3> HIDE DEF size
    <3> QED
      BY <1>1, <1>4, <2>1
  <2> QED
    BY <2>2, <2>3
<1>7. CASE e < 127
  <2>1. e # 255 /\ (e = 0 \/ e - 127 < 0) /\ ~ (e >= 158) /\ ~ (e \in 127..150)
    BY <1>1, <1>7
  <2>2. amount = 0
    BY <1>7, <2>1
  <2>3. test_floatFloat2Int(uf) = Word(0)
    <3> HIDE DEF amount
    <3>1. amount \in Int /\ amount <= 0 /\ amount >= 0
      BY <2>2
    <3>2. -amount = amount
      BY <3>1
    <3> QED
      BY <1>5, <2>1, <2>2, <3>2
  <2>4. floatFloat2Int(uf) = Zero
    <3> HIDE DEF size
    <3> QED
      BY <1>1, <1>4, <1>7, <2>1
  <2> QED
    BY <2>3, <2>4 DEF Zero
<1>8. CASE e \in 127..157
  <2>1. /\ e # 255 /\ ~ (e = 0 \/ e - 127 < 0) /\ ~ (e - 127 >= 31) /\ ~ (e >= 158) /\ ~ (e < 127)
    BY <1>1, <1>8
  <2>2. M[31] = 0
    BY <1>2
  <2>3. size \in Words /\ Number(size) = amount
    <3>1. CASE e \in 127..149
      <4>1. e - 127 < 23 /\ 23 - (e - 127) = 150 - e /\ 150 - e \in 0..30 /\ e \in 127..150
        BY <3>1
      <4>2. size = Sar(M, 150 - e)
        BY <4>1
      <4>3. amount = s \div pow2[150 - e]
        BY <2>1, <4>1
      <4> HIDE DEF size, amount
      <4> QED
        BY <1>2, <2>2, <4>1, <4>2, <4>3, NumberSar
    <3>2. CASE e = 150
      <4>1. ~ (e - 127 < 23) /\ (e - 127) - 23 = 0 /\ 150 - e = 0 /\ e \in 127..150 /\ 0 \in 0..30
        BY <3>2
      <4>2. size = Shl(M, 0)
        BY <4>1
      <4>3. amount = s \div pow2[0]
        BY <2>1, <4>1
      <4>4. \A i \in 31-0..31 : M[i] = 0
        BY <1>2
      <4>5. pow2[0] = 1 /\ s \div 1 = s /\ s * 1 = s
        BY <1>3, PowerValues
      <4> HIDE DEF size, amount
      <4> QED
        BY <1>2, <4>1, <4>2, <4>3, <4>4, <4>5, NumberShl
    <3>3. CASE e \in 151..157
      <4>1. /\ ~ (e - 127 < 23) /\ (e - 127) - 23 = e - 150 /\ e - 150 \in 0..30
            /\ ~ (e \in 127..150) /\ e - 150 <= 7
        BY <3>3
      <4>2. size = Shl(M, e - 150)
        BY <4>1
      <4>3. amount = s * pow2[e - 150]
        BY <2>1, <4>1
      <4>4. \A i \in 31-(e - 150)..31 : M[i] = 0
        <5>1. \A i \in 31-(e - 150)..31 : i \in 24..31
          BY <3>3
        <5> QED
          BY <1>2, <5>1
      <4> HIDE DEF size, amount
      <4> QED
        BY <1>2, <4>1, <4>2, <4>3, <4>4, NumberShl
    <3>4. e \in 127..149 \/ e = 150 \/ e \in 151..157
      BY <1>8
    <3> HIDE DEF size, amount
    <3> QED
      BY <3>1, <3>2, <3>3, <3>4
  <2>4. amount \in Nat
    <3>1. CASE e \in 127..150
      <4>1. 150 - e \in 0..30 /\ amount = s \div pow2[150 - e]
        BY <2>1, <3>1
      <4>2. pow2[150 - e] \in Nat \ {0}
        BY <4>1, WordPowers
      <4> HIDE DEF amount
      <4> QED
        BY <1>3, <4>1, <4>2
    <3>2. CASE ~ (e \in 127..150)
      <4>1. e - 150 \in 0..30 /\ amount = s * pow2[e - 150]
        BY <1>8, <2>1, <3>2
      <4>2. pow2[e - 150] \in Nat
        BY <4>1, WordPowers
      <4> HIDE DEF amount
      <4> QED
        BY <1>3, <4>1, <4>2
    <3> HIDE DEF amount
    <3> QED
      BY <3>1, <3>2
  <2> HIDE DEF size, amount
  <2>5. amount \in Ints /\ -amount \in Ints /\ amount # -Half
    <3>1. amount < Half
      BY <2>3, NumberIs, Zenon DEF Ints
    <3> QED
      BY <2>4, <3>1, HalfIs DEF Ints
  <2>6. Neg(size) \in Words /\ Number(Neg(size)) = -amount
    BY <2>3, <2>5, Negation DEF Neg
  <2>7. Word(-amount) = Neg(size) /\ Word(amount) = size
    BY <2>3, <2>5, <2>6, NumberWord, NumberInjective
  <2>8. floatFloat2Int(uf) = IF uf[31] = 1 THEN Neg(size) ELSE size
    BY <1>4, <2>1
  <2> QED
    BY <1>5, <2>1, <2>7, <2>8
<1> QED
  BY <1>1, <1>6, <1>7, <1>8
-----------------------------------------------------------------------------
(* The floats of which twice the value, and the numbers of which the power *)
(* of 2, is no denormal that the code gets wrong.                          *)

\* x has the sign s, the exponent e and the fraction f.
HasFields(x, s, e, f) ==
  /\ x \in Words /\ x[31] = s
  /\ \A k \in 23..30 : x[k] = (e \div pow2[k - 23]) % 2
  /\ \A k \in 0..22 : x[k] = (f \div pow2[k]) % 2

\* The bits of a float made of its fields.
LEMMA FloatBits ==
  ASSUME NEW uf \in Words, NEW e \in Nat, NEW f \in Nat
  PROVE  HasFields(Float(uf, e, f), uf[31], e, f)
<1> DEFINE x == Float(uf, e, f)
<1>1. /\ x = [k \in Bit |-> x[k]]
      /\ \A k \in Bit : x[k] = IF k = 31 THEN uf[31] ELSE IF k >= 23 THEN (e \div pow2[k - 23]) % 2
                               ELSE (f \div pow2[k]) % 2
  BY DEF Float
<1> HIDE DEF x
<1>2. x[31] = uf[31] /\ 31 \in Bit
  BY <1>1 DEF Bit
<1>3. \A k \in 23..30 : x[k] = (e \div pow2[k - 23]) % 2
  BY <1>1 DEF Bit
<1>4. \A k \in 0..22 : x[k] = (f \div pow2[k]) % 2
  BY <1>1 DEF Bit
<1>5. \A k \in 0..30 : pow2[k] \in Nat \ {0}
  BY WordPowers
<1>6. \A k \in Bit : x[k] \in {0, 1}
  <2> TAKE k \in Bit
  <2>1. CASE k = 31
    BY <1>2, <2>1 DEF Words
  <2>2. CASE k \in 23..30
    <3>1. k - 23 \in 0..30 /\ e \in Int
      BY <2>2
    <3>2. (e \div pow2[k - 23]) % 2 \in {0, 1}
      BY <1>5, <3>1, NextDigit
    <3> QED
      BY <1>3, <2>2, <3>2
  <2>3. CASE k \in 0..22
    <3>1. k \in 0..30 /\ f \in Int
      BY <2>3
    <3>2. (f \div pow2[k]) % 2 \in {0, 1}
      BY <1>5, <3>1, NextDigit
    <3> QED
      BY <1>4, <2>3, <3>2
  <2> QED
    BY <2>1, <2>2, <2>3 DEF Bit
<1>7. x \in Words
  BY <1>1, <1>6, Zenon DEF Words
<1> QED
  BY <1>2, <1>3, <1>4, <1>7 DEF x, HasFields

\* Words with the same fields are the same.
LEMMA SameFields ==
  ASSUME NEW x, NEW y, NEW s, NEW e, NEW f, HasFields(x, s, e, f), HasFields(y, s, e, f)
  PROVE  x = y
<1>1. x \in Words /\ y \in Words
  BY DEF HasFields
<1>2. \A k \in Bit : k = 31 \/ k \in 23..30 \/ k \in 0..22
  BY DEF Bit
<1>3. \A k \in Bit : x[k] = y[k]
  BY <1>2 DEF HasFields
<1> QED
  BY <1>1, <1>3, SameWord

\* The digits of a number are told from its word, and the other way round.
LEMMA DigitsOf ==
  ASSUME NEW x \in Words, NEW n \in 0..31
  PROVE  \A k \in 0..n-1 : x[k] = (Low(x, n) \div Pow(k)) % 2
<1> DEFINE v == Low(x, n)
           y == [k \in Bit |-> IF k < n THEN (v \div Pow(k)) % 2 ELSE 0]
<1>1. v \in Nat /\ v < Pow(n) /\ Pow(n) \in Nat \ {0}
  BY LowRange, PowIs
<1> HIDE DEF v
<1>2. y \in Words
  <2>1. \A k \in Bit : Pow(k) \in Nat \ {0}
    BY PowIs DEF Bit
  <2>2. \A k \in Bit : (v \div Pow(k)) % 2 \in {0, 1}
    <3>1. v \in Int
      BY <1>1
    <3> QED
      BY <2>1, <3>1, NextDigit
  <2> QED
    BY <2>2 DEF Words
<1>3. \A k \in 0..n-1 : y[k] = (v \div Pow(k)) % 2
  BY DEF Bit
<1> HIDE DEF y
<1>4. Low(y, n) = v % Pow(n)
  BY <1>1, <1>2, <1>3, LowDigits
<1>5. v % Pow(n) = v
  BY <1>1
<1>6. \A k \in 0..n-1 : x[k] = y[k]
  BY <1>2, <1>4, <1>5, LowInjective DEF v
<1> QED
  BY <1>3, <1>6 DEF v

\* The exponent of a word that is not negative is what 2^23 leaves of it.
LEMMA ExpIs ==
  ASSUME NEW x \in Words
  PROVE  /\ Exp(x) \in 0..255 /\ Low(x, 31) = Frac(x) + pow2[23] * Exp(x)
         /\ HasFields(x, x[31], Exp(x), Frac(x))
         /\ Frac(x) \in Nat /\ Frac(x) < pow2[23]
<1> DEFINE y == Sar(x, 23)
<1>1. y \in Words /\ \A k \in Bit : y[k] = IF k + 23 <= 31 THEN x[k + 23] ELSE x[31]
  <2>1. 23 \in Nat
    OBVIOUS
  <2> QED
    BY <2>1, ShiftBits
<1> HIDE DEF y
<1>2. Exp(x) \in 0..255 /\ Frac(x) = Low(x, 23) /\ Frac(x) \in Nat /\ Frac(x) < pow2[23]
  BY FloatFields
<1>3. Exp(x) = Low(y, 8)
  <2>1. Exp(x) = Part(x, 23, 8)
    <3>1. 23 + 8 - 1 = 30
      OBVIOUS
    <3> QED
      BY <3>1 DEF Exp, Part
  <2> DEFINE T == {k \in Nat : k <= 8 => Part(x, 23, k) = Low(y, k)}
  <2>2. 0 \in T
    <3>1. 0 \in 0..31 /\ 23 \in Nat /\ 23 <= 32
      OBVIOUS
    <3>2. Low(y, 0) = 0 /\ Part(x, 23, 0) = 0
      BY <1>1, <3>1, LowRange, PartStep
    <3> QED
      BY <3>2
  <2>3. ASSUME NEW k \in Nat, k \in T
        PROVE  k + 1 \in T
    <3> SUFFICES ASSUME k + 1 <= 8 PROVE Part(x, 23, k + 1) = Low(y, k + 1)
      OBVIOUS
    <3>1. k \in 0..30 /\ 23 \in Nat /\ 23 + k <= 31 /\ k + 23 <= 31 /\ k + 23 = 23 + k /\ k \in Bit
      BY DEF Bit
    <3>2. /\ x[23 + k] = 0 => Part(x, 23, k + 1) = Part(x, 23, k)
          /\ x[23 + k] = 1 => Part(x, 23, k + 1) = Part(x, 23, k) + Pow(k)
      BY <3>1, PartLast
    <3>3. /\ y[k] = 0 => Low(y, k + 1) = Low(y, k)
          /\ y[k] = 1 => Low(y, k + 1) = Low(y, k) + Pow(k)
          /\ y[k] \in {0, 1}
      BY <1>1, <3>1, LowLast
    <3>4. y[k] = x[23 + k]
      BY <1>1, <3>1
    <3>5. Part(x, 23, k) = Low(y, k)
      BY <2>3, <3>1
    <3> HIDE DEF T
    <3> QED
      BY <3>2, <3>3, <3>4, <3>5
  <2> HIDE DEF T
  <2>4. 8 \in T
    BY <2>2, <2>3, AllNumbers
  <2> QED
    BY <2>1, <2>4 DEF T
<1>4. Low(x, 23 + 8) = Low(x, 23) + Pow(23) * Low(y, 8)
  <2>1. 23 \in 0..31 /\ 8 \in 0..31-23
    OBVIOUS
  <2>2. \A k \in 0..8-1 : k \in Bit /\ k + 23 <= 31 /\ k + 23 = 23 + k
    BY DEF Bit
  <2>3. \A k \in 0..8-1 : x[23 + k] = y[k]
    BY <1>1, <2>2
  <2> QED
    BY <1>1, <2>1, <2>3, ShiftedLow
<1>5. Low(x, 31) = Frac(x) + pow2[23] * Exp(x)
  <2>1. 23 + 8 = 31 /\ Pow(23) = pow2[23]
    BY DEF Pow
  <2> QED
    BY <1>2, <1>3, <1>4, <2>1
<1>6. \A k \in 23..30 : x[k] = (Exp(x) \div pow2[k - 23]) % 2
  <2> TAKE k \in 23..30
  <2>1. 8 \in 0..31 /\ k - 23 \in 0..8-1 /\ k - 23 \in Bit /\ (k - 23) + 23 = k /\ k <= 31 /\ k - 23 # 31
    BY DEF Bit
  <2>2. y[k - 23] = (Low(y, 8) \div Pow(k - 23)) % 2
    BY <1>1, <2>1, DigitsOf
  <2>3. y[k - 23] = x[k] /\ Pow(k - 23) = pow2[k - 23]
    BY <1>1, <2>1 DEF Pow
  <2> QED
    BY <1>3, <2>2, <2>3
<1>7. \A k \in 0..22 : x[k] = (Frac(x) \div pow2[k]) % 2
  <2> TAKE k \in 0..22
  <2>1. 23 \in 0..31 /\ k \in 0..23-1 /\ k # 31
    OBVIOUS
  <2>2. x[k] = (Low(x, 23) \div Pow(k)) % 2
    BY <2>1, DigitsOf
  <2> QED
    BY <1>2, <2>1, <2>2 DEF Pow
<1> QED
  BY <1>2, <1>5, <1>6, <1>7 DEF HasFields

\* What 0 and 1 leave after division by a power.
LEMMA FirstDigit ==
  ASSUME NEW k \in 0..30
  PROVE  (0 \div pow2[k]) % 2 = 0 /\ (1 \div pow2[k]) % 2 = IF k = 0 THEN 1 ELSE 0
<1>1. k \in Bit /\ k # 31
  BY DEF Bit
<1>2. Zero[k] = (0 \div pow2[k]) % 2 /\ One[k] = (1 \div pow2[k]) % 2
  BY <1>1 DEF Zero, One, Word
<1> QED
  BY <1>1, <1>2, Constants

\* An exponent shifted to its place.
LEMMA ShiftedExp ==
  ASSUME NEW e \in 0..255
  PROVE  HasFields(Shl(Word(e), 23), 0, e, 0)
<1>1. Word(e) \in Words
  <2>1. e \in Ints
    BY HalfIs DEF Ints
  <2> QED
    BY <2>1, NumberWord
<1>2. Shl(Word(e), 23) \in Words /\ \A k \in Bit : Shl(Word(e), 23)[k] = IF k >= 23 THEN Word(e)[k - 23] ELSE 0
  <2>1. 23 \in Nat
    OBVIOUS
  <2> QED
    BY <1>1, <2>1, ShiftBits
<1>3. \A k \in 0..30 : Word(e)[k] = (e \div pow2[k]) % 2
  BY DEF Word, Bit
<1> DEFINE w == Word(e)
           x == Shl(w, 23)
<1> HIDE DEF w, x
<1>4. \A k \in 0..30 : w[k] = (e \div pow2[k]) % 2
  BY <1>3 DEF w
<1>5. \A k \in Bit : x[k] = IF k >= 23 THEN w[k - 23] ELSE 0
  BY <1>2 DEF w, x
<1>6. \A k \in 23..30 : x[k] = (e \div pow2[k - 23]) % 2
  <2>1. \A k \in 23..30 : k \in Bit /\ k >= 23 /\ k - 23 \in 0..30
    BY DEF Bit
  <2> QED
    BY <1>4, <1>5, <2>1
<1>7. \A k \in 0..22 : x[k] = 0
  <2>1. \A k \in 0..22 : k \in Bit /\ ~ (k >= 23)
    BY DEF Bit
  <2> QED
    BY <1>5, <2>1
<1>9. \A k \in 0..22 : (0 \div pow2[k]) % 2 = 0
  BY FirstDigit
<1>8. x[31] = 0
  <2>1. 31 \in Bit /\ 31 >= 23 /\ 31 - 23 = 8 /\ 8 \in 0..30
    BY DEF Bit
  <2>2. x[31] = (e \div pow2[8]) % 2
    BY <1>4, <1>5, <2>1
  <2>3. pow2[8] = 256
    BY PowerValues
  <2>4. (e \div 256) % 2 = 0
    <3>1. e \div 256 = 0
      OBVIOUS
    <3> QED
      BY <3>1
  <2> QED
    BY <2>2, <2>3, <2>4
<1> QED
  BY <1>2, <1>6, <1>7, <1>8, <1>9 DEF w, x, HasFields

\* The largest power of 2 that is a denormal is the word floatPower2 shifts by 0.
LEMMA LargestDenormal ==
  /\ Word(4194304) = Float(Zero, 0, pow2[22])
  /\ Shr(Word(4194304), 0) = Word(4194304)
<1> DEFINE v == 4194304
           w == Word(v)
<1>1. v = pow2[22] /\ v \in Nat /\ v \in Ints
  <2>1. v = pow2[22] /\ v \in Int /\ v >= 0
    BY PowerValues, SMT
  <2>2. -Half <= v /\ v < Half /\ Half \in Nat
    BY HalfIs, SMT DEF Half
  <2> HIDE DEF v
  <2> QED
    BY <2>1, <2>2, SMT DEF Ints
<1>2. ASSUME NEW k \in 23..30
      PROVE  (v \div pow2[k]) % 2 = 0
  <2>1. pow2[k] \in Nat /\ pow2[k] > v
    <3>1. \A i \in 23..30 : pow2[i] \in Nat /\ pow2[i] = 2 * pow2[i-1]
      BY WordPowers
    <3>2. 2 * v > v /\ 4 * v > v /\ 8 * v > v /\ v = pow2[22] /\ v \in Nat
      BY <1>1, SMT
    <3> HIDE DEF v
    <3>3. /\ pow2[23] = 2 * v /\ pow2[24] = 2 * pow2[23] /\ pow2[25] = 2 * pow2[24]
          /\ pow2[26] = 2 * pow2[25] /\ pow2[27] = 2 * pow2[26] /\ pow2[28] = 2 * pow2[27]
          /\ pow2[29] = 2 * pow2[28] /\ pow2[30] = 2 * pow2[29]
      BY <3>1, <3>2
    <3>4. k = 23 \/ k = 24 \/ k = 25 \/ k = 26 \/ k = 27 \/ k = 28 \/ k = 29 \/ k = 30
      OBVIOUS
    <3> QED
      BY <3>1, <3>2, <3>3, <3>4
  <2>2. v \div pow2[k] = 0
    BY <1>1, <2>1, SMT
  <2> QED
    BY <2>2, SMT
<1>3. w = [i \in Bit |-> IF i = 31 THEN (IF v < 0 THEN 1 ELSE 0) ELSE (v \div pow2[i]) % 2]
  BY SMT DEF Word
<1>4. w \in Words
  BY <1>1, NumberWord, SMT
<1>5. ~ (v < 0)
  BY <1>1, SMT
<1> HIDE DEF v
<1>6. HasFields(Float(Zero, 0, pow2[22]), 0, 0, pow2[22])
  <2>1. 31 \in Bit
    BY DEF Bit
  <2>2. Zero \in Words /\ Zero[31] = 0
    BY <2>1, Constants
  <2>3. pow2[22] \in Nat /\ 0 \in Nat
    BY <1>1
  <2> QED
    BY <2>2, <2>3, FloatBits
<1> HIDE DEF w
<1>7. HasFields(w, 0, 0, pow2[22])
  <2>1. w[31] = 0
    BY <1>3, <1>5 DEF Bit
  <2>2. \A k \in 23..30 : w[k] = (0 \div pow2[k - 23]) % 2
    <3> TAKE k \in 23..30
    <3>1. k \in Bit /\ k # 31 /\ k - 23 \in 0..30
      BY DEF Bit
    <3>2. w[k] = 0
      BY <1>2, <1>3, <3>1
    <3> QED
      BY <3>1, <3>2, FirstDigit
  <2>3. \A k \in 0..22 : w[k] = (pow2[22] \div pow2[k]) % 2
    <3> TAKE k \in 0..22
    <3>1. k \in Bit /\ k # 31
      BY DEF Bit
    <3> QED
      BY <1>1, <1>3, <3>1
  <2> QED
    BY <1>4, <2>1, <2>2, <2>3 DEF HasFields
<1>8. Shr(w, 0) = w
  <2>1. w = [i \in Bit |-> w[i]]
    BY <1>4 DEF Words
  <2>2. Shr(w, 0) = [i \in Bit |-> IF i + 0 <= 31 THEN w[i + 0] ELSE 0]
    BY DEF Shr
  <2>3. \A i \in Bit : i + 0 <= 31 /\ i + 0 = i
    BY DEF Bit
  <2> QED
    BY <2>1, <2>2, <2>3
<1>9. w = Float(Zero, 0, pow2[22])
  BY <1>6, <1>7, SameFields
<1> QED
  BY <1>8, <1>9, SMT DEF w, v

\* floatPower2 is right but for the numbers whose power is a smaller denormal.
LEMMA FloatPower2Right ==
  ASSUME NEW x \in Words, Number(x) \notin -149..-128
  PROVE  floatPower2(x) = {test_floatPower2(x)}
<1> DEFINE n == Number(x)
<1>1. n \in Int
  BY NumberIs, Zenon DEF Ints
<1>2. ASSUME NEW e \in 0..255
      PROVE  Shl(Word(e), 23) = Float(Zero, e, 0)
  <2>1. Zero[31] = 0 /\ Zero \in Words /\ e \in Nat /\ 0 \in Nat
    <3>1. 31 \in Bit
      BY DEF Bit
    <3> QED
      BY <3>1, Constants
  <2>2. HasFields(Float(Zero, e, 0), 0, e, 0)
    BY <2>1, FloatBits
  <2> QED
    BY <2>2, ShiftedExp, SameFields
<1> DEFINE denormal == Word(4194304)
           R == {Shr(denormal, (n + 127) % 32), denormal}
<1>3. floatPower2(x) =
        CASE n < -149 -> {Zero}
          [] n > 127 -> {Shl(Word(255), 23)}
          [] n >= -126 /\ n <= 127 -> {Shl(Word(n + 127), 23)}
          [] OTHER -> R
  BY DEF floatPower2
<1> HIDE DEF R
<1> DEFINE S == Float(Zero, 0, pow2[n + 149])
<1>4. test_floatPower2(x) =
        CASE n < -149 -> Zero
          [] n \in -149..-127 -> S
          [] n \in -126..127 -> Float(Zero, n + 127, 0)
          [] OTHER -> Float(Zero, 255, 0)
  BY DEF test_floatPower2
<1>5. n \notin -149..-128
  OBVIOUS
<1>9. n = -127 => R = {S}
  <2>1. ASSUME n = -127
        PROVE  (n + 127) % 32 = 0 /\ n + 149 = 22
    <3> HIDE DEF n
    <3> QED
      BY <2>1, SMT
  <2> HIDE DEF n, denormal
  <2>2. denormal = Float(Zero, 0, pow2[22]) /\ Shr(denormal, 0) = denormal
    BY LargestDenormal, SMT DEF denormal
  <2> QED
    BY <2>1, <2>2 DEF R
<1> HIDE DEF S
<1> HIDE DEF n
<1>6. CASE n < -149
  <2>1. ~ (n > 127) /\ ~ (n >= -126 /\ n <= 127) /\ ~ (n \in -126..127)
    BY <1>1, <1>6
  <2> QED
    BY <1>3, <1>4, <1>5, <1>6, <2>1
<1>7. CASE n > 127
  <2>1. ~ (n < -149) /\ ~ (n >= -126 /\ n <= 127) /\ ~ (n \in -126..127) /\ 255 \in 0..255
    BY <1>1, <1>7
  <2> QED
    BY <1>2, <1>3, <1>4, <1>5, <1>7, <2>1
<1>8. CASE n >= -126 /\ n <= 127
  <2>1. ~ (n < -149) /\ ~ (n > 127) /\ n \in -126..127 /\ n + 127 \in 0..255
    BY <1>1, <1>8
  <2> QED
    BY <1>2, <1>3, <1>4, <1>5, <1>8, <2>1
<1>10. CASE n = -127
  <2>1. ~ (n < -149) /\ ~ (n > 127) /\ ~ (n >= -126 /\ n <= 127) /\ n \in -149..-127
    BY <1>10
  <2>2. floatPower2(x) = {S}
    BY <1>3, <1>9, <1>10, <2>1
  <2>3. test_floatPower2(x) = S
    BY <1>4, <2>1
  <2> QED
    BY <2>2, <2>3
<1> QED
  BY <1>1, <1>5, <1>6, <1>7, <1>8, <1>10

\* The sign of a float, and its fraction, are masks of it.
LEMMA SignAndFrac ==
  ASSUME NEW uf \in Words
  PROVE  /\ And(uf, Tmin) \in Words
         /\ \A k \in Bit : And(uf, Tmin)[k] = IF k = 31 THEN uf[31] ELSE 0
         /\ Float(Zero, 0, Frac(uf)) \in Words
         /\ \A k \in Bit : Float(Zero, 0, Frac(uf))[k] = IF k <= 22 THEN uf[k] ELSE 0
<1>1. And(uf, Tmin) \in Words /\ \A k \in Bit : And(uf, Tmin)[k] = IF uf[k] = 1 /\ Tmin[k] = 1 THEN 1 ELSE 0
  BY TminIs, AndBits
<1>2. \A k \in Bit : uf[k] \in {0, 1}
  BY DEF Words
<1>3. \A k \in Bit : And(uf, Tmin)[k] = IF k = 31 THEN uf[31] ELSE 0
  BY <1>1, <1>2, TminIs
<1> DEFINE x == Float(Zero, 0, Frac(uf))
<1>4. HasFields(x, Zero[31], 0, Frac(uf))
  <2>1. 0 \in Nat /\ Frac(uf) \in Nat /\ Zero \in Words
    BY FloatFields, Constants
  <2> QED
    BY <2>1, FloatBits
<1> HIDE DEF x
<1>5. HasFields(uf, uf[31], Exp(uf), Frac(uf))
  BY ExpIs
<1>6. \A k \in 0..22 : x[k] = uf[k]
  BY <1>4, <1>5 DEF HasFields
<1>7. \A k \in 23..30 : x[k] = 0
  <2>1. \A k \in 23..30 : k - 23 \in 0..30
    OBVIOUS
  <2>2. \A k \in 23..30 : (0 \div pow2[k - 23]) % 2 = 0
    BY <2>1, FirstDigit
  <2>3. \A k \in 23..30 : x[k] = (0 \div pow2[k - 23]) % 2
    BY <1>4 DEF HasFields
  <2> QED
    BY <2>2, <2>3
<1>8. x[31] = 0
  <2>1. 31 \in Bit
    BY DEF Bit
  <2> QED
    BY <1>4, <2>1, Constants DEF HasFields
<1>9. \A k \in Bit : x[k] = IF k <= 22 THEN uf[k] ELSE 0
  <2>1. \A k \in Bit : (k \in 0..22 /\ k <= 22) \/ (k \in 23..30 /\ ~ (k <= 22)) \/ (k = 31 /\ ~ (k <= 22))
    BY DEF Bit
  <2> QED
    BY <1>6, <1>7, <1>8, <2>1
<1>10. x \in Words
  BY <1>4 DEF HasFields
<1> QED
  BY <1>1, <1>3, <1>9, <1>10 DEF x

\* Twice a denormal, or 0, is its fraction shifted, into the exponent if need be.
LEMMA ScaledDenormal ==
  ASSUME NEW uf \in Words
  PROVE  LET x == Or(And(uf, Tmin), Shl(Float(Zero, 0, Frac(uf)), 1))
         IN  IF uf[22] = 1 THEN HasFields(x, uf[31], 1, 2 * Frac(uf) - pow2[23]) /\ 2 * Frac(uf) - pow2[23] \in Nat
             ELSE HasFields(x, uf[31], 0, 2 * Frac(uf))
<1> DEFINE f == Float(Zero, 0, Frac(uf))
           s == And(uf, Tmin)
           y == Shl(f, 1)
           x == Or(s, y)
           v == 2 * Frac(uf) - (IF uf[22] = 1 THEN pow2[23] ELSE 0)
<1>1. /\ s \in Words /\ \A k \in Bit : s[k] = IF k = 31 THEN uf[31] ELSE 0
      /\ f \in Words /\ \A k \in Bit : f[k] = IF k <= 22 THEN uf[k] ELSE 0
  BY SignAndFrac
<1> HIDE DEF f, s
<1>2. y \in Words /\ \A k \in Bit : y[k] = IF k >= 1 THEN f[k - 1] ELSE 0
  <2>1. 1 \in Nat
    OBVIOUS
  <2> QED
    BY <1>1, <2>1, ShiftBits
<1> HIDE DEF y
<1>3. x \in Words /\ \A k \in Bit : x[k] = IF s[k] = 1 \/ y[k] = 1 THEN 1 ELSE 0
  BY <1>1, <1>2, OrBits
<1> HIDE DEF x
<1>4. \A k \in Bit : uf[k] \in {0, 1}
  BY DEF Words
<1>5. \A k \in Bit : x[k] = IF k = 31 THEN uf[31] ELSE IF k \in 1..23 THEN uf[k - 1] ELSE 0
  <2> TAKE k \in Bit
  <2>1. k \in 0..31 /\ (k >= 1 => k - 1 \in Bit)
    BY DEF Bit
  <2>2. y[k] = IF k \in 1..23 THEN uf[k - 1] ELSE 0
    BY <1>1, <1>2, <2>1
  <2> QED
    BY <1>1, <1>3, <1>4, <2>1, <2>2
<1>6. Frac(uf) = Low(uf, 23) /\ Frac(uf) \in Nat /\ pow2[23] \in Nat
  BY FloatFields, PowerValues
<1>7. /\ uf[22] \in {0, 1} /\ Low(uf, 22) \in Nat /\ Low(uf, 22) < Pow(22) /\ Pow(23) = 2 * Pow(22)
      /\ uf[22] = 0 => Low(uf, 23) = Low(uf, 22)
      /\ uf[22] = 1 => Low(uf, 23) = Low(uf, 22) + Pow(22)
      /\ Pow(22) \in Nat
  <2>1. 22 \in 0..30 /\ 22 + 1 = 23
    OBVIOUS
  <2> QED
    BY <2>1, LowLast
<1>8. pow2[23] = Pow(23)
  BY DEF Pow
<1>9. v = 2 * Low(uf, 22) /\ v \in Nat /\ v < Pow(23)
  BY <1>6, <1>7, <1>8
<1> HIDE DEF v
<1>10. Low(x, 23) = v
  <2>1. Low(x, 1 + 22) = Low(x, 1) + Pow(1) * Low(uf, 22)
    <3>1. 1 \in 0..31 /\ 22 \in 0..31-1
      OBVIOUS
    <3>2. \A k \in 0..22-1 : 1 + k \in Bit /\ 1 + k # 31 /\ 1 + k \in 1..23 /\ (1 + k) - 1 = k
      BY DEF Bit
    <3>3. \A k \in 0..22-1 : x[1 + k] = uf[k]
      BY <1>5, <3>2
    <3> QED
      BY <1>3, <3>1, <3>3, ShiftedLow
  <2>2. Low(x, 1) = 0
    <3>1. 0 \in 0..30 /\ 0 + 1 = 1 /\ 0 \in Bit /\ ~ (0 \in 1..23) /\ 0 # 31 /\ 0 \in 0..31
      BY DEF Bit
    <3>2. x[0] = 0
      BY <1>5, <3>1
    <3>3. Low(x, 0 + 1) = Low(x, 0) /\ Low(x, 0) = 0
      BY <1>3, <3>1, <3>2, LowLast, LowRange
    <3> QED
      BY <3>1, <3>3
  <2>3. Pow(1) = 2 /\ 1 + 22 = 23
    BY PowerValues DEF Pow
  <2> QED
    BY <1>7, <1>9, <2>1, <2>2, <2>3
<1>11. \A k \in 0..22 : x[k] = (v \div pow2[k]) % 2
  <2> TAKE k \in 0..22
  <2>1. 23 \in 0..31 /\ k \in 0..23-1 /\ k # 31
    OBVIOUS
  <2>2. x[k] = (Low(x, 23) \div Pow(k)) % 2
    BY <1>3, <2>1, DigitsOf
  <2> QED
    BY <1>10, <2>1, <2>2 DEF Pow
<1>12. x[31] = uf[31]
  <2>1. 31 \in Bit
    BY DEF Bit
  <2> QED
    BY <1>5, <2>1
<1>13. \A k \in 23..30 : x[k] = IF k = 23 THEN uf[22] ELSE 0
  <2>1. \A k \in 23..30 : k \in Bit /\ k # 31 /\ (k \in 1..23 <=> k = 23) /\ 23 - 1 = 22
    BY DEF Bit
  <2> QED
    BY <1>5, <2>1
<1>14. \A k \in 23..30 : /\ (0 \div pow2[k - 23]) % 2 = 0
                         /\ (1 \div pow2[k - 23]) % 2 = IF k = 23 THEN 1 ELSE 0
  <2>1. \A k \in 23..30 : k - 23 \in 0..30 /\ (k - 23 = 0 <=> k = 23)
    OBVIOUS
  <2> QED
    BY <2>1, FirstDigit
<1>15. CASE uf[22] = 1
  <2>1. HasFields(x, uf[31], 1, v)
    BY <1>3, <1>11, <1>12, <1>13, <1>14, <1>15 DEF HasFields
  <2>2. v = 2 * Frac(uf) - pow2[23]
    BY <1>15 DEF v
  <2> QED
    BY <1>9, <1>15, <2>1, <2>2 DEF x, s, y, f
<1>16. CASE uf[22] # 1
  <2>1. uf[22] = 0
    BY <1>7, <1>16
  <2>2. HasFields(x, uf[31], 0, v)
    BY <1>3, <1>11, <1>12, <1>13, <1>14, <2>1 DEF HasFields
  <2>3. v = 2 * Frac(uf)
    <3>1. 2 * Frac(uf) \in Int
      BY <1>6
    <3> QED
      BY <1>16, <3>1 DEF v
  <2> QED
    BY <1>16, <2>2, <2>3 DEF x, s, y, f
<1> QED
  BY <1>15, <1>16

\* The code does not test the exponent 254, of which the double overflows.
Scalable(uf) == Exp(uf) # 254 \/ Frac(uf) = 0

\* floatScale2 is right but for overflow, where it leaves the fraction.
LEMMA FloatScale2Right ==
  ASSUME NEW uf \in Words, Scalable(uf)
  PROVE  floatScale2(uf) = test_floatScale2(uf)
<1> DEFINE e == Exp(uf)
           g == Frac(uf)
           frac == Float(Zero, 0, g)
           s == And(uf, Tmin)
           d == Or(s, Shl(frac, 1))
           n == Or(Or(s, Shl(Word(e + 1), 23)), frac)
           t == IF uf[22] = 1 THEN Float(uf, 1, 2 * g - pow2[23]) ELSE Float(uf, 0, 2 * g)
<1>1. e \in 0..255 /\ g \in Nat
  BY FloatFields
<1>2. floatScale2(uf) = CASE e = 255 -> uf [] e = 0 -> d [] OTHER -> n
  BY DEF floatScale2
<1>3. test_floatScale2(uf) =
        CASE e = 255 -> uf [] e = 0 -> t [] e = 254 -> Float(uf, 255, 0) [] OTHER -> Float(uf, e + 1, g)
  BY DEF test_floatScale2
<1>4. e = 254 => g = 0
  BY DEF Scalable
<1>5. /\ s \in Words /\ \A k \in Bit : s[k] = IF k = 31 THEN uf[31] ELSE 0
      /\ frac \in Words /\ \A k \in Bit : frac[k] = IF k <= 22 THEN uf[k] ELSE 0
  BY SignAndFrac
<1>6. HasFields(uf, uf[31], e, g)
  BY ExpIs
<1>7. d = t
  <2>1. IF uf[22] = 1 THEN HasFields(d, uf[31], 1, 2 * g - pow2[23]) /\ 2 * g - pow2[23] \in Nat
        ELSE HasFields(d, uf[31], 0, 2 * g)
    BY ScaledDenormal
  <2> HIDE DEF d, g
  <2>2. 0 \in Nat /\ 1 \in Nat /\ 2 * g \in Nat
    BY <1>1
  <2>3. CASE uf[22] = 1
    <3>1. HasFields(Float(uf, 1, 2 * g - pow2[23]), uf[31], 1, 2 * g - pow2[23])
      BY <2>1, <2>2, <2>3, FloatBits
    <3>2. d = Float(uf, 1, 2 * g - pow2[23])
      BY <2>1, <2>3, <3>1, SameFields
    <3> QED
      BY <2>3, <3>2
  <2>4. CASE uf[22] # 1
    <3>1. HasFields(Float(uf, 0, 2 * g), uf[31], 0, 2 * g)
      BY <2>2, FloatBits
    <3>2. d = Float(uf, 0, 2 * g)
      BY <2>1, <2>4, <3>1, SameFields
    <3> QED
      BY <2>4, <3>2
  <2> QED
    BY <2>3, <2>4
<1> HIDE DEF d, t, frac, s
<1>8. ASSUME e \in 1..254
      PROVE  n = Float(uf, e + 1, g)
  <2> DEFINE h == Shl(Word(e + 1), 23)
             m == Or(s, h)
  <2>1. HasFields(h, 0, e + 1, 0)
    <3>1. e + 1 \in 0..255
      BY <1>8
    <3> HIDE DEF e
    <3> QED
      BY <3>1, ShiftedExp
  <2> HIDE DEF e, g, h
  <2>2. /\ h \in Words /\ h[31] = 0
        /\ \A k \in 23..30 : h[k] = ((e + 1) \div pow2[k - 23]) % 2
        /\ \A k \in 0..22 : h[k] = 0
    <3>1. \A k \in 0..22 : (0 \div pow2[k]) % 2 = 0
      BY FirstDigit
    <3> QED
      BY <2>1, <3>1 DEF HasFields
  <2>3. m \in Words /\ \A k \in Bit : m[k] = IF s[k] = 1 \/ h[k] = 1 THEN 1 ELSE 0
    BY <1>5, <2>2, OrBits
  <2> HIDE DEF m
  <2> DEFINE z == Or(m, frac)
  <2>4. z \in Words /\ \A k \in Bit : z[k] = IF m[k] = 1 \/ frac[k] = 1 THEN 1 ELSE 0
    BY <1>5, <2>3, OrBits
  <2> HIDE DEF z
  <2>5. \A k \in Bit : uf[k] \in {0, 1} /\ h[k] \in {0, 1}
    BY <2>2 DEF Words
  <2>6. z[31] = uf[31]
    <3>1. 31 \in Bit /\ ~ (31 <= 22)
      BY DEF Bit
    <3> QED
      BY <1>5, <2>2, <2>3, <2>4, <2>5, <3>1
  <2>7. \A k \in 23..30 : z[k] = ((e + 1) \div pow2[k - 23]) % 2
    <3>1. \A k \in 23..30 : k \in Bit /\ k # 31 /\ ~ (k <= 22)
      BY DEF Bit
    <3>2. \A k \in 23..30 : z[k] = h[k]
      BY <1>5, <2>3, <2>4, <2>5, <3>1
    <3> QED
      BY <2>2, <3>2
  <2>8. \A k \in 0..22 : z[k] = (g \div pow2[k]) % 2
    <3>1. \A k \in 0..22 : k \in Bit /\ k # 31 /\ k <= 22
      BY DEF Bit
    <3>2. \A k \in 0..22 : z[k] = uf[k]
      BY <1>5, <2>2, <2>3, <2>4, <2>5, <3>1
    <3>3. \A k \in 0..22 : uf[k] = (g \div pow2[k]) % 2
      BY <1>6 DEF HasFields
    <3> QED
      BY <3>2, <3>3
  <2>9. HasFields(z, uf[31], e + 1, g)
    BY <2>4, <2>6, <2>7, <2>8 DEF HasFields
  <2>10. HasFields(Float(uf, e + 1, g), uf[31], e + 1, g)
    <3>1. e + 1 \in Nat
      BY <1>8
    <3> QED
      BY <1>1, <3>1, FloatBits
  <2>11. z = Float(uf, e + 1, g)
    BY <2>9, <2>10, SameFields
  <2> QED
    BY <2>11 DEF z, m, h
<1> HIDE DEF n, e, g
<1>9. CASE e = 255
  BY <1>2, <1>3, <1>9
<1>10. CASE e = 0
  <2>1. e # 255 /\ e # 254
    BY <1>10
  <2> QED
    BY <1>2, <1>3, <1>7, <1>10, <2>1
<1>11. CASE e = 254
  <2>1. e # 255 /\ e # 0 /\ e \in 1..254 /\ e + 1 = 255 /\ g = 0
    BY <1>4, <1>11
  <2>2. floatScale2(uf) = n
    BY <1>2, <2>1
  <2>3. test_floatScale2(uf) = Float(uf, 255, 0)
    BY <1>3, <1>11, <2>1
  <2> QED
    BY <1>8, <2>1, <2>2, <2>3
<1>12. CASE e \in 1..253
  <2>1. e # 255 /\ e # 0 /\ e # 254 /\ e \in 1..254
    BY <1>12
  <2>2. floatScale2(uf) = n
    BY <1>2, <2>1
  <2>3. test_floatScale2(uf) = Float(uf, e + 1, g)
    BY <1>3, <2>1
  <2> QED
    BY <1>8, <2>1, <2>2, <2>3
<1> QED
  BY <1>1, <1>9, <1>10, <1>11, <1>12

-----------------------------------------------------------------------------
(* btest uses Bits and SequencesExt under names of its own.                *)

\* The operators of Bits, under their names in the instance.
LEMMA SameWords ==
  /\ Btest!pow2 = pow2 /\ Btest!Bit = Bit
  /\ \A v : Btest!Word(v) = Word(v)
  /\ \A d : Btest!Hex(d) = Hex(d)
  /\ \A x : Btest!Not(x) = Not(x)
  /\ \A x, y : Btest!Plus(x, y) = Plus(x, y)
  /\ \A x, y : Btest!Or(x, y) = Or(x, y)
  /\ \A x, y : Btest!And(x, y) = And(x, y)
  /\ \A x, y : Btest!Xor(x, y) = Xor(x, y)
  /\ \A x, k : Btest!Shl(x, k) = Shl(x, k)
  /\ \A x, k : Btest!Sar(x, k) = Sar(x, k)
  /\ \A x, k : Btest!Shr(x, k) = Shr(x, k)
  /\ \A x, lo, hi : Btest!Field(x, lo, hi) = Field(x, lo, hi)
<1>1. Btest!Bit = Bit
  BY DEF Btest!Bit, Bit
<1>2. Btest!pow2 = pow2
  BY DEF Btest!pow2, pow2
<1>3. \A v : Btest!Word(v) = Word(v)
  BY <1>1, <1>2 DEF Btest!Word, Word
<1>4. \A d : Btest!Hex(d) = Hex(d)
  BY <1>1, <1>2 DEF Btest!Hex, Hex
<1>5. \A x : Btest!Not(x) = Not(x)
  BY <1>1 DEF Btest!Not, Not
<1>6. \A x, y : Btest!Plus(x, y) = Plus(x, y)
  BY <1>1 DEF Btest!Plus, Plus
<1>7. \A x, y : Btest!Or(x, y) = Or(x, y)
  BY <1>1 DEF Btest!Or, Or
<1>8. \A x, y : Btest!And(x, y) = And(x, y)
  BY <1>1 DEF Btest!And, And
<1>9. \A x, y : Btest!Xor(x, y) = Xor(x, y)
  BY <1>1 DEF Btest!Xor, Xor
<1>10. \A x, k : Btest!Shl(x, k) = Shl(x, k)
  BY <1>1 DEF Btest!Shl, Shl
<1>11. \A x, k : Btest!Sar(x, k) = Sar(x, k)
  BY <1>1 DEF Btest!Sar, Sar
<1>12. \A x, k : Btest!Shr(x, k) = Shr(x, k)
  BY <1>1 DEF Btest!Shr, Shr
<1>13. \A x, lo, hi : Btest!Field(x, lo, hi) = Field(x, lo, hi)
  BY <1>2 DEF Btest!Field, Field
<1> QED
  BY <1>1, <1>2, <1>3, <1>4, <1>5, <1>6, <1>7, <1>8, <1>9, <1>10, <1>11, <1>12, <1>13

\* What is made of them.
LEMMA SameNumbers ==
  /\ Btest!Zero = Zero /\ Btest!One = One /\ Btest!Tmin = Tmin
  /\ \A p : Btest!Truth(p) = Truth(p)
  /\ \A x : Btest!Bang(x) = Bang(x)
  /\ \A x : Btest!Neg(x) = Neg(x)
  /\ \A x : Btest!Number(x) = Number(x)
  /\ \A x : Btest!Exp(x) = Exp(x)
  /\ \A x : Btest!Frac(x) = Frac(x)
  /\ \A x, e, f : Btest!Float(x, e, f) = Float(x, e, f)
  /\ \A x, k : Btest!Halved(x, k) = Halved(x, k)
  /\ \A S : Btest!Cardinality(S) = Cardinality(S)
<1>1. Btest!Zero = Zero /\ Btest!One = One /\ Btest!Tmin = Tmin
  BY SameWords DEF Btest!Zero, Zero, Btest!One, One, Btest!Tmin, Tmin
<1>2. \A p : Btest!Truth(p) = Truth(p)
  BY <1>1 DEF Btest!Truth, Truth
<1>3. \A x : Btest!Bang(x) = Bang(x)
  BY <1>1, <1>2 DEF Btest!Bang, Bang
<1>4. \A x : Btest!Neg(x) = Neg(x)
  BY <1>1, SameWords DEF Btest!Neg, Neg
<1>5. \A x : Btest!Number(x) = Number(x)
  BY SameWords DEF Btest!Number, Number
<1>6. \A x : Btest!Exp(x) = Exp(x)
  BY SameWords DEF Btest!Exp, Exp
<1>7. \A x : Btest!Frac(x) = Frac(x)
  BY SameWords DEF Btest!Frac, Frac
<1>8. \A x, e, f : Btest!Float(x, e, f) = Float(x, e, f)
  BY SameWords DEF Btest!Float, Float
<1>9. \A x, k : Btest!Halved(x, k) = Halved(x, k)
  BY <1>1, SameWords DEF Btest!Halved, Halved
<1>10. \A S : Btest!Cardinality(S) = Cardinality(S)
  BY DEF Btest!Cardinality, Cardinality
<1> QED
  BY <1>1, <1>2, <1>3, <1>4, <1>5, <1>6, <1>7, <1>8, <1>9, <1>10

\* The puzzles and their tests.
LEMMA SamePuzzles ==
  /\ \A x, y : Btest!bitXor(x, y) = bitXor(x, y) /\ Btest!test_bitXor(x, y) = test_bitXor(x, y)
  /\ Btest!tmin = tmin /\ Btest!test_tmin = test_tmin
  /\ \A x : Btest!isTmax(x) = isTmax(x) /\ Btest!test_isTmax(x) = test_isTmax(x)
  /\ \A x : Btest!allOddBits(x) = allOddBits(x) /\ Btest!test_allOddBits(x) = test_allOddBits(x)
  /\ \A x : Btest!negate(x) = negate(x) /\ Btest!test_negate(x) = test_negate(x)
  /\ \A x : Btest!isAsciiDigit(x) = isAsciiDigit(x) /\ Btest!test_isAsciiDigit(x) = test_isAsciiDigit(x)
  /\ \A x, y, z : /\ Btest!conditional(x, y, z) = conditional(x, y, z)
                  /\ Btest!test_conditional(x, y, z) = test_conditional(x, y, z)
  /\ \A x, y : /\ Btest!isLessOrEqual(x, y) = isLessOrEqual(x, y)
               /\ Btest!test_isLessOrEqual(x, y) = test_isLessOrEqual(x, y)
  /\ \A x : Btest!logicalNeg(x) = logicalNeg(x) /\ Btest!test_logicalNeg(x) = test_logicalNeg(x)
  /\ \A x : Btest!howManyBits(x) = howManyBits(x) /\ Btest!test_howManyBits(x) = test_howManyBits(x)
  /\ \A x : Btest!floatScale2(x) = floatScale2(x) /\ Btest!test_floatScale2(x) = test_floatScale2(x)
  /\ \A x : /\ Btest!floatFloat2Int(x) = floatFloat2Int(x)
            /\ Btest!test_floatFloat2Int(x) = test_floatFloat2Int(x)
  /\ \A x : Btest!floatPower2(x) = floatPower2(x) /\ Btest!test_floatPower2(x) = test_floatPower2(x)
<1> USE SameWords, SameNumbers
<1>1. \A x, y : Btest!bitXor(x, y) = bitXor(x, y) /\ Btest!test_bitXor(x, y) = test_bitXor(x, y)
  BY DEF Btest!bitXor, bitXor, Btest!test_bitXor, test_bitXor
<1>2. Btest!tmin = tmin /\ Btest!test_tmin = test_tmin
  BY DEF Btest!tmin, tmin, Btest!test_tmin, test_tmin
<1>3. \A x : Btest!isTmax(x) = isTmax(x) /\ Btest!test_isTmax(x) = test_isTmax(x)
  BY DEF Btest!isTmax, isTmax, Btest!test_isTmax, test_isTmax
<1>4. \A x : Btest!allOddBits(x) = allOddBits(x) /\ Btest!test_allOddBits(x) = test_allOddBits(x)
  BY DEF Btest!allOddBits, allOddBits, Btest!test_allOddBits, test_allOddBits
<1>5. \A x : Btest!negate(x) = negate(x) /\ Btest!test_negate(x) = test_negate(x)
  BY DEF Btest!negate, negate, Btest!test_negate, test_negate
<1>6. \A x : Btest!isAsciiDigit(x) = isAsciiDigit(x) /\ Btest!test_isAsciiDigit(x) = test_isAsciiDigit(x)
  BY DEF Btest!isAsciiDigit, isAsciiDigit, Btest!test_isAsciiDigit, test_isAsciiDigit
<1>7. \A x, y, z : /\ Btest!conditional(x, y, z) = conditional(x, y, z)
                   /\ Btest!test_conditional(x, y, z) = test_conditional(x, y, z)
  BY DEF Btest!conditional, conditional, Btest!test_conditional, test_conditional
<1>8. \A x, y : /\ Btest!isLessOrEqual(x, y) = isLessOrEqual(x, y)
                /\ Btest!test_isLessOrEqual(x, y) = test_isLessOrEqual(x, y)
  BY DEF Btest!isLessOrEqual, isLessOrEqual, Btest!test_isLessOrEqual, test_isLessOrEqual
<1>9. \A x : Btest!logicalNeg(x) = logicalNeg(x) /\ Btest!test_logicalNeg(x) = test_logicalNeg(x)
  BY DEF Btest!logicalNeg, logicalNeg, Btest!test_logicalNeg, test_logicalNeg
<1>10. \A x : Btest!howManyBits(x) = howManyBits(x)
  BY DEF Btest!howManyBits, howManyBits
<1>11. \A x : Btest!test_howManyBits(x) = test_howManyBits(x)
  BY DEF Btest!test_howManyBits, test_howManyBits
<1>12. \A x : Btest!floatScale2(x) = floatScale2(x) /\ Btest!test_floatScale2(x) = test_floatScale2(x)
  BY DEF Btest!floatScale2, floatScale2, Btest!test_floatScale2, test_floatScale2
<1>13. \A x : Btest!floatFloat2Int(x) = floatFloat2Int(x)
  BY DEF Btest!floatFloat2Int, floatFloat2Int
<1>14. \A x : Btest!test_floatFloat2Int(x) = test_floatFloat2Int(x)
  BY DEF Btest!test_floatFloat2Int, test_floatFloat2Int
<1>15. \A x : Btest!floatPower2(x) = floatPower2(x)
  <2> TAKE x
  <2> DEFINE n == Btest!Number(x)
             w == Btest!Word(4194304)
             top == Btest!Shl(Btest!Word(255), 23)
             power == Btest!Shl(Btest!Word(n + 127), 23)
             shifted == Btest!Shr(w, (n + 127) % 32)
  <2>1. Btest!floatPower2(x) =
          CASE n < -149 -> {Btest!Zero} [] n > 127 -> {top}
            [] n >= -126 /\ n <= 127 -> {power} [] OTHER -> {shifted, w}
    BY SMT DEF Btest!floatPower2
  <2>2. n = Number(x) /\ w = Word(4194304) /\ top = Shl(Word(255), 23)
    BY SMT
  <2>3. power = Shl(Word(n + 127), 23) /\ shifted = Shr(w, (n + 127) % 32) /\ Btest!Zero = Zero
    BY SMT
  <2> HIDE DEF n, w, top, power, shifted
  <2>4. floatPower2(x) =
          CASE n < -149 -> {Zero} [] n > 127 -> {top}
            [] n >= -126 /\ n <= 127 -> {power} [] OTHER -> {shifted, w}
    <3> USE ONLY <2>2, <2>3
    <3> QED
      BY SMT DEF floatPower2
  <2> QED
    BY ONLY <2>1, <2>3, <2>4, SMT
<1>16. \A x : Btest!test_floatPower2(x) = test_floatPower2(x)
  BY DEF Btest!test_floatPower2, test_floatPower2
<1> QED
  BY <1>1, <1>2, <1>3, <1>4, <1>5, <1>6, <1>7, <1>8, <1>9, <1>10, <1>11, <1>12, <1>13, <1>14, <1>15, <1>16
-----------------------------------------------------------------------------
(* What btest tries.                                                       *)

\* The words on which a puzzle is right: all, but for two of the floats.
Apt(name) ==
  {w \in Words : /\ name = "floatScale2" => Scalable(w)
                 /\ name = "floatPower2" => Number(w) \notin -149..-128}

\* The names of the puzzles and their arguments.
LEMMA Table ==
  /\ DOMAIN Btest!test_set = 1..13 /\ Len(Btest!test_set) = 13
  /\ \A p \in 1..13 : Btest!test_set[p].args \in 0..3
  /\ \A p \in 1..13 : Btest!test_set[p].name \in Btest!Floats => Btest!test_set[p].args = 1
  /\ \A p \in 1..13 :
       /\ p = 1 => Btest!test_set[p].name = "bitXor" /\ Btest!test_set[p].args = 2
       /\ p = 2 => Btest!test_set[p].name = "tmin" /\ Btest!test_set[p].args = 0
       /\ p = 3 => Btest!test_set[p].name = "isTmax" /\ Btest!test_set[p].args = 1
       /\ p = 4 => Btest!test_set[p].name = "allOddBits" /\ Btest!test_set[p].args = 1
       /\ p = 5 => Btest!test_set[p].name = "negate" /\ Btest!test_set[p].args = 1
       /\ p = 6 => Btest!test_set[p].name = "isAsciiDigit" /\ Btest!test_set[p].args = 1
       /\ p = 7 => Btest!test_set[p].name = "conditional" /\ Btest!test_set[p].args = 3
       /\ p = 8 => Btest!test_set[p].name = "isLessOrEqual" /\ Btest!test_set[p].args = 2
       /\ p = 9 => Btest!test_set[p].name = "logicalNeg" /\ Btest!test_set[p].args = 1
       /\ p = 10 => Btest!test_set[p].name = "howManyBits" /\ Btest!test_set[p].args = 1
       /\ p = 11 => Btest!test_set[p].name = "floatScale2" /\ Btest!test_set[p].args = 1
       /\ p = 12 => Btest!test_set[p].name = "floatFloat2Int" /\ Btest!test_set[p].args = 1
       /\ p = 13 => Btest!test_set[p].name = "floatPower2" /\ Btest!test_set[p].args = 1
<1>1. DOMAIN Btest!test_set = 1..13 /\ Len(Btest!test_set) = 13
  BY DEF Btest!test_set
<1>2. \A p \in 1..13 :
       /\ p = 1 => Btest!test_set[p].name = "bitXor" /\ Btest!test_set[p].args = 2
       /\ p = 2 => Btest!test_set[p].name = "tmin" /\ Btest!test_set[p].args = 0
       /\ p = 3 => Btest!test_set[p].name = "isTmax" /\ Btest!test_set[p].args = 1
       /\ p = 4 => Btest!test_set[p].name = "allOddBits" /\ Btest!test_set[p].args = 1
       /\ p = 5 => Btest!test_set[p].name = "negate" /\ Btest!test_set[p].args = 1
       /\ p = 6 => Btest!test_set[p].name = "isAsciiDigit" /\ Btest!test_set[p].args = 1
       /\ p = 7 => Btest!test_set[p].name = "conditional" /\ Btest!test_set[p].args = 3
       /\ p = 8 => Btest!test_set[p].name = "isLessOrEqual" /\ Btest!test_set[p].args = 2
       /\ p = 9 => Btest!test_set[p].name = "logicalNeg" /\ Btest!test_set[p].args = 1
       /\ p = 10 => Btest!test_set[p].name = "howManyBits" /\ Btest!test_set[p].args = 1
       /\ p = 11 => Btest!test_set[p].name = "floatScale2" /\ Btest!test_set[p].args = 1
       /\ p = 12 => Btest!test_set[p].name = "floatFloat2Int" /\ Btest!test_set[p].args = 1
       /\ p = 13 => Btest!test_set[p].name = "floatPower2" /\ Btest!test_set[p].args = 1
  BY DEF Btest!test_set, Btest!Puzzle
<1>3. \A p \in 1..13 : Btest!test_set[p].args \in 0..3
  BY <1>2
<1>4. \A p \in 1..13 : Btest!test_set[p].name \in Btest!Floats => Btest!test_set[p].args = 1
  BY <1>2 DEF Btest!Floats
<1> QED
  BY <1>1, <1>2, <1>3, <1>4

\* On apt arguments a puzzle can give one answer, that of its test.
THEOREM AnswersRight ==
  ASSUME NEW p \in 1..13, NEW a, \A k \in 1..Btest!test_set[p].args : a[k] \in Apt(Btest!test_set[p].name)
  PROVE  Btest!Answers(Btest!test_set[p].name, a) = {Btest!Right(Btest!test_set[p].name, a)}
<1> DEFINE n == Btest!test_set[p].args
           name == Btest!test_set[p].name
<1>0. \A k \in 1..n : a[k] \in Words
  BY DEF Apt
<1>1. CASE p = 1
  <2>1. name = "bitXor" /\ a[1] \in Words /\ a[2] \in Words
    BY <1>0, <1>1, Table
  <2>2. Btest!Answers("bitXor", a) = {Btest!bitXor(a[1], a[2])} /\ Btest!Right("bitXor", a) = Btest!test_bitXor(a[1], a[2])
    BY DEF Btest!Answers, Btest!Right
  <2> QED
    BY <2>1, <2>2, BitXorRight, SamePuzzles
<1>2. CASE p = 2
  <2>1. name = "tmin"
    BY <1>2, Table
  <2>2. Btest!Answers("tmin", a) = {Btest!tmin} /\ Btest!Right("tmin", a) = Btest!test_tmin
    BY DEF Btest!Answers, Btest!Right
  <2> QED
    BY <2>1, <2>2, TminRight, SamePuzzles
<1>3. CASE p = 3
  <2>1. name = "isTmax" /\ a[1] \in Words
    BY <1>0, <1>3, Table
  <2>2. Btest!Answers("isTmax", a) = {Btest!isTmax(a[1])} /\ Btest!Right("isTmax", a) = Btest!test_isTmax(a[1])
    BY DEF Btest!Answers, Btest!Right
  <2> QED
    BY <2>1, <2>2, IsTmaxRight, SamePuzzles
<1>4. CASE p = 4
  <2>1. name = "allOddBits" /\ a[1] \in Words
    BY <1>0, <1>4, Table
  <2>2. /\ Btest!Answers("allOddBits", a) = {Btest!allOddBits(a[1])}
        /\ Btest!Right("allOddBits", a) = Btest!test_allOddBits(a[1])
    BY DEF Btest!Answers, Btest!Right
  <2> QED
    BY <2>1, <2>2, AllOddBitsRight, SamePuzzles
<1>5. CASE p = 5
  <2>1. name = "negate" /\ a[1] \in Words
    BY <1>0, <1>5, Table
  <2>2. Btest!Answers("negate", a) = {Btest!negate(a[1])} /\ Btest!Right("negate", a) = Btest!test_negate(a[1])
    BY DEF Btest!Answers, Btest!Right
  <2> QED
    BY <2>1, <2>2, NegateRight, SamePuzzles
<1>6. CASE p = 6
  <2>1. name = "isAsciiDigit" /\ a[1] \in Words
    BY <1>0, <1>6, Table
  <2>2. /\ Btest!Answers("isAsciiDigit", a) = {Btest!isAsciiDigit(a[1])}
        /\ Btest!Right("isAsciiDigit", a) = Btest!test_isAsciiDigit(a[1])
    BY DEF Btest!Answers, Btest!Right
  <2> QED
    BY <2>1, <2>2, IsAsciiDigitRight, SamePuzzles
<1>7. CASE p = 7
  <2>1. name = "conditional" /\ a[1] \in Words /\ a[2] \in Words /\ a[3] \in Words
    BY <1>0, <1>7, Table
  <2>2. /\ Btest!Answers("conditional", a) = {Btest!conditional(a[1], a[2], a[3])}
        /\ Btest!Right("conditional", a) = Btest!test_conditional(a[1], a[2], a[3])
    BY DEF Btest!Answers, Btest!Right
  <2> QED
    BY <2>1, <2>2, ConditionalRight, SamePuzzles
<1>8. CASE p = 8
  <2>1. name = "isLessOrEqual" /\ a[1] \in Words /\ a[2] \in Words
    BY <1>0, <1>8, Table
  <2>2. /\ Btest!Answers("isLessOrEqual", a) = {Btest!isLessOrEqual(a[1], a[2])}
        /\ Btest!Right("isLessOrEqual", a) = Btest!test_isLessOrEqual(a[1], a[2])
    BY DEF Btest!Answers, Btest!Right
  <2> QED
    BY <2>1, <2>2, IsLessOrEqualRight, SamePuzzles
<1>9. CASE p = 9
  <2>1. name = "logicalNeg" /\ a[1] \in Words
    BY <1>0, <1>9, Table
  <2>2. /\ Btest!Answers("logicalNeg", a) = {Btest!logicalNeg(a[1])}
        /\ Btest!Right("logicalNeg", a) = Btest!test_logicalNeg(a[1])
    BY DEF Btest!Answers, Btest!Right
  <2> QED
    BY <2>1, <2>2, LogicalNegRight, SamePuzzles
<1>10. CASE p = 10
  <2>1. name = "howManyBits" /\ a[1] \in Words
    BY <1>0, <1>10, Table
  <2>2. /\ Btest!Answers("howManyBits", a) = {Btest!howManyBits(a[1])}
        /\ Btest!Right("howManyBits", a) = Btest!test_howManyBits(a[1])
    BY DEF Btest!Answers, Btest!Right
  <2> QED
    BY <2>1, <2>2, HowManyBitsRight, SamePuzzles
<1>11. CASE p = 11
  <2>1. name = "floatScale2" /\ a[1] \in Words /\ Scalable(a[1])
    BY <1>0, <1>11, Table DEF Apt
  <2>2. /\ Btest!Answers("floatScale2", a) = {Btest!floatScale2(a[1])}
        /\ Btest!Right("floatScale2", a) = Btest!test_floatScale2(a[1])
    BY DEF Btest!Answers, Btest!Right
  <2> QED
    BY <2>1, <2>2, FloatScale2Right, SamePuzzles
<1>12. CASE p = 12
  <2>1. name = "floatFloat2Int" /\ a[1] \in Words
    BY <1>0, <1>12, Table
  <2>2. /\ Btest!Answers("floatFloat2Int", a) = {Btest!floatFloat2Int(a[1])}
        /\ Btest!Right("floatFloat2Int", a) = Btest!test_floatFloat2Int(a[1])
    BY DEF Btest!Answers, Btest!Right
  <2> QED
    BY <2>1, <2>2, FloatFloat2IntRight, SamePuzzles
<1>13. CASE p = 13
  <2>1. name = "floatPower2" /\ a[1] \in Words /\ Number(a[1]) \notin -149..-128
    BY <1>0, <1>13, Table DEF Apt
  <2>2. /\ Btest!Answers("floatPower2", a) = Btest!floatPower2(a[1])
        /\ Btest!Right("floatPower2", a) = Btest!test_floatPower2(a[1])
    BY DEF Btest!Answers, Btest!Right
  <2> QED
    BY <2>1, <2>2, FloatPower2Right, SamePuzzles
<1> QED
  BY <1>1, <1>2, <1>3, <1>4, <1>5, <1>6, <1>7, <1>8, <1>9, <1>10, <1>11, <1>12, <1>13

\* Sequences put after each other.
LEMMA FlattenIn ==
  ASSUME NEW S, NEW n \in Nat \ {0}, NEW q \in [1..n -> Seq(S)], \A k \in 1..n : q[k] # <<>>
  PROVE  Btest!FlattenSeq(q) \in Seq(S) /\ Btest!FlattenSeq(q) # <<>>
<1> DEFINE Is(f) == f = [i \in 1..n |-> IF i = 1 THEN q[i] ELSE f[i-1] \o q[i]]
<1>1. Len(q) = n /\ n # 0
  OBVIOUS
<1>2. Btest!FlattenSeq(q) = (CHOOSE f : Is(f))[n]
  BY <1>1 DEF Btest!FlattenSeq
<1>3. \E f : Is(f)
  <2> DEFINE D == Seq(S)
             G == [t \in D \X Nat |-> IF t[2] + 1 \in 1..n THEN t[1] \o q[t[2] + 1] ELSE t[1]]
  <2>1. q[1] \in D /\ n - 1 \in Nat
    OBVIOUS
  <2>2. G \in [D \X Nat -> D]
    <3> SUFFICES ASSUME NEW t \in D \X Nat
                 PROVE  (IF t[2] + 1 \in 1..n THEN t[1] \o q[t[2] + 1] ELSE t[1]) \in D
      OBVIOUS
    <3>1. t[1] \in Seq(S) /\ (t[2] + 1 \in 1..n => q[t[2] + 1] \in Seq(S))
      OBVIOUS
    <3> QED
      BY <3>1, ConcatProperties
  <2>3. \A d \in D, i \in Nat : G[<<d, i>>] = IF i + 1 \in 1..n THEN d \o q[i + 1] ELSE d
    OBVIOUS
  <2> HIDE DEF G, D
  <2>4. PICK F : Iteration(F, D, q[1], G, n - 1)
    BY <2>1, <2>2, Iterates
  <2>5. F \in [0..n-1 -> D] /\ F[0] = q[1] /\ \A i \in 1..n-1 : F[i] = G[<<F[i-1], i>>]
    BY <2>4 DEF Iteration
  <2> DEFINE f == [i \in 1..n |-> F[i-1]]
  <2>6. \A i \in 1..n : f[i] = IF i = 1 THEN q[i] ELSE f[i-1] \o q[i]
    <3> TAKE i \in 1..n
    <3>1. CASE i = 1
      BY <2>5, <3>1
    <3>2. CASE i # 1
      <4>1. i - 1 \in 1..n-1 /\ i - 1 \in Nat /\ (i - 1) + 1 = i /\ i - 1 \in 1..n /\ (i-1) - 1 \in 0..n-1
        BY <3>2
      <4>2. F[i-1] = G[<<F[(i-1)-1], i-1>>] /\ F[(i-1)-1] \in D
        BY <2>5, <4>1
      <4>3. F[i-1] = F[(i-1)-1] \o q[i]
        BY <2>3, <4>1, <4>2
      <4> QED
        BY <3>2, <4>1, <4>3
    <3> QED
      BY <3>1, <3>2
  <2>7. f = [i \in 1..n |-> f[i]]
    OBVIOUS
  <2> HIDE DEF f
  <2>8. Is(f)
    BY <2>6, <2>7
  <2> QED
    BY <2>8
<1> HIDE DEF Is
<1>4. PICK f : Is(f) /\ Btest!FlattenSeq(q) = f[n]
  BY <1>2, <1>3
<1>5. \A i \in 1..n : f[i] = IF i = 1 THEN q[i] ELSE f[i-1] \o q[i]
  <2>1. f = [i \in 1..n |-> IF i = 1 THEN q[i] ELSE f[i-1] \o q[i]]
    BY <1>4 DEF Is
  <2> QED
    BY <2>1
<1> DEFINE T == {k \in Nat : k + 1 <= n => f[k + 1] \in Seq(S) /\ Len(f[k + 1]) > 0}
<1>6. \A k \in 1..n : q[k] \in Seq(S) /\ Len(q[k]) > 0
  BY EmptySeq
<1>7. 0 \in T
  <2>1. 1 \in 1..n /\ 0 + 1 = 1
    OBVIOUS
  <2> QED
    BY <1>5, <1>6, <2>1
<1>8. ASSUME NEW k \in Nat, k \in T
      PROVE  k + 1 \in T
  <2> SUFFICES ASSUME (k + 1) + 1 <= n
               PROVE  f[(k + 1) + 1] \in Seq(S) /\ Len(f[(k + 1) + 1]) > 0
    OBVIOUS
  <2>1. f[k + 1] \in Seq(S) /\ Len(f[k + 1]) > 0
    BY <1>8
  <2>2. (k + 1) + 1 \in 1..n /\ (k + 1) + 1 # 1 /\ ((k + 1) + 1) - 1 = k + 1
    OBVIOUS
  <2>3. f[(k + 1) + 1] = f[k + 1] \o q[(k + 1) + 1]
    BY <1>5, <2>2
  <2>4. q[(k + 1) + 1] \in Seq(S) /\ Len(q[(k + 1) + 1]) > 0
    BY <1>6, <2>2
  <2> DEFINE s1 == f[k + 1]
             s2 == q[(k + 1) + 1]
  <2>5. s1 \in Seq(S) /\ s2 \in Seq(S) /\ Len(s1) > 0 /\ Len(s2) > 0
    BY <2>1, <2>4
  <2>6. f[(k + 1) + 1] = s1 \o s2
    BY <2>3
  <2> HIDE DEF s1, s2
  <2>7. s1 \o s2 \in Seq(S) /\ Len(s1 \o s2) = Len(s1) + Len(s2)
    BY <2>5, ConcatProperties
  <2>8. Len(s1) \in Nat /\ Len(s2) \in Nat
    BY <2>5, LenProperties
  <2>9. Len(s1 \o s2) > 0
    BY <2>5, <2>7, <2>8
  <2> QED
    BY <2>6, <2>7, <2>9
<1> HIDE DEF T
<1>9. n - 1 \in T
  <2>1. n - 1 \in Nat
    OBVIOUS
  <2> QED
    BY <1>7, <1>8, <2>1, AllNumbers
<1>10. (n - 1) + 1 = n
  OBVIOUS
<1>11. f[n] \in Seq(S) /\ Len(f[n]) > 0
  BY <1>9, <1>10 DEF T
<1> QED
  BY <1>4, <1>11, EmptySeq

\* Four bits from lo on are a hexadecimal digit d, or three of them an octal one.
LEMMA Nibble ==
  ASSUME NEW x \in Words, NEW lo \in 0..31, NEW n \in {3, 4}, lo + n <= 31,
         NEW d \in 0..15, d < Pow(n), \A j \in 0..n-1 : x[lo + j] = (d \div pow2[j]) % 2
  PROVE  Low(x, lo + n) = Low(x, lo) + Pow(lo) * d
<1>1. d \in Ints /\ d \in Int
  BY HalfIs DEF Ints
<1>2. Word(d) \in Words
  BY <1>1, NumberWord
<1>3. \A j \in 0..n-1 : Word(d)[j] = (d \div pow2[j]) % 2
  BY DEF Word, Bit
<1> DEFINE y == Word(d)
<1> HIDE DEF y
<1>4. n \in 0..31 /\ n \in 0..31-lo
  OBVIOUS
<1>5. Low(y, n) = d % Pow(n)
  <2>1. \A j \in 0..n-1 : y[j] = (d \div Pow(j)) % 2
    BY <1>3 DEF y, Pow
  <2> QED
    BY <1>1, <1>2, <1>4, <2>1, LowDigits DEF y
<1>6. d % Pow(n) = d
  <2>1. Pow(n) \in Nat \ {0}
    BY <1>4, PowIs
  <2> QED
    BY <2>1
<1>7. \A j \in 0..n-1 : x[lo + j] = y[j]
  BY <1>3 DEF y
<1>8. Low(x, lo + n) = Low(x, lo) + Pow(lo) * Low(y, n)
  BY <1>2, <1>4, <1>7, ShiftedLow DEF y
<1> QED
  BY <1>5, <1>6, <1>8

\* The number of a word of which three hexadecimal digits are written out.
LEMMA HexIs ==
  ASSUME NEW d1 \in 0..7, NEW d2 \in 0..15, NEW d3 \in 0..15
  PROVE  LET x == Hex(<<d1, d2, d3, 0, 0, 0, 0, 0>>)
         IN  x \in Words /\ Number(x) = Pow(20) * d3 + Pow(24) * d2 + Pow(28) * d1
<1> DEFINE d == <<d1, d2, d3, 0, 0, 0, 0, 0>>
           x == Hex(d)
<1>1. \A k \in Bit : x[k] = (d[8 - k \div 4] \div pow2[k % 4]) % 2
  BY DEF Hex
<1>2. x = [k \in Bit |-> x[k]]
  BY DEF Hex
<1> HIDE DEF x
<1>3. \A k \in Bit : k \in 0..31 /\ k % 4 \in 0..3 /\ k \div 4 \in 0..7 /\ pow2[k % 4] \in Nat \ {0}
  <2> TAKE k \in Bit
  <2>1. k \in 0..31
    BY DEF Bit
  <2>2. k % 4 \in 0..3 /\ k \div 4 \in 0..7
    BY <2>1, DigitOf
  <2> QED
    BY <2>1, <2>2, PowerValues
<1>4. x \in Words
  <2>1. \A k \in Bit : d[8 - k \div 4] \in Int
    <3> TAKE k \in Bit
    <3>1. 8 - k \div 4 \in 1..8
      BY <1>3
    <3>2. \A m \in 1..8 : d[m] \in Int
      OBVIOUS
    <3> HIDE DEF d
    <3> QED
      BY <3>1, <3>2
  <2> HIDE DEF d
  <2>2. \A k \in Bit : x[k] \in {0, 1}
    <3> TAKE k \in Bit
    <3>1. (d[8 - k \div 4] \div pow2[k % 4]) % 2 \in {0, 1}
      BY <1>3, <2>1, NextDigit
    <3> QED
      BY <1>1, <3>1
  <2> QED
    BY <1>2, <2>2, Zenon DEF Words
<1>5. \A q \in 0..7, j \in 0..3 : 4 * q + j \in Bit /\ x[4 * q + j] = (d[8 - q] \div pow2[j]) % 2
  <2> TAKE q \in 0..7, j \in 0..3
  <2> HIDE DEF d
  <2>1. 4 * q + j \in Bit
    BY DEF Bit
  <2>2. (4 * q + j) \div 4 = q /\ (4 * q + j) % 4 = j
    OBVIOUS
  <2> QED
    BY <1>1, <2>1, <2>2
<1>6. d[8] = 0 /\ d[7] = 0 /\ d[6] = 0 /\ d[5] = 0 /\ d[4] = 0 /\ d[3] = d3 /\ d[2] = d2 /\ d[1] = d1
  OBVIOUS
<1> HIDE DEF d
<1>7. \A q \in 0..6 : Low(x, 4 * q + 4) = Low(x, 4 * q) + Pow(4 * q) * d[8 - q]
  <2> TAKE q \in 0..6
  <2>1. 4 * q \in 0..31 /\ 4 \in {3, 4} /\ 4 * q + 4 <= 31 /\ q \in 0..7 /\ 4-1 = 3
    OBVIOUS
  <2>2. d[8 - q] \in 0..15
    BY <1>6
  <2>3. d[8 - q] < Pow(4)
    BY <2>2, PowerValues DEF Pow
  <2>4. \A j \in 0..4-1 : x[4 * q + j] = (d[8 - q] \div pow2[j]) % 2
    BY <1>5, <2>1
  <2> QED
    BY <1>4, <2>1, <2>2, <2>3, <2>4, Nibble
<1>8. Low(x, 28 + 3) = Low(x, 28) + Pow(28) * d1
  <2>1. 28 \in 0..31 /\ 3 \in {3, 4} /\ 28 + 3 <= 31 /\ 7 \in 0..7 /\ 4 * 7 = 28 /\ 8 - 7 = 1
    OBVIOUS
  <2>2. d1 \in 0..15 /\ d1 < Pow(3)
    BY PowerValues DEF Pow
  <2>3. \A j \in 0..3-1 : x[28 + j] = (d1 \div pow2[j]) % 2
    <3> TAKE j \in 0..3-1
    <3>1. j \in 0..3 /\ 28 + j = 4 * 7 + j
      OBVIOUS
    <3>2. x[4 * 7 + j] = (d[8 - 7] \div pow2[j]) % 2
      BY <1>5, <2>1, <3>1
    <3> QED
      BY <1>6, <2>1, <3>1, <3>2
  <2> QED
    BY <1>4, <2>1, <2>2, <2>3, Nibble
<1>9. x[31] = 0
  <2>1. 7 \in 0..7 /\ 3 \in 0..3 /\ 4 * 7 + 3 = 31 /\ 8 - 7 = 1
    OBVIOUS
  <2>2. x[31] = (d1 \div pow2[3]) % 2
    BY <1>5, <1>6, <2>1
  <2>3. d1 \div 8 = 0
    OBVIOUS
  <2> QED
    BY <2>2, <2>3, PowerValues
<1>10. Low(x, 0) = 0
  <2>1. 0 \in 0..31
    OBVIOUS
  <2> QED
    BY <1>4, <2>1, LowRange
<1>11. Low(x, 20) = 0
  <2>1. \A q \in 0..6 : Pow(4 * q) \in Int
    <3> TAKE q \in 0..6
    <3>1. 4 * q \in 0..31
      OBVIOUS
    <3> QED
      BY <3>1, PowIs
  <2>2. \A q \in 0..4 : Low(x, 4 * q + 4) = Low(x, 4 * q) + 0
    <3> TAKE q \in 0..4
    <3>1. d[8 - q] = 0 /\ q \in 0..6
      BY <1>6
    <3> QED
      BY <1>7, <2>1, <3>1
  <2>3. /\ Low(x, 4) = Low(x, 0) + 0 /\ Low(x, 8) = Low(x, 4) + 0 /\ Low(x, 12) = Low(x, 8) + 0
        /\ Low(x, 16) = Low(x, 12) + 0 /\ Low(x, 20) = Low(x, 16) + 0
    <3>1. /\ 4 * 0 = 0 /\ 0 + 4 = 4 /\ 4 * 1 = 4 /\ 4 + 4 = 8 /\ 4 * 2 = 8 /\ 8 + 4 = 12
          /\ 4 * 3 = 12 /\ 12 + 4 = 16 /\ 4 * 4 = 16 /\ 16 + 4 = 20
          /\ 0 \in 0..4 /\ 1 \in 0..4 /\ 2 \in 0..4 /\ 3 \in 0..4 /\ 4 \in 0..4
      OBVIOUS
    <3>2. Low(x, 4 * 0 + 4) = Low(x, 4 * 0) + 0
      BY <2>2, <3>1
    <3>3. Low(x, 4 * 1 + 4) = Low(x, 4 * 1) + 0
      BY <2>2, <3>1
    <3>4. Low(x, 4 * 2 + 4) = Low(x, 4 * 2) + 0
      BY <2>2, <3>1
    <3>5. Low(x, 4 * 3 + 4) = Low(x, 4 * 3) + 0
      BY <2>2, <3>1
    <3>6. Low(x, 4 * 4 + 4) = Low(x, 4 * 4) + 0
      BY <2>2, <3>1
    <3> QED
      BY <3>1, <3>2, <3>3, <3>4, <3>5, <3>6
  <2> QED
    BY <1>10, <2>3
<1>12. Low(x, 24) = Low(x, 20) + Pow(20) * d3
  <2>1. 5 \in 0..6 /\ 4 * 5 = 20 /\ 20 + 4 = 24 /\ 8 - 5 = 3
    OBVIOUS
  <2>2. Low(x, 4 * 5 + 4) = Low(x, 4 * 5) + Pow(4 * 5) * d[8 - 5]
    BY <1>7, <2>1
  <2> QED
    BY <1>6, <2>1, <2>2
<1>13. Low(x, 28) = Low(x, 24) + Pow(24) * d2
  <2>1. 6 \in 0..6 /\ 4 * 6 = 24 /\ 24 + 4 = 28 /\ 8 - 6 = 2
    OBVIOUS
  <2>2. Low(x, 4 * 6 + 4) = Low(x, 4 * 6) + Pow(4 * 6) * d[8 - 6]
    BY <1>7, <2>1
  <2> QED
    BY <1>6, <2>1, <2>2
<1>14. Low(x, 31) = Pow(20) * d3 + Pow(24) * d2 + Pow(28) * d1
  <2>1. Pow(20) \in Nat /\ Pow(24) \in Nat /\ Pow(28) \in Nat
    BY PowIs
  <2> DEFINE a == Pow(20) * d3
             b == Pow(24) * d2
             c == Pow(28) * d1
  <2>2. a \in Int /\ b \in Int /\ c \in Int
    BY <2>1
  <2>3. 28 + 3 = 31
    OBVIOUS
  <2>4. Low(x, 31) = Low(x, 28) + c /\ Low(x, 28) = Low(x, 24) + b /\ Low(x, 24) = Low(x, 20) + a
    BY <1>8, <1>12, <1>13, <2>3
  <2> HIDE DEF a, b, c
  <2>5. Low(x, 31) = a + b + c
    BY <1>11, <2>2, <2>4
  <2> QED
    BY <2>5 DEF a, b, c
<1>15. Number(x) = Low(x, 31)
  BY <1>4, <1>9, NumberIs
<1> QED
  BY <1>4, <1>14, <1>15 DEF x, d

\* The powers of which the numbers of the floats are made.
LEMMA FloatUnit ==
  /\ pow2[23] \in Nat /\ pow2[23] > 1000 /\ pow2[22] \in Nat /\ pow2[23] = 2 * pow2[22]
  /\ Half = 256 * pow2[23]
  /\ Pow(20) \in Nat /\ Pow(24) \in Nat /\ Pow(28) \in Nat
  /\ pow2[23] = 8 * Pow(20) /\ Pow(24) = 2 * pow2[23] /\ Pow(28) = 32 * pow2[23] /\ pow2[22] = 4 * Pow(20)
<1>1. Half = 256 * pow2[23]
  BY PowerValues, SMT DEF Half
<1>2. pow2[23] \in Nat /\ pow2[23] > 1000 /\ pow2[22] \in Nat /\ pow2[23] = 2 * pow2[22]
  BY PowerValues, SMT
<1>3. \A k \in 20..28 : Pow(k) \in Nat /\ Pow(k + 1) = 2 * Pow(k)
  BY PowIs
<1>4. Pow(22) = pow2[22] /\ Pow(23) = pow2[23]
  BY DEF Pow
<1>5. /\ Pow(20 + 1) = 2 * Pow(20) /\ Pow(21 + 1) = 2 * Pow(21) /\ Pow(22 + 1) = 2 * Pow(22)
      /\ Pow(23 + 1) = 2 * Pow(23) /\ Pow(24 + 1) = 2 * Pow(24) /\ Pow(25 + 1) = 2 * Pow(25)
      /\ Pow(26 + 1) = 2 * Pow(26) /\ Pow(27 + 1) = 2 * Pow(27)
  BY <1>3
<1>6. \A k \in 20..28 : Pow(k) \in Nat
  BY <1>3
<1>7. /\ 20 + 1 = 21 /\ 21 + 1 = 22 /\ 22 + 1 = 23 /\ 23 + 1 = 24 /\ 24 + 1 = 25 /\ 25 + 1 = 26
      /\ 26 + 1 = 27 /\ 27 + 1 = 28
  OBVIOUS
<1> QED
  BY <1>1, <1>2, <1>4, <1>5, <1>6, <1>7

\* The words on which every puzzle is right.
Safe == {w \in Words : Scalable(w) /\ Number(w) \notin -149..-128}

\* They are apt for every puzzle.
LEMMA SafeIsApt == \A name : Safe \subseteq Apt(name)
BY DEF Safe, Apt

\* A float that is not negative, and the same with a sign, is safe but for those
\* between the largest power of 2 and infinity.
LEMMA SafeFloat ==
  ASSUME NEW x \in Words, 0 <= Number(x),
         \/ Number(x) <= 254 * pow2[23]
         \/ 255 * pow2[23] <= Number(x) /\ Number(x) <= 255 * pow2[23] + pow2[22]
  PROVE  x \in Safe /\ Or(Tmin, x) \in Safe
<1> DEFINE y == Or(Tmin, x)
           n == Number(x)
           m == Number(y)
           p == pow2[23]
           h == pow2[22]
<1>0. p \in Nat /\ p > 1000 /\ h \in Nat /\ p = 2 * h /\ Half = 256 * p
  BY FloatUnit
<1> HIDE DEF p, h
<1>1. /\ n = Low(x, 31) - (IF x[31] = 1 THEN Half ELSE 0)
      /\ x[31] \in {0, 1} /\ Low(x, 31) \in Nat /\ Low(x, 31) < Half
      /\ x[31] = 1 <=> n < 0
  BY NumberIs
<1>2. n = Low(x, 31) /\ n \in Nat
  <2>1. n \in Int /\ 0 <= n
    BY NumberIs, Zenon DEF Ints
  <2> HIDE DEF n
  <2>2. ~ (n < 0)
    BY <2>1
  <2> QED
    BY <1>1, <2>1, <2>2
<1>3. y \in Words /\ \A k \in Bit : y[k] = IF Tmin[k] = 1 \/ x[k] = 1 THEN 1 ELSE 0
  BY OrBits, TminIs
<1>10. n <= 254 * p \/ (255 * p <= n /\ n <= 255 * p + h)
  BY DEF p, h
<1> HIDE DEF y
<1>4. y[31] = 1 /\ \A k \in 0..31-1 : y[k] = x[k]
  <2>1. 31 \in Bit /\ \A k \in 0..31-1 : k \in Bit /\ k # 31
    BY DEF Bit
  <2>2. \A k \in Bit : x[k] \in {0, 1}
    BY DEF Words
  <2> QED
    BY <1>3, <2>1, <2>2, TminIs
<1>5. Low(y, 31) = Low(x, 31)
  <2>1. 31 \in 0..31 /\ Low(x, 31) \in Int
    BY <1>1
  <2>2. \A k \in 0..31-1 : x[k] = (Low(x, 31) \div Pow(k)) % 2
    BY <2>1, DigitsOf
  <2>3. \A k \in 0..31-1 : y[k] = (Low(x, 31) \div Pow(k)) % 2
    BY <1>4, <2>2
  <2>4. Low(y, 31) = Low(x, 31) % Pow(31)
    BY <1>3, <2>1, <2>3, LowDigits
  <2>5. Pow(31) = Half /\ Half \in Nat
    BY HalfIs DEF Pow
  <2>6. Low(x, 31) % Half = Low(x, 31)
    BY <1>1, <2>5
  <2> QED
    BY <2>4, <2>5, <2>6
<1>6. m = n - Half
  BY <1>2, <1>3, <1>4, <1>5, NumberIs
<1>7. ASSUME NEW z \in Words, Low(z, 31) = n
      PROVE  Scalable(z)
  <2>1. /\ Exp(z) \in 0..255 /\ Low(z, 31) = Frac(z) + p * Exp(z)
        /\ Frac(z) \in Nat /\ Frac(z) < p
    BY ExpIs DEF p
  <2>2. ASSUME Exp(z) = 254
        PROVE  Frac(z) = 0
    <3>1. n = Frac(z) + p * 254 /\ Frac(z) < p /\ Frac(z) \in Nat
      BY <1>7, <2>1, <2>2
    <3> HIDE DEF n
    <3> QED
      BY <1>0, <1>10, <3>1
  <2> QED
    BY <2>2 DEF Scalable
<1>8. Scalable(x) /\ Scalable(y)
  BY <1>2, <1>3, <1>5, <1>7
<1>9. n \notin -149..-128 /\ m \notin -149..-128
  <2> HIDE DEF n, m
  <2>1. n \in Nat /\ n <= 511 * h /\ m = n - 512 * h /\ h \in Nat /\ h > 500
    BY <1>0, <1>2, <1>6, <1>10
  <2>2. m \in Int /\ m <= -h
    BY <2>1
  <2> QED
    BY <2>1, <2>2
<1> QED
  BY <1>3, <1>8, <1>9 DEF Safe, y

\* Sums and differences of a float and a small number.
LEMMA Nearby ==
  ASSUME NEW x \in Words, NEW k \in Nat, k < pow2[23],
         pow2[23] <= Number(x), Number(x) <= 254 * pow2[23]
  PROVE  /\ Plus(x, Neg(Word(k))) \in Words /\ Number(Plus(x, Neg(Word(k)))) = Number(x) - k
         /\ Plus(x, Word(k)) \in Words /\ Number(Plus(x, Word(k))) = Number(x) + k
<1> DEFINE n == Number(x)
           p == pow2[23]
<1>1. p \in Nat /\ p > 1000 /\ Half = 256 * p /\ Half \in Nat
  BY FloatUnit, HalfIs
<1>2. p <= n /\ n <= 254 * p /\ n \in Int /\ k < p
  BY NumberIs DEF Ints
<1> HIDE DEF n, p
<1>3. k \in Ints
  BY <1>1, <1>2 DEF Ints
<1>4. Word(k) \in Words /\ Number(Word(k)) = k
  BY <1>3, NumberWord
<1>5. Neg(Word(k)) \in Words /\ Number(Neg(Word(k))) = -k
  <2>1. /\ Plus(Not(Word(k)), One) \in Words
        /\ Number(Plus(Not(Word(k)), One)) = IF Number(Word(k)) = -Half THEN -Half ELSE -Number(Word(k))
    BY <1>4, Negation
  <2>2. k # -Half
    BY <1>1
  <2> QED
    BY <1>4, <2>1, <2>2 DEF Neg
<1>6. Plus(x, Neg(Word(k))) \in Words /\ Number(Plus(x, Neg(Word(k)))) = Wrapped(n + -k)
  BY <1>5, NumberPlus DEF n
<1>7. Plus(x, Word(k)) \in Words /\ Number(Plus(x, Word(k))) = Wrapped(n + k)
  BY <1>4, NumberPlus DEF n
<1>8. Wrapped(n + -k) = n - k
  BY <1>1, <1>2 DEF Wrapped
<1>9. Wrapped(n + k) = n + k
  BY <1>1, <1>2 DEF Wrapped
<1> QED
  BY <1>6, <1>7, <1>8, <1>9 DEF n

\* The constants of gen_vals.
LEMMA FloatConstants ==
  /\ Hex(<<0, 0, 8, 0, 0, 0, 0, 0>>) \in Words /\ Number(Hex(<<0, 0, 8, 0, 0, 0, 0, 0>>)) = pow2[23]
  /\ Hex(<<3, 15, 8, 0, 0, 0, 0, 0>>) \in Words /\ Number(Hex(<<3, 15, 8, 0, 0, 0, 0, 0>>)) = 127 * pow2[23]
  /\ Hex(<<7, 15, 0, 0, 0, 0, 0, 0>>) \in Words /\ Number(Hex(<<7, 15, 0, 0, 0, 0, 0, 0>>)) = 254 * pow2[23]
  /\ Hex(<<7, 15, 8, 0, 0, 0, 0, 0>>) \in Words /\ Number(Hex(<<7, 15, 8, 0, 0, 0, 0, 0>>)) = 255 * pow2[23]
  /\ Hex(<<7, 15, 12, 0, 0, 0, 0, 0>>) \in Words
  /\ Number(Hex(<<7, 15, 12, 0, 0, 0, 0, 0>>)) = 255 * pow2[23] + pow2[22]
<1> DEFINE a == Hex(<<0, 0, 8, 0, 0, 0, 0, 0>>)
           b == Hex(<<3, 15, 8, 0, 0, 0, 0, 0>>)
           c == Hex(<<7, 15, 0, 0, 0, 0, 0, 0>>)
           d == Hex(<<7, 15, 8, 0, 0, 0, 0, 0>>)
           e == Hex(<<7, 15, 12, 0, 0, 0, 0, 0>>)
<1>1. 0 \in 0..7 /\ 3 \in 0..7 /\ 7 \in 0..7 /\ 0 \in 0..15 /\ 8 \in 0..15 /\ 12 \in 0..15 /\ 15 \in 0..15
  OBVIOUS
<1>2. a \in Words /\ Number(a) = Pow(20) * 8 + Pow(24) * 0 + Pow(28) * 0
  BY <1>1, HexIs
<1>3. b \in Words /\ Number(b) = Pow(20) * 8 + Pow(24) * 15 + Pow(28) * 3
  BY <1>1, HexIs
<1>4. c \in Words /\ Number(c) = Pow(20) * 0 + Pow(24) * 15 + Pow(28) * 7
  BY <1>1, HexIs
<1>5. d \in Words /\ Number(d) = Pow(20) * 8 + Pow(24) * 15 + Pow(28) * 7
  BY <1>1, HexIs
<1>6. e \in Words /\ Number(e) = Pow(20) * 12 + Pow(24) * 15 + Pow(28) * 7
  BY <1>1, HexIs
<1> HIDE DEF a, b, c, d, e
<1>7. /\ Number(a) = pow2[23] /\ Number(b) = 127 * pow2[23] /\ Number(c) = 254 * pow2[23]
      /\ Number(d) = 255 * pow2[23] /\ Number(e) = 255 * pow2[23] + pow2[22]
  BY <1>2, <1>3, <1>4, <1>5, <1>6, FloatUnit
<1> QED
  BY <1>2, <1>3, <1>4, <1>5, <1>6, <1>7 DEF a, b, c, d, e

\* The values around the boundaries of the floats.
LEMMA FloatValsSafe ==
  ASSUME NEW k \in Nat, k < pow2[23]
  PROVE  /\ DOMAIN Btest!FloatVals(k) = 1..6
         /\ \A j \in 1..6 : Btest!FloatVals(k)[j] \in Safe /\ Or(Tmin, Btest!FloatVals(k)[j]) \in Safe
<1> DEFINE smallest == Hex(<<0, 0, 8, 0, 0, 0, 0, 0>>)
           one == Hex(<<3, 15, 8, 0, 0, 0, 0, 0>>)
           largest == Hex(<<7, 15, 0, 0, 0, 0, 0, 0>>)
           v == Word(k)
           p == pow2[23]
<1>1. Btest!FloatVals(k) = <<v, Plus(smallest, v), Plus(smallest, Neg(v)), Plus(one, v), Plus(one, Neg(v)),
                             Plus(largest, Neg(v))>>
  BY SameWords, SameNumbers DEF Btest!FloatVals
<1>2. /\ smallest \in Words /\ Number(smallest) = p /\ one \in Words /\ Number(one) = 127 * p
      /\ largest \in Words /\ Number(largest) = 254 * p
  BY FloatConstants
<1>3. p \in Nat /\ p > 1000 /\ Half = 256 * p /\ Half \in Nat /\ k < p
  BY FloatUnit, HalfIs
<1> HIDE DEF smallest, one, largest
<1>4. v \in Words /\ Number(v) = k
  <2> HIDE DEF p
  <2>1. k \in Ints
    BY <1>3 DEF Ints
  <2> QED
    BY <2>1, NumberWord
<1>5. ASSUME NEW x \in Words, 0 <= Number(x), Number(x) <= 254 * p
      PROVE  x \in Safe /\ Or(Tmin, x) \in Safe
  BY <1>5, SafeFloat
<1>6. v \in Safe /\ Or(Tmin, v) \in Safe
  <2> HIDE DEF p
  <2>1. 0 <= Number(v) /\ Number(v) <= 254 * p
    <3> HIDE DEF v
    <3> QED
      BY <1>3, <1>4
  <2> QED
    BY <1>4, <1>5, <2>1
<1>7. ASSUME NEW x \in Words, p <= Number(x), Number(x) <= 254 * p
      PROVE  /\ Plus(x, Neg(v)) \in Safe /\ Or(Tmin, Plus(x, Neg(v))) \in Safe
             /\ Number(x) <= 127 * p => Plus(x, v) \in Safe /\ Or(Tmin, Plus(x, v)) \in Safe
  <2>1. /\ Plus(x, Neg(v)) \in Words /\ Number(Plus(x, Neg(v))) = Number(x) - k
        /\ Plus(x, v) \in Words /\ Number(Plus(x, v)) = Number(x) + k
    BY <1>3, <1>7, Nearby
  <2> DEFINE y == Plus(x, Neg(v))
             z == Plus(x, v)
             n == Number(x)
  <2>2. n \in Int
    BY <1>7, NumberIs, Zenon DEF Ints
  <2>3. y \in Words /\ z \in Words /\ Number(y) = n - k /\ Number(z) = n + k
    BY <2>1
  <2>4. p <= n /\ n <= 254 * p
    BY <1>7
  <2> HIDE DEF y, z, n, p
  <2>5. 0 <= Number(y) /\ Number(y) <= 254 * p
    BY <1>3, <2>2, <2>3, <2>4
  <2>6. n <= 127 * p => 0 <= Number(z) /\ Number(z) <= 254 * p
    BY <1>3, <2>2, <2>3, <2>4
  <2>7. y \in Safe /\ Or(Tmin, y) \in Safe
    BY <1>5, <2>3, <2>5
  <2>8. n <= 127 * p => z \in Safe /\ Or(Tmin, z) \in Safe
    BY <1>5, <2>3, <2>6
  <2> QED
    BY <2>7, <2>8 DEF y, z, n
<1>8. /\ p <= Number(smallest) /\ Number(smallest) <= 127 * p /\ Number(smallest) <= 254 * p
      /\ p <= Number(one) /\ Number(one) <= 127 * p /\ Number(one) <= 254 * p
      /\ p <= Number(largest) /\ Number(largest) <= 254 * p
  <2> HIDE DEF p
  <2> QED
    BY <1>2, <1>3
<1> HIDE DEF v, p
<1>9. Plus(smallest, v) \in Safe /\ Or(Tmin, Plus(smallest, v)) \in Safe
  BY <1>2, <1>7, <1>8
<1>10. Plus(smallest, Neg(v)) \in Safe /\ Or(Tmin, Plus(smallest, Neg(v))) \in Safe
  BY <1>2, <1>7, <1>8
<1>11. Plus(one, v) \in Safe /\ Or(Tmin, Plus(one, v)) \in Safe
  BY <1>2, <1>7, <1>8
<1>12. Plus(one, Neg(v)) \in Safe /\ Or(Tmin, Plus(one, Neg(v))) \in Safe
  BY <1>2, <1>7, <1>8
<1>13. Plus(largest, Neg(v)) \in Safe /\ Or(Tmin, Plus(largest, Neg(v))) \in Safe
  BY <1>2, <1>7, <1>8
<1> QED
  BY <1>1, <1>6, <1>9, <1>10, <1>11, <1>12, <1>13
-----------------------------------------------------------------------------
(* The runs of btest.                                                      *)

\* The ranges leave the values of an exponent, and the options give words.
BtestAssumption ==
  /\ \A range \in {TEST_RANGE, SQRT_RANGE, CBRT_RANGE} : range \in Nat \ {0} /\ range <= pow2[23]
  /\ RandomWords \in Seq(Words) \ {<<>>}
  /\ \A c \in CommandLines : c = [f |-> c.f, args |-> c.args] /\ c.args \in Seq((1..3) \X Words)

\* Two puzzles are wrong on some floats.
WrongFor(f, w) ==
  \/ f \in {AllFunctions, "floatScale2"} /\ ~ Scalable(w)
  \/ f \in {AllFunctions, "floatPower2"} /\ Number(w) \in -149..-128

\* No command line gives one of them.
ExactLines == \A c \in CommandLines : \A k \in DOMAIN c.args : ~ WrongFor(c.f, c.args[k][2])

\* The values that may be given with -f f.
Values(f) == {w \in Words : ~ WrongFor(f, w)}

\* A given value is apt for the puzzles that are called.
LEMMA ValuesApt ==
  ASSUME NEW f, NEW name, f \in {AllFunctions, name}
  PROVE  Values(f) \subseteq Apt(name)
BY DEF Values, Apt, WrongFor

\* A list of six has something in it.
LEMMA SixLong ==
  ASSUME NEW seq, Len(seq) = 6
  PROVE  seq # <<>>
<1>1. Len(<<>>) = 0
  BY EmptySeq
<1> SUFFICES ASSUME seq = <<>> PROVE FALSE
  OBVIOUS
<1>2. 0 = 6
  BY <1>1, Zenon
<1> QED
  BY <1>2, SMT

\* gen_vals makes at least one value, and only apt ones.
LEMMA Generated ==
  ASSUME BtestAssumption, NEW name, NEW range \in Nat \ {0}, range <= pow2[23],
         NEW arg, has_arg[arg] \in Seq(Apt(name))
  PROVE  /\ Btest!gen_vals(name, range, arg) \in Seq(Apt(name))
         /\ Btest!gen_vals(name, range, arg) # <<>>
<1>1. CASE has_arg[arg] # <<>>
  <2>1. Btest!gen_vals(name, range, arg) = has_arg[arg]
    BY <1>1 DEF Btest!gen_vals, Btest!None
  <2> QED
    BY <1>1, <2>1
<1>2. CASE has_arg[arg] = <<>> /\ name \in Btest!Floats
  <2> DEFINE inf == Hex(<<7, 15, 8, 0, 0, 0, 0, 0>>)
             nan == Hex(<<7, 15, 12, 0, 0, 0, 0, 0>>)
             Both(values) == [k \in DOMAIN values |-> <<values[k], Or(Tmin, values[k])>>]
             pairs == [k \in 1..range |-> Both(Btest!FloatVals(k - 1))]
             last == <<inf, Or(Tmin, inf), nan, Or(Tmin, nan)>>
  <2>1. Btest!gen_vals(name, range, arg) = Btest!FlattenSeq(Btest!FlattenSeq(pairs)) \o last
    BY <1>2, SameWords, SameNumbers DEF Btest!gen_vals, Btest!None, Btest!Signed
  <2>2. last \in Seq(Safe) /\ Len(last) = 4
    <3>1. inf \in Safe /\ Or(Tmin, inf) \in Safe /\ nan \in Safe /\ Or(Tmin, nan) \in Safe
      <4> DEFINE p == pow2[23]
                 h == pow2[22]
      <4>1. inf \in Words /\ Number(inf) = 255 * p /\ nan \in Words /\ Number(nan) = 255 * p + h
        BY FloatConstants
      <4>2. p \in Nat /\ h \in Nat
        BY FloatUnit
      <4> HIDE DEF p, h, inf, nan
      <4>3. 0 <= Number(inf) /\ 255 * p <= Number(inf) /\ Number(inf) <= 255 * p + h
        BY <4>1, <4>2
      <4>4. 0 <= Number(nan) /\ 255 * p <= Number(nan) /\ Number(nan) <= 255 * p + h
        BY <4>1, <4>2
      <4> QED
        BY <4>1, <4>3, <4>4, SafeFloat DEF p, h
    <3> HIDE DEF inf, nan
    <3> QED
      BY <3>1
  <2> DEFINE Pairs == Seq(Safe) \ {<<>>}
  <2>3. \A k \in 1..range : pairs[k] \in Seq(Pairs) /\ pairs[k] # <<>>
    <3> TAKE k \in 1..range
    <3> DEFINE values == Btest!FloatVals(k - 1)
    <3>1. k - 1 \in Nat /\ k - 1 < pow2[23]
      <4>1. pow2[23] \in Nat
        BY FloatUnit
      <4> QED
        BY <4>1
    <3>2. /\ DOMAIN values = 1..6
          /\ \A j \in 1..6 : values[j] \in Safe /\ Or(Tmin, values[j]) \in Safe
      BY <3>1, FloatValsSafe
    <3> HIDE DEF values
    <3>3. \A j \in 1..6 : <<values[j], Or(Tmin, values[j])>> \in Pairs
      <4> TAKE j \in 1..6
      <4>1. values[j] \in Safe /\ Or(Tmin, values[j]) \in Safe
        BY <3>2
      <4> QED
        BY <4>1
    <3> HIDE DEF Pairs
    <3>4. Both(values) = [j \in 1..6 |-> <<values[j], Or(Tmin, values[j])>>]
      BY <3>2
    <3>5. Both(values) \in [1..6 -> Pairs]
      BY <3>3, <3>4
    <3>6. Both(values) \in Seq(Pairs) /\ Len(Both(values)) = 6
      BY <3>5
    <3>7. Both(values) # <<>>
      <4> DEFINE b == Both(values)
      <4>1. Len(b) = 6
        BY <3>6
      <4> HIDE DEF b
      <4> QED
        BY <4>1, SixLong DEF b
    <3>8. pairs[k] = Both(values)
      BY DEF values
    <3> HIDE DEF Both, pairs
    <3> QED
      BY <3>6, <3>7, <3>8
  <2>4. pairs \in [1..range -> Seq(Pairs)]
    BY <2>3
  <2> HIDE DEF pairs, Pairs
  <2> DEFINE flat == Btest!FlattenSeq(pairs)
  <2>5. flat \in Seq(Pairs) /\ flat # <<>>
    BY <2>3, <2>4, FlattenIn
  <2> HIDE DEF flat
  <2>6. Len(flat) \in Nat \ {0} /\ flat \in [1..Len(flat) -> Pairs]
    BY <2>5, EmptySeq, LenProperties
  <2>7. flat \in [1..Len(flat) -> Seq(Safe)] /\ \A k \in 1..Len(flat) : flat[k] # <<>>
    BY <2>6 DEF Pairs
  <2> DEFINE all == Btest!FlattenSeq(flat)
  <2>8. all \in Seq(Safe) /\ all # <<>>
    BY <2>6, <2>7, FlattenIn
  <2> HIDE DEF all, last
  <2>9. all \o last \in Seq(Safe) /\ Len(all \o last) = Len(all) + Len(last)
    BY <2>2, <2>8, ConcatProperties
  <2>10. Len(all) \in Nat
    BY <2>8, LenProperties
  <2>11. Len(all \o last) # 0
    BY <2>2, <2>9, <2>10
  <2>12. all \o last # <<>>
    BY <2>11, EmptySeq
  <2>13. all \o last \in Seq(Apt(name))
    <3> DEFINE s == all \o last
    <3>1. s \in Seq(Safe)
      BY <2>9
    <3> HIDE DEF s
    <3>2. s \in Seq(Apt(name))
      BY <3>1, SafeIsApt
    <3> QED
      BY <3>2 DEF s
  <2> QED
    BY <2>1, <2>12, <2>13 DEF all, flat
<1>3. CASE has_arg[arg] = <<>> /\ name \notin Btest!Floats
  <2> DEFINE Near(k) == <<Plus(Tmin, Word(k)), Plus(Not(Tmin), Word(-k)), Word(k), Word(-k),
                          RandomWords[1 + (k % Len(RandomWords))]>>
             near == [k \in 1..range |-> Near(k - 1)]
  <2>1. Btest!gen_vals(name, range, arg) = Btest!FlattenSeq(near)
    BY <1>3, SameWords, SameNumbers DEF Btest!gen_vals, Btest!None
  <2>2. Apt(name) = Words
    BY <1>3 DEF Apt, Btest!Floats
  <2>3. \A k \in 1..range : near[k] \in Seq(Words) /\ near[k] # <<>>
    <3> TAKE k \in 1..range
    <3> DEFINE m == k - 1
    <3>0. m \in Nat /\ m < range
      OBVIOUS
    <3> HIDE DEF m
    <3>1. m \in Nat /\ m < pow2[23] /\ pow2[23] \in Nat /\ Half = 256 * pow2[23]
      <4>1. pow2[23] \in Nat /\ Half = 256 * pow2[23]
        BY FloatUnit
      <4> DEFINE p == pow2[23]
      <4>2. p \in Nat /\ range <= p
        BY <4>1
      <4> HIDE DEF p
      <4>3. m < p
        BY <3>0, <4>2
      <4> QED
        BY <3>0, <4>1, <4>3 DEF p
    <3>2. m \in Ints /\ -m \in Ints
      BY <3>1 DEF Ints
    <3>3. Word(m) \in Words /\ Word(-m) \in Words
      BY <3>2, NumberWord
    <3>4. Plus(Tmin, Word(m)) \in Words /\ Plus(Not(Tmin), Word(-m)) \in Words
      BY <3>3, NumberPlus, NumberNot, TminIs
    <3>5. RandomWords[1 + (m % Len(RandomWords))] \in Words
      <4> DEFINE l == Len(RandomWords)
      <4>1. RandomWords \in Seq(Words) /\ RandomWords # <<>>
        BY DEF BtestAssumption
      <4>2. l \in Nat \ {0} /\ RandomWords \in [1..l -> Words]
        BY <4>1, EmptySeq, LenProperties
      <4> HIDE DEF l
      <4>3. 1 + (m % l) \in 1..l
        BY <3>1, <4>2
      <4> QED
        BY <4>2, <4>3 DEF l
    <3>6. near[k] = Near(m)
      BY DEF m
    <3>7. Near(m) \in Seq(Words) /\ Near(m) # <<>>
      BY <3>3, <3>4, <3>5
    <3> QED
      BY <3>6, <3>7
  <2>4. near \in [1..range -> Seq(Words)]
    BY <2>3
  <2> HIDE DEF near
  <2> QED
    BY <2>1, <2>2, <2>3, <2>4, FlattenIn
<1> QED
  BY <1>1, <1>2, <1>3

\* The number of calls of a puzzle with a arguments, of which v has the values.
CountOf(a, v) ==
  IF a = 0 THEN 1
  ELSE LET n[k \in 0..a] == IF k = 0 THEN 1 ELSE n[k-1] * Len(v[k]) IN n[a]

\* It is the product of the numbers of values.
LEMMA CountIs ==
  ASSUME NEW a \in 0..3, NEW v, NEW S, \A k \in 1..a : v[k] \in Seq(S) /\ v[k] # <<>>
  PROVE  /\ \A k \in 1..a : Len(v[k]) \in Nat \ {0}
         /\ a = 0 => CountOf(a, v) = 1
         /\ a = 1 => CountOf(a, v) = Len(v[1])
         /\ a = 2 => CountOf(a, v) = Len(v[1]) * Len(v[2])
         /\ a = 3 => CountOf(a, v) = Len(v[1]) * (Len(v[2]) * Len(v[3]))
         /\ CountOf(a, v) \in Nat \ {0}
<1> DEFINE product2 == Len(v[1]) * Len(v[2])
           product3 == Len(v[1]) * (Len(v[2]) * Len(v[3]))
<1>1. \A k \in 1..a : Len(v[k]) \in Nat \ {0}
  BY EmptySeq
<1>2. a = 0 => CountOf(a, v) = 1
  BY DEF CountOf
<1>3. ASSUME a # 0
      PROVE  /\ a = 1 => CountOf(a, v) = Len(v[1])
             /\ a = 2 => CountOf(a, v) = product2
             /\ a = 3 => CountOf(a, v) = product3
  <2> DEFINE Is(f) == f = [k \in 0..a |-> IF k = 0 THEN 1 ELSE f[k-1] * Len(v[k])]
             G == [t \in Nat \X Nat |-> IF t[2] \in 1..a THEN t[1] * Len(v[t[2]]) ELSE t[1]]
  <2>1. CountOf(a, v) = (CHOOSE f : Is(f))[a]
    BY <1>3 DEF CountOf
  <2>2. G \in [Nat \X Nat -> Nat]
    <3> SUFFICES ASSUME NEW t \in Nat \X Nat
                 PROVE  (IF t[2] \in 1..a THEN t[1] * Len(v[t[2]]) ELSE t[1]) \in Nat
      OBVIOUS
    <3>1. t[1] \in Nat /\ (t[2] \in 1..a => Len(v[t[2]]) \in Nat)
      BY <1>1
    <3>2. \A x, y \in Nat : x * y \in Nat
      OBVIOUS
    <3> QED
      BY <3>1, <3>2
  <2>3. \A d \in Nat, i \in 1..a : G[<<d, i>>] = d * Len(v[i])
    OBVIOUS
  <2> HIDE DEF G
  <2>4. PICK F : Iteration(F, Nat, 1, G, a)
    <3>1. 1 \in Nat /\ a \in Nat
      OBVIOUS
    <3> QED
      BY <2>2, <3>1, Iterates
  <2>5. F \in [0..a -> Nat] /\ F[0] = 1 /\ \A i \in 1..a : F[i] = F[i-1] * Len(v[i])
    <3>1. F \in [0..a -> Nat] /\ F[0] = 1 /\ \A i \in 1..a : F[i] = G[<<F[i-1], i>>]
      BY <2>4 DEF Iteration
    <3>2. \A i \in 1..a : F[i-1] \in Nat
      BY <3>1
    <3> QED
      BY <2>3, <3>1, <3>2
  <2>6. Is(F)
    <3>1. \A k \in 0..a : F[k] = IF k = 0 THEN 1 ELSE F[k-1] * Len(v[k])
      BY <2>5
    <3>2. F = [k \in 0..a |-> F[k]]
      BY <2>5
    <3> QED
      BY <3>1, <3>2, Zenon
  <2> HIDE DEF Is
  <2>7. PICK f : Is(f) /\ CountOf(a, v) = f[a]
    BY <2>1, <2>6
  <2>8. f[0] = 1 /\ \A k \in 1..a : f[k] = f[k-1] * Len(v[k])
    <3>1. f = [k \in 0..a |-> IF k = 0 THEN 1 ELSE f[k-1] * Len(v[k])]
      BY <2>7 DEF Is
    <3>2. 0 \in 0..a /\ \A k \in 1..a : k \in 0..a /\ k # 0
      OBVIOUS
    <3> QED
      BY <3>1, <3>2
  <2> DEFINE x == Len(v[1])
             y == Len(v[2])
             z == Len(v[3])
  <2>9. 1 - 1 = 0 /\ 2 - 1 = 1 /\ 3 - 1 = 2 /\ 1 \in 1..a
    BY <1>3
  <2>10. f[1] = x /\ x \in Nat
    <3>1. x \in Nat
      BY <1>1, <2>9
    <3>2. f[1] = 1 * x
      BY <2>8, <2>9
    <3> HIDE DEF x
    <3> QED
      BY <3>1, <3>2
  <2>11. a >= 2 => f[2] = x * y /\ y \in Nat
    <3> SUFFICES ASSUME a >= 2 PROVE f[2] = x * y /\ y \in Nat
      OBVIOUS
    <3>1. 2 \in 1..a
      OBVIOUS
    <3>2. f[2] = f[2-1] * Len(v[2]) /\ Len(v[2]) \in Nat
      BY <1>1, <2>8, <3>1
    <3> QED
      BY <2>9, <2>10, <3>2
  <2>12. a = 3 => f[3] = x * (y * z)
    <3> SUFFICES ASSUME a = 3 PROVE f[3] = x * (y * z)
      OBVIOUS
    <3>1. 3 \in 1..a /\ a >= 2
      OBVIOUS
    <3>2. f[3] = f[3-1] * Len(v[3]) /\ z \in Nat
      BY <1>1, <2>8, <3>1
    <3>3. f[3] = (x * y) * z
      BY <2>9, <2>11, <3>1, <3>2
    <3>4. x \in Nat /\ y \in Nat
      BY <2>10, <2>11, <3>1
    <3> HIDE DEF x, y, z
    <3> QED
      BY <3>2, <3>3, <3>4
  <2>13. a = 2 => f[2] = product2
    <3>1. a = 2 => a >= 2
      OBVIOUS
    <3> HIDE DEF product2
    <3>2. product2 = x * y
      BY DEF product2
    <3> HIDE DEF x, y
    <3> QED
      BY <2>11, <3>1, <3>2, Zenon
  <2>14. a = 3 => f[3] = product3
    BY <2>12
  <2>15. a = 1 => f[1] = Len(v[1])
    BY <2>10
  <2> HIDE DEF product2, product3
  <2> QED
    BY <2>7, <2>13, <2>14, <2>15
<1> HIDE DEF product2, product3
<1>4. CountOf(a, v) \in Nat \ {0}
  <2>1. \A x, y \in Nat \ {0} : x * y \in Nat \ {0}
    OBVIOUS
  <2>2. CASE a = 0
    BY <1>2, <2>2
  <2>3. CASE a = 1
    BY <1>1, <1>3, <2>3
  <2>4. CASE a = 2
    <3>1. Len(v[1]) \in Nat \ {0} /\ Len(v[2]) \in Nat \ {0}
      BY <1>1, <2>4
    <3>2. product2 \in Nat \ {0}
      BY <2>1, <3>1 DEF product2
    <3> QED
      BY <1>3, <2>4, <3>2
  <2>5. CASE a = 3
    <3>1. Len(v[1]) \in Nat \ {0} /\ Len(v[2]) \in Nat \ {0} /\ Len(v[3]) \in Nat \ {0}
      BY <1>1, <2>5
    <3>2. Len(v[2]) * Len(v[3]) \in Nat \ {0}
      BY <2>1, <3>1
    <3>3. product3 \in Nat \ {0}
      BY <2>1, <3>1, <3>2 DEF product3
    <3> QED
      BY <1>3, <2>5, <3>3
  <2> QED
    BY <2>2, <2>3, <2>4, <2>5
<1>5. /\ a = 1 => CountOf(a, v) = Len(v[1])
      /\ a = 2 => CountOf(a, v) = product2
      /\ a = 3 => CountOf(a, v) = product3
  BY <1>3
<1> QED
  BY <1>1, <1>2, <1>4, <1>5, Zenon DEF product2, product3

\* A number below a product has a quotient below the one factor.
LEMMA QuotientBelow ==
  ASSUME NEW m \in Nat, NEW a \in Nat, NEW b \in Nat \ {0}, m < a * b
  PROVE  m \div b \in Nat /\ m \div b < a /\ m % b \in Nat /\ m % b < b
<1> DEFINE q == m \div b
           r == m % b
<1>1. q \in Int /\ r \in Nat /\ r < b /\ m = b * q + r
  OBVIOUS
<1> HIDE DEF q, r
<1>2. q >= 0
  <2> SUFFICES ASSUME q <= -1 PROVE FALSE
    BY <1>1
  <2> DEFINE c == -1 - q
  <2>1. c \in Nat /\ q = -1 - c
    BY <1>1
  <2>2. b * c >= 0 /\ b * q = -b - b * c
    <3> HIDE DEF c
    <3> QED
      BY <2>1
  <2> HIDE DEF c
  <2> DEFINE bc == b * c
             bq == b * q
  <2>3. bc \in Int /\ bq \in Int /\ bc >= 0 /\ bq = -b - bc /\ m = bq + r
    BY <1>1, <2>1, <2>2
  <2> HIDE DEF bc, bq
  <2> QED
    BY <1>1, <2>3
<1>3. q < a
  <2> SUFFICES ASSUME q >= a PROVE FALSE
    BY <1>1
  <2> DEFINE c == q - a
  <2>1. c \in Nat /\ q = a + c
    BY <1>1
  <2>2. b * c >= 0 /\ b * q = a * b + b * c
    <3> HIDE DEF c
    <3> QED
      BY <2>1
  <2> HIDE DEF c
  <2> DEFINE bc == b * c
             bq == b * q
             ab == a * b
  <2>3. bc \in Int /\ bq \in Int /\ ab \in Int /\ bc >= 0 /\ bq = ab + bc /\ m = bq + r /\ m < ab
    BY <1>1, <2>1, <2>2
  <2> HIDE DEF bc, bq, ab
  <2> QED
    BY <1>1, <2>3
<1> QED
  BY <1>1, <1>2, <1>3 DEF q, r

\* The values of the puzzle at hand, and a call of it that is still to be made.
Ready ==
  LET t == Btest!test_set[puzzle]
  IN  /\ puzzle \in 1..13
      /\ command.f \in {AllFunctions, t.name}
      /\ \A k \in 1..t.args : arg_test_vals[k] \in Seq(Apt(t.name)) /\ arg_test_vals[k] # <<>>
      /\ tests < CountOf(t.args, arg_test_vals)

\* The inductive invariant of btest.
BtestInv ==
  /\ command = [f |-> command.f, args |-> command.args]
  /\ command.args \in Seq((1..3) \X Values(command.f))
  /\ has_arg \in [1..3 -> Seq(Values(command.f))]
  /\ puzzle \in Nat /\ tests \in Nat
  /\ arg_test_vals # <<>> => Ready
  /\ errors \in Nat /\ errors = timeouts

\* The arguments of each call are among the values.
LEMMA ArgsIn ==
  ASSUME Ready, tests \in Nat
  PROVE  \A k \in 1..Btest!test_set[puzzle].args :
           Btest!ArgsOf(tests)[k] \in Apt(Btest!test_set[puzzle].name)
<1> DEFINE t == Btest!test_set[puzzle]
           S == Apt(t.name)
           v == arg_test_vals
           L(k) == Len(v[k])
<1>1. t.args \in 0..3
  BY Table DEF Ready
<1>2. \A k \in 1..t.args : v[k] \in Seq(S) /\ v[k] # <<>>
  BY DEF Ready
<1>3. tests < CountOf(t.args, v)
  BY DEF Ready
<1>4. /\ \A k \in 1..t.args : L(k) \in Nat \ {0}
      /\ t.args = 1 => CountOf(t.args, v) = L(1)
      /\ t.args = 2 => CountOf(t.args, v) = L(1) * L(2)
      /\ t.args = 3 => CountOf(t.args, v) = L(1) * (L(2) * L(3))
  BY <1>1, <1>2, CountIs
<1>5. \A k \in 1..t.args, j \in Nat : j < L(k) => v[k][1 + j] \in S
  <2> TAKE k \in 1..t.args, j \in Nat
  <2> DEFINE s == v[k]
  <2>1. s \in Seq(S) /\ Len(s) \in Nat
    BY <1>2, <1>4
  <2> HIDE DEF s, S
  <2>2. j < Len(s) => 1 + j \in 1..Len(s)
    BY <2>1
  <2>3. j < Len(s) => s[1 + j] \in S
    BY <2>1, <2>2
  <2> QED
    BY <2>3 DEF s
<1>6. CASE t.args = 0
  BY <1>6
<1>7. CASE t.args = 1
  <2>1. Btest!ArgsOf(tests) = <<v[1][1 + tests]>>
    BY <1>7 DEF Btest!ArgsOf
  <2>2. 1 \in 1..t.args /\ tests < L(1)
    BY <1>3, <1>4, <1>7
  <2> DEFINE x == v[1][1 + tests]
  <2>3. x \in S
    BY <1>5, <2>2
  <2> HIDE DEF x, S
  <2>4. \A k \in 1..1 : <<x>>[k] \in S
    BY <2>3
  <2> QED
    BY <1>7, <2>1, <2>4 DEF x, S
<1>8. CASE t.args = 2
  <2> DEFINE x == v[1][1 + tests \div L(2)]
             y == v[2][1 + (tests % L(2))]
  <2>1. Btest!ArgsOf(tests) = <<x, y>>
    BY <1>8 DEF Btest!ArgsOf
  <2>2. 1 \in 1..t.args /\ 2 \in 1..t.args
    BY <1>8
  <2>3. L(1) \in Nat /\ L(2) \in Nat \ {0}
    BY <1>4, <2>2
  <2>4. tests < L(1) * L(2)
    BY <1>3, <1>4, <1>8
  <2>5. /\ tests \div L(2) \in Nat /\ tests \div L(2) < L(1)
        /\ tests % L(2) \in Nat /\ tests % L(2) < L(2)
    <3> HIDE DEF L
    <3> QED
      BY <2>3, <2>4, QuotientBelow
  <2>6. x \in S /\ y \in S
    BY <1>5, <2>2, <2>5
  <2> HIDE DEF x, y, S
  <2>7. \A k \in 1..2 : <<x, y>>[k] \in S
    BY <2>6
  <2> QED
    BY <1>8, <2>1, <2>7 DEF S
<1>9. CASE t.args = 3
  <2> DEFINE P == L(2) * L(3)
             x == v[1][1 + tests \div P]
             y == v[2][1 + ((tests \div L(3)) % L(2))]
             z == v[3][1 + (tests % L(3))]
  <2>1. Btest!ArgsOf(tests) = <<x, y, z>>
    <3>1. t.args # 0 /\ t.args # 1 /\ t.args # 2
      BY <1>9
    <3> QED
      BY <3>1, Zenon DEF Btest!ArgsOf
  <2>2. 1 \in 1..t.args /\ 2 \in 1..t.args /\ 3 \in 1..t.args
    BY <1>9
  <2>3. L(1) \in Nat /\ L(2) \in Nat \ {0} /\ L(3) \in Nat \ {0}
    BY <1>4, <2>2
  <2>4. tests < L(1) * P
    BY <1>3, <1>4, <1>9
  <2>5. P \in Nat \ {0}
    <3>1. \A a, b \in Nat \ {0} : a * b \in Nat \ {0}
      OBVIOUS
    <3> HIDE DEF L
    <3> QED
      BY <2>3, <3>1
  <2>6. tests \div P \in Nat /\ tests \div P < L(1)
    <3> HIDE DEF L, P
    <3> QED
      BY <2>3, <2>4, <2>5, QuotientBelow
  <2>7. (tests \div L(3)) % L(2) \in Nat /\ (tests \div L(3)) % L(2) < L(2)
    <3> DEFINE q == tests \div L(3)
    <3>1. q \in Int
      BY <2>3
    <3> HIDE DEF q, L
    <3>2. q % L(2) \in Nat /\ q % L(2) < L(2)
      BY <2>3, <3>1
    <3> QED
      BY <3>2 DEF q
  <2>8. tests % L(3) \in Nat /\ tests % L(3) < L(3)
    <3> HIDE DEF L
    <3> QED
      BY <2>3
  <2>9. x \in S /\ y \in S /\ z \in S
    <3> HIDE DEF P
    <3> QED
      BY <1>5, <2>2, <2>6, <2>7, <2>8
  <2> HIDE DEF x, y, z, S
  <2>10. \A k \in 1..3 : <<x, y, z>>[k] \in S
    BY <2>9
  <2> QED
    BY <1>9, <2>1, <2>10 DEF S
<1> QED
  BY <1>1, <1>6, <1>7, <1>8, <1>9

\* The invariant in the initial states.
LEMMA BtestInit ==
  ASSUME BtestAssumption, ExactLines, Btest!Init
  PROVE  BtestInv
<1> USE DEF Btest!Init, Btest!None
<1>1. command \in CommandLines
  OBVIOUS
<1>2. command = [f |-> command.f, args |-> command.args] /\ command.args \in Seq((1..3) \X Words)
  BY <1>1 DEF BtestAssumption
<1>3. command.args \in Seq((1..3) \X Values(command.f))
  <2> DEFINE s == command.args
             V == Values(command.f)
  <2>1. \A k \in DOMAIN s : ~ WrongFor(command.f, s[k][2])
    BY <1>1 DEF ExactLines
  <2>2. s \in Seq((1..3) \X Words) /\ DOMAIN s = 1..Len(s) /\ Len(s) \in Nat
    BY <1>2
  <2>3. \A k \in 1..Len(s) : s[k] \in (1..3) \X V
    <3> TAKE k \in 1..Len(s)
    <3>1. s[k] \in (1..3) \X Words /\ s[k][2] \in Words
      BY <2>2
    <3>2. s[k][2] \in V
      BY <2>1, <2>2, <3>1 DEF Values
    <3> HIDE DEF V, s
    <3> QED
      BY <3>1, <3>2
  <2> HIDE DEF s, V
  <2>4. s \in Seq((1..3) \X V)
    BY <2>2, <2>3
  <2> QED
    BY <2>4 DEF s, V
<1>4. has_arg \in [1..3 -> Seq(Values(command.f))]
  <2>1. <<>> \in Seq(Values(command.f))
    BY EmptySeq
  <2> QED
    BY <2>1
<1> QED
  BY <1>2, <1>3, <1>4 DEF BtestInv

\* An option gives a value, or ends the program.
LEMMA OptionStep ==
  ASSUME BtestInv, Btest!Option
  PROVE  BtestInv'
<1> USE DEF BtestInv
<1> DEFINE option == Head(command.args)
           V == Values(command.f)
           given == Btest!Taken(has_arg, option)
<1>1. puzzle = 0 /\ command.args # <<>> /\ arg_test_vals = <<>>
  BY DEF Btest!Option, Ready
<1>2. UNCHANGED <<arg_test_vals, tests, errors, timeouts>>
  BY DEF Btest!Option
<1>3. command' = [f |-> command.f, args |-> Tail(command.args)]
  <2>1. command' = [command EXCEPT !.args = Tail(@)]
    BY DEF Btest!Option
  <2> QED
    BY <2>1
<1>4. /\ option \in (1..3) \X V
      /\ Tail(command.args) \in Seq((1..3) \X V)
  BY <1>1, HeadTailProperties
<1>5. command'.f = command.f /\ command'.args = Tail(command.args)
  BY <1>3
<1>6. puzzle' \in Nat
  <2>1. puzzle' = puzzle \/ puzzle' = Len(Btest!test_set) + 1
    BY DEF Btest!Option
  <2>2. Len(Btest!test_set) \in Nat
    BY Table
  <2> QED
    BY <2>1, <2>2, <1>1
<1>7. has_arg' \in [1..3 -> Seq(V)]
  <2>1. has_arg' = has_arg \/ (has_arg' = given /\ given # <<>>)
    BY DEF Btest!Option, Btest!None
  <2>2. given # <<>> => given = [has_arg EXCEPT ![option[1]] = <<option[2]>>]
    BY DEF Btest!Taken, Btest!None
  <2>3. option[1] \in 1..3 /\ option[2] \in V
    BY <1>4
  <2>4. <<option[2]>> \in Seq(V)
    <3> DEFINE x == option[2]
    <3>1. x \in V
      BY <2>3
    <3> HIDE DEF x, V
    <3>2. <<x>> \in Seq(V)
      BY <3>1
    <3> QED
      BY <3>2 DEF x
  <2> HIDE DEF given, option, V
  <2>5. has_arg \in [1..3 -> Seq(V)]
    BY DEF V
  <2> QED
    BY <2>1, <2>2, <2>3, <2>4, <2>5
<1> QED
  BY <1>1, <1>2, <1>3, <1>4, <1>5, <1>6, <1>7

\* The steps that pass on to the next function.
LEMMA PassStep ==
  ASSUME BtestInv, Btest!Parsed \/ Btest!Skip
  PROVE  BtestInv'
<1> USE DEF BtestInv
<1>1. UNCHANGED <<command, has_arg, arg_test_vals, tests, errors, timeouts>>
  BY DEF Btest!Parsed, Btest!Skip
<1>2. arg_test_vals = <<>>
  BY DEF Btest!Parsed, Btest!Skip, Ready
<1>3. puzzle' \in Nat
  BY DEF Btest!Parsed, Btest!Skip
<1> QED
  BY <1>1, <1>2, <1>3

\* The values of a puzzle are apt for it.
LEMMA StartStep ==
  ASSUME BtestAssumption, BtestInv, Btest!test_function
  PROVE  BtestInv'
<1> USE DEF BtestInv
<1> DEFINE t == Btest!test_set[puzzle]
           S == Apt(t.name)
           range == Btest!TestRange(t.args)
<1>1. /\ UNCHANGED <<command, has_arg, puzzle, errors, timeouts>>
      /\ tests' = 0
      /\ command.f \in {AllFunctions, t.name} /\ puzzle \in 1..13
      /\ arg_test_vals' = [k \in 1..3 |-> IF k <= t.args THEN Btest!gen_vals(t.name, range, k) ELSE <<>>]
  BY Table DEF Btest!test_function, Btest!Running, Btest!None
<1>2. t.args \in 0..3
  BY <1>1, Table
<1>3. range \in Nat \ {0} /\ range <= pow2[23]
  BY DEF Btest!TestRange, BtestAssumption
<1>4. ASSUME NEW k \in 1..t.args
      PROVE  arg_test_vals'[k] \in Seq(S) /\ arg_test_vals'[k] # <<>>
  <2>1. k \in 1..3 /\ k <= t.args
    BY <1>2
  <2>2. has_arg[k] \in Seq(S)
    <3> DEFINE V == Values(command.f)
               s == has_arg[k]
    <3>1. s \in Seq(V) /\ V \subseteq S
      BY <1>1, <2>1, ValuesApt
    <3> HIDE DEF s, V, S
    <3>2. s \in Seq(S)
      BY <3>1
    <3> QED
      BY <3>2 DEF s
  <2>3. arg_test_vals'[k] = Btest!gen_vals(t.name, range, k)
    BY <1>1, <2>1
  <2> HIDE DEF range
  <2> QED
    BY <1>3, <2>2, <2>3, Generated
<1>5. CountOf(t.args, arg_test_vals') > 0
  <2>1. \A k \in 1..t.args : arg_test_vals'[k] \in Seq(S) /\ arg_test_vals'[k] # <<>>
    BY <1>4
  <2> DEFINE v == arg_test_vals'
  <2> HIDE DEF v, S
  <2>2. CountOf(t.args, v) \in Nat \ {0}
    BY <1>2, <2>1, CountIs DEF v
  <2> QED
    BY <2>2 DEF v
<1>6. Ready'
  BY <1>1, <1>4, <1>5 DEF Ready
<1> QED
  BY <1>1, <1>6

\* A call gives the right answer, so that the next one is made or the puzzle ends.
LEMMA CallStep ==
  ASSUME BtestInv, Btest!Call
  PROVE  BtestInv'
<1> USE DEF BtestInv
<1> DEFINE t == Btest!test_set[puzzle]
           a == Btest!ArgsOf(tests)
<1>1. Ready /\ UNCHANGED <<command, has_arg, timeouts>>
  BY DEF Btest!Call, Btest!None
<1>2. puzzle \in 1..13
  BY <1>1 DEF Ready
<1>3. Btest!Answers(t.name, a) = {Btest!Right(t.name, a)}
  BY <1>1, <1>2, ArgsIn, AnswersRight
<1>4. \/ /\ tests + 1 < Btest!Count
         /\ tests' = tests + 1
         /\ UNCHANGED <<puzzle, arg_test_vals, errors>>
      \/ Btest!Ended(0)
  BY <1>3 DEF Btest!Call
<1>5. CASE /\ tests + 1 < Btest!Count
           /\ tests' = tests + 1
           /\ UNCHANGED <<puzzle, arg_test_vals, errors>>
  <2>1. Btest!Count = CountOf(t.args, arg_test_vals)
    BY DEF Btest!Count, CountOf
  <2>2. Ready'
    BY <1>1, <1>5, <2>1 DEF Ready
  <2> QED
    BY <1>1, <1>5, <2>2
<1>6. CASE Btest!Ended(0)
  <2>1. arg_test_vals' = <<>> /\ tests' = 0 /\ puzzle' = puzzle + 1 /\ errors' = errors + 0
    BY <1>6 DEF Btest!Ended, Btest!None
  <2> QED
    BY <1>1, <2>1
<1> QED
  BY <1>4, <1>5, <1>6

\* The alarm counts as an error.
LEMMA TimeoutStep ==
  ASSUME BtestInv, Btest!Timeout
  PROVE  BtestInv'
<1> USE DEF BtestInv
<1>1. /\ arg_test_vals' = <<>> /\ tests' = 0 /\ puzzle' = puzzle + 1 /\ errors' = errors + 1
      /\ timeouts' = timeouts + 1 /\ UNCHANGED <<command, has_arg>>
  BY DEF Btest!Timeout, Btest!Ended, Btest!None
<1> QED
  BY <1>1

\* So does one that fires when its puzzle has ended, whatever the jump does.
LEMMA LateTimeoutStep ==
  ASSUME BtestInv, Btest!LateTimeout
  PROVE  BtestInv'
<1> USE DEF BtestInv
<1>1. arg_test_vals = <<>> /\ UNCHANGED <<command, has_arg>>
  BY DEF Btest!LateTimeout, Btest!None
<1>2. \/ /\ arg_test_vals' = <<>> /\ puzzle' = puzzle + 1 /\ tests' = 0
         /\ errors' = errors + 1 /\ timeouts' = timeouts + 1
      \/ /\ UNCHANGED <<arg_test_vals, puzzle, tests>>
         /\ errors' = errors + 1 /\ timeouts' = timeouts + 1
      \/ /\ puzzle' = Len(Btest!test_set) + 1
         /\ UNCHANGED <<arg_test_vals, tests, errors, timeouts>>
  BY DEF Btest!LateTimeout, Btest!Ended, Btest!None
<1>3. puzzle' \in Nat
  <2>1. puzzle \in Nat /\ Len(Btest!test_set) + 1 \in Nat
    BY Table
  <2>2. puzzle' = puzzle + 1 \/ puzzle' = puzzle \/ puzzle' = Len(Btest!test_set) + 1
    BY <1>2
  <2> QED
    BY <2>1, <2>2
<1>4. errors' \in Nat /\ errors' = timeouts' /\ tests' \in Nat /\ arg_test_vals' = <<>>
  BY <1>1, <1>2
<1> QED
  BY <1>1, <1>3, <1>4

(* Whatever the ranges of values, the random words and the alarms: as long *)
(* as no command line gives floatScale2 a float next to the largest power  *)
(* of 2, or floatPower2 an exponent from -149 to -128, btest finds every   *)
(* answer of every puzzle of bits.c right, and counts nothing but its      *)
(* alarms as errors, one that fires when its puzzle has ended included.    *)
(* Each puzzle computes for every word what its test in tests.c does, by   *)
(* the lemmas above.                                                       *)
THEOREM PuzzlesAreRight == ASSUME BtestAssumption, ExactLines PROVE BtestProgramSpec => []PuzzlesRight
<1> DEFINE Inv == prog = "btest" => BtestInv
<1>1. BtestProgramInit => Inv
  BY BtestInit DEF BtestProgramInit
<1>2. BtestInv /\ [Btest!Next]_(Btest!vars) => BtestInv'
  <2>1. CASE UNCHANGED Btest!vars
    BY <2>1 DEF Btest!vars, BtestInv, Ready, CountOf
  <2> QED
    BY <2>1, OptionStep, PassStep, StartStep, CallStep, TimeoutStep, LateTimeoutStep DEF Btest!Next
<1>3. Inv /\ [BtestProgramNext]_btestProgramVars => Inv'
  <2> SUFFICES ASSUME Inv, [BtestProgramNext]_btestProgramVars, prog' = "btest"
               PROVE  BtestInv'
    OBVIOUS
  <2>1. prog = "btest" /\ [Btest!Next]_(Btest!vars)
    BY DEF BtestProgramNext, btestProgramVars, btestVars, Btest!vars
  <2> QED
    BY <1>2, <2>1
<1>4. Inv => PuzzlesRight
  BY DEF BtestInv, PuzzlesRight, Btest!PuzzlesRight
<1> QED
  BY <1>1, <1>3, <1>4, PTL DEF BtestProgramSpec
=============================================================================
