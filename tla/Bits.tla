-------------------------------- MODULE Bits --------------------------------
(***************************************************************************)
(* The data lab's puzzles (bits.c) and what they have to compute           *)
(* (tests.c), on words of 32 bits: a word maps the number of a bit to 0 or *)
(* 1, a number between -2^31 and 2^31 - 1 is the int of a word, and sums   *)
(* wrap as they do in the lab's build (gcc -O -m32).                       *)
(***************************************************************************)
EXTENDS Integers, FiniteSets

Bit == 0..31

pow2[k \in 0..30] == IF k = 0 THEN 1 ELSE 2 * pow2[k - 1]

\* The word of a number and the number of a word.
Word(v) == [i \in Bit |-> IF i = 31 THEN (IF v < 0 THEN 1 ELSE 0) ELSE (v \div pow2[i]) % 2]
\* The value of the bits of x from lo to hi, less than 31 of them.
Field(x, lo, hi) ==
  LET value[n \in 0..hi-lo+1] == IF n = 0 THEN 0 ELSE value[n - 1] + x[lo + n - 1] * pow2[n - 1]
  IN  value[hi - lo + 1]
Number(x) == Field(x, 0, 30) - x[31] * 2147483647 - x[31]
\* Bits 31 to 0 written as eight hexadecimal digits.
Hex(d) == [i \in Bit |-> (d[8 - i \div 4] \div pow2[i % 4]) % 2]

\* The operators of C.
Not(x) == [i \in Bit |-> 1 - x[i]]
And(x, y) == [i \in Bit |-> x[i] * y[i]]
Or(x, y) == [i \in Bit |-> IF x[i] + y[i] > 0 THEN 1 ELSE 0]
Xor(x, y) == [i \in Bit |-> (x[i] + y[i]) % 2]
Shl(x, k) == [i \in Bit |-> IF i >= k THEN x[i - k] ELSE 0]
Sar(x, k) == [i \in Bit |-> IF i + k <= 31 THEN x[i + k] ELSE x[31]]
Shr(x, k) == [i \in Bit |-> IF i + k <= 31 THEN x[i + k] ELSE 0]
\* A carry enters bit i from the last lower bit where x and y agree.
Plus(x, y) ==
  LET Carry(i) == IF \E k \in 0..i-1 : x[k] = 1 /\ y[k] = 1 /\ \A m \in k+1..i-1 : x[m] # y[m]
                  THEN 1 ELSE 0
  IN  [i \in Bit |-> (x[i] + y[i] + Carry(i)) % 2]

Zero == Word(0)
One == Word(1)
Tmin == Shl(One, 31)
Truth(p) == IF p THEN One ELSE Zero
Bang(x) == Truth(x = Zero)
Neg(x) == Plus(Not(x), One)

-----------------------------------------------------------------------------
(* bits.c *)
bitXor(x, y) == And(Not(And(x, y)), Not(And(Not(x), Not(y))))

tmin == Shl(One, 31)

isTmax(x) == Xor(Bang(Not(Xor(Plus(x, One), x))), Bang(Not(x)))

allOddBits(x) ==
  LET allEven16bit == Plus(Shl(Word(85), 8), Word(85))
      allEven32bit == Plus(Shl(allEven16bit, 16), allEven16bit)
  IN  Bang(Not(Or(x, allEven32bit)))

negate(x) == Plus(Not(x), One)

isAsciiDigit(x) ==
  LET lhs == Bang(Sar(x, 6))
      rhs1 == Bang(Sar(Plus(Plus(Not(x), One), Word(57)), 31))
      rhs2 == Bang(Sar(Plus(Plus(x, Not(Word(48))), One), 31))
  IN  And(And(lhs, rhs1), rhs2)

conditional(x, y, z) ==
  LET bool == Plus(Bang(x), Not(Zero))
  IN  Or(And(bool, y), And(Not(bool), z))

\* Mutant: the sign of the difference alone decides.
isLessOrEqual_Difference(x, y) == Bang(Sar(Plus(Plus(Xor(Not(Zero), x), One), y), 31))
isLessOrEqual(x, y) ==
  LET posx == Bang(Sar(x, 31))
      posy == Bang(Sar(y, 31))
      difSign == Xor(posx, posy)
      YminusX == Plus(Plus(Xor(Not(Zero), x), One), y)
      YminusXpos == Bang(Sar(YminusX, 31))
  IN  Or(And(difSign, posy), And(Bang(difSign), YminusXpos))

logicalNeg(x) ==
  LET negX == Plus(Xor(Not(Zero), x), One)
      XdifNegX == Sar(Xor(negX, x), 31)
  IN  And(And(One, Not(XdifNegX)), Sar(Xor(Tmin, x), 31))

\* A step of the search shifts x by 2^k when it is not below 2^(2^k).
Halved(found, k) ==
  LET b == IF Sar(found.x, pow2[k]) # Zero THEN pow2[k] ELSE 0
  IN  [x |-> Sar(found.x, b), bits |-> found.bits + b]
howManyBits(x) ==
  LET sign == Sar(x, 31)
      start == [x |-> Or(And(sign, Not(x)), And(Not(sign), x)), bits |-> 1]
      found == Halved(Halved(Halved(Halved(Halved(start, 4), 3), 2), 1), 0)
  IN  Word(found.bits + (IF found.x # Zero THEN 1 ELSE 0))

Exp(uf) == Field(uf, 23, 30)
\* The float with the sign of uf and these fields, numbers.
Float(uf, exp, frac) ==
  [i \in Bit |-> IF i = 31 THEN uf[31] ELSE IF i >= 23 THEN (exp \div pow2[i - 23]) % 2
                 ELSE (frac \div pow2[i]) % 2]
Frac(uf) == Field(uf, 0, 22)

floatScale2(uf) ==
  LET frac == Float(Zero, 0, Frac(uf))
      s == And(uf, Tmin)
  IN  CASE Exp(uf) = 255 -> uf
        [] Exp(uf) = 0 -> Or(s, Shl(frac, 1))
        [] OTHER -> Or(Or(s, Shl(Word(Exp(uf) + 1), 23)), frac)

floatFloat2Int(uf) ==
  LET E == Exp(uf) - 127
      M == Float(Zero, 1, Frac(uf))
      size == IF E < 23 THEN Sar(M, 23 - E) ELSE Shl(M, E - 23)
  IN  CASE Exp(uf) = 255 -> Tmin
        [] Exp(uf) = 0 \/ E < 0 -> Zero
        [] Exp(uf) # 255 /\ E >= 31 -> Tmin
        [] OTHER -> IF uf[31] = 1 THEN Neg(size) ELSE size

\* The set of results the build can give: a shift by a negative count is
\* undefined.  The machine masks the count, and gcc may take it to be 0.
floatPower2(x) ==
  LET n == Number(x)
      denormal == Word(4194304)
  IN  CASE n < -149 -> {Zero}
        [] n > 127 -> {Shl(Word(255), 23)}
        [] n >= -126 /\ n <= 127 -> {Shl(Word(n + 127), 23)}
        [] OTHER -> {Shr(denormal, (n + 127) % 32), denormal}

-----------------------------------------------------------------------------
(* tests.c *)
test_bitXor(x, y) == Xor(x, y)
test_tmin == Hex(<<8, 0, 0, 0, 0, 0, 0, 0>>)
test_isTmax(x) == Truth(Number(x) = 2147483647)
test_allOddBits(x) == Truth(\A i \in Bit : i % 2 = 1 => x[i] = 1)
test_negate(x) == IF x = Tmin THEN Tmin ELSE Word(-Number(x))
test_isAsciiDigit(x) == Truth(Number(x) \in 48..57)
test_conditional(x, y, z) == IF x # Zero THEN y ELSE z
test_isLessOrEqual(x, y) == Truth(Number(x) <= Number(y))
test_logicalNeg(x) == Truth(x = Zero)

\* The bits of x, or of -x-1 when x is negative, up to its last 1, and a sign.
test_howManyBits(x) ==
  LET a == IF Number(x) < 0 THEN Not(x) ELSE x
  IN  Word(1 + Cardinality({k \in Bit : \E i \in k..31 : a[i] = 1}))

\* 2 * f for the float f: 0 and denormals, infinity and NaN, overflow.
test_floatScale2(uf) ==
  CASE Exp(uf) = 255 -> uf
    [] Exp(uf) = 0 -> IF uf[22] = 1 THEN Float(uf, 1, 2 * Frac(uf) - pow2[23]) ELSE Float(uf, 0, 2 * Frac(uf))
    [] Exp(uf) = 254 -> Float(uf, 255, 0)
    [] OTHER -> Float(uf, Exp(uf) + 1, Frac(uf))

\* (int) f: f is (2^23 + Frac) * 2^(Exp - 150), cut towards 0, and Tmin when it
\* is no int.
test_floatFloat2Int(uf) ==
  LET significand == pow2[23] + Frac(uf)
      size == CASE Exp(uf) < 127 -> 0
                [] Exp(uf) \in 127..150 -> significand \div pow2[150 - Exp(uf)]
                [] OTHER -> significand * pow2[Exp(uf) - 150]
  IN  IF Exp(uf) >= 158 THEN Tmin ELSE Word(IF uf[31] = 1 THEN -size ELSE size)

\* The float of 2^x: the products of the loop are exact, overflow, or round to 0.
test_floatPower2(x) ==
  LET n == Number(x)
  IN  CASE n < -149 -> Zero
        [] n \in -149..-127 -> Float(Zero, 0, pow2[n + 149])
        [] n \in -126..127 -> Float(Zero, n + 127, 0)
        [] OTHER -> Float(Zero, 255, 0)
=============================================================================
