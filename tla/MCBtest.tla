------------------------------ MODULE MCBtest ------------------------------
(* btest without arguments, and with the arguments -f, -1, -2 and -3. *)
EXTENDS Btest

MCRandom == <<Word(53), Word(-1234567)>>

\* Each function alone (the others are passed over); the whole test set on one
\* value for each argument; a third -1, which is refused.
MCLines ==
  {[f |-> test_set[k].name, args |-> <<>>] : k \in DOMAIN test_set} \cup {
  [f |-> AllFunctions, args |-> <<<<1, Tmin>>, <<2, Not(Tmin)>>, <<3, Word(-5)>>>>],
  [f |-> "negate", args |-> <<<<1, Zero>>, <<1, Word(7)>>, <<1, Word(8)>>>>]}

\* The float next to the largest power of 2.
FloatLines == {[f |-> "floatScale2", args |-> <<<<1, Hex(<<7, 15, 0, 0, 0, 0, 0, 1>>)>>>>]}
=============================================================================
