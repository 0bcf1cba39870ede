------------------------------- MODULE Btest -------------------------------
(***************************************************************************)
(* btest.c: every puzzle of decl.c is called on the values gen_vals makes  *)
(* for its arguments, or on the one given on the command line, and stops   *)
(* at the first wrong answer or after the time limit.                      *)
(***************************************************************************)
EXTENDS Bits, SequencesExt

CONSTANTS
  CommandLines,           \* records [f |-> name or AllFunctions, args |-> options -1, -2, -3]
  AllFunctions,                    \* no option -f
  TEST_RANGE,             \* 500000 in the code; with its roots
  SQRT_RANGE, CBRT_RANGE,
  Random,                 \* the words random_val returns
  MaxTimeouts             \* bound: alarms that fire

VARIABLES
  command,                \* the command line
  has_arg,                \* the argument values given, or None
  i,                      \* the puzzle of test_set at hand
  arg_test_vals,          \* the values for each of its arguments, <<>> before it starts
  tests,                  \* calls made so far
  errors, points, timeouts,
  armed                   \* an alarm is set and has not fired

vars == <<command, has_arg, i, arg_test_vals, tests, errors, points, timeouts, armed>>

None == <<>>

Puzzle(name, args, rating) == [name |-> name, args |-> args, rating |-> rating]
test_set == <<
  Puzzle("bitXor", 2, 1), Puzzle("tmin", 0, 1), Puzzle("isTmax", 1, 1),
  Puzzle("allOddBits", 1, 2), Puzzle("negate", 1, 2), Puzzle("isAsciiDigit", 1, 3),
  Puzzle("conditional", 3, 3), Puzzle("isLessOrEqual", 2, 3), Puzzle("logicalNeg", 1, 4),
  Puzzle("howManyBits", 1, 4), Puzzle("floatScale2", 1, 4), Puzzle("floatFloat2Int", 1, 4),
  Puzzle("floatPower2", 1, 4)>>

Floats == {"floatScale2", "floatFloat2Int", "floatPower2"}

\* What a puzzle may answer, and what its test function does.
Answers(name, a) ==
  CASE name = "bitXor" -> {bitXor(a[1], a[2])}
    [] name = "tmin" -> {tmin}
    [] name = "isTmax" -> {isTmax(a[1])}
    [] name = "allOddBits" -> {allOddBits(a[1])}
    [] name = "negate" -> {negate(a[1])}
    [] name = "isAsciiDigit" -> {isAsciiDigit(a[1])}
    [] name = "conditional" -> {conditional(a[1], a[2], a[3])}
    [] name = "isLessOrEqual" -> {isLessOrEqual(a[1], a[2])}
    [] name = "logicalNeg" -> {logicalNeg(a[1])}
    [] name = "howManyBits" -> {howManyBits(a[1])}
    [] name = "floatScale2" -> {floatScale2(a[1])}
    [] name = "floatFloat2Int" -> {floatFloat2Int(a[1])}
    [] name = "floatPower2" -> floatPower2(a[1])

Right(name, a) ==
  CASE name = "bitXor" -> test_bitXor(a[1], a[2])
    [] name = "tmin" -> test_tmin
    [] name = "isTmax" -> test_isTmax(a[1])
    [] name = "allOddBits" -> test_allOddBits(a[1])
    [] name = "negate" -> test_negate(a[1])
    [] name = "isAsciiDigit" -> test_isAsciiDigit(a[1])
    [] name = "conditional" -> test_conditional(a[1], a[2], a[3])
    [] name = "isLessOrEqual" -> test_isLessOrEqual(a[1], a[2])
    [] name = "logicalNeg" -> test_logicalNeg(a[1])
    [] name = "howManyBits" -> test_howManyBits(a[1])
    [] name = "floatScale2" -> test_floatScale2(a[1])
    [] name = "floatFloat2Int" -> test_floatFloat2Int(a[1])
    [] name = "floatPower2" -> test_floatPower2(a[1])

-----------------------------------------------------------------------------
\* Around 0, the smallest normalized float, 1 and, below it only, largest_norm.
FloatVals(k) ==
  LET smallest_norm == Hex(<<0, 0, 8, 0, 0, 0, 0, 0>>)
      one == Hex(<<3, 15, 8, 0, 0, 0, 0, 0>>)
      largest_norm == Hex(<<7, 15, 0, 0, 0, 0, 0, 0>>)
      v == Word(k)
  IN  <<v, Plus(smallest_norm, v), Plus(smallest_norm, Neg(v)), Plus(one, v), Plus(one, Neg(v)),
        Plus(largest_norm, Neg(v))>>
Signed(w) == Or(Tmin, w)

gen_vals(name, range, arg) ==
  LET inf == Hex(<<7, 15, 8, 0, 0, 0, 0, 0>>)
      nan == Hex(<<7, 15, 12, 0, 0, 0, 0, 0>>)
      Both(values) == [k \in DOMAIN values |-> <<values[k], Signed(values[k])>>]
      Near(k) == <<Plus(Tmin, Word(k)), Plus(Not(Tmin), Word(-k)), Word(k), Word(-k),
                  Random[1 + (k % Len(Random))]>>
  IN  CASE has_arg[arg] # None -> has_arg[arg]
        [] has_arg[arg] = None /\ name \in Floats ->
             FlattenSeq(FlattenSeq([k \in 1..range |-> Both(FloatVals(k - 1))]))
               \o <<inf, Signed(inf), nan, Signed(nan)>>
        [] OTHER -> FlattenSeq([k \in 1..range |-> Near(k - 1)])

TestRange(args) == IF args = 1 THEN TEST_RANGE ELSE IF args = 2 THEN SQRT_RANGE ELSE CBRT_RANGE

\* get_num_val takes a value only while the argument's own value is still 0.
Taken(given, option) ==
  IF given[option[1]] \in {None, <<Zero>>}
  THEN [given EXCEPT ![option[1]] = <<option[2]>>]
  ELSE None

Init ==
  /\ command \in CommandLines
  /\ has_arg = [k \in 1..3 |-> None]
  /\ i = 0
  /\ arg_test_vals = None
  /\ tests = 0
  /\ errors = 0
  /\ points = 0
  /\ timeouts = 0
  /\ armed = FALSE

\* main: the next option -1, -2 or -3; a bad one ends the program.
Option ==
  /\ i = 0
  /\ command.args # <<>>
  /\ LET given == Taken(has_arg, Head(command.args))
     IN  IF given = None
         THEN /\ i' = Len(test_set) + 1
              /\ UNCHANGED has_arg
         ELSE /\ has_arg' = given
              /\ UNCHANGED i
  /\ command' = [command EXCEPT !.args = Tail(@)]
  /\ UNCHANGED <<arg_test_vals, tests, errors, points, timeouts, armed>>

Parsed ==
  /\ i = 0
  /\ command.args = <<>>
  /\ i' = 1
  /\ UNCHANGED <<command, has_arg, arg_test_vals, tests, errors, points, timeouts, armed>>

Running == i \in DOMAIN test_set
Count == IF test_set[i].args = 0 THEN 1
         ELSE LET n[k \in 0..test_set[i].args] == IF k = 0 THEN 1 ELSE n[k-1] * Len(arg_test_vals[k])
              IN  n[test_set[i].args]

\* run_tests passes over every function but the one of -f.
Skip ==
  /\ Running
  /\ command.f \notin {AllFunctions, test_set[i].name}
  /\ i' = i + 1
  /\ UNCHANGED <<command, has_arg, arg_test_vals, tests, errors, points, timeouts, armed>>

\* The values are made, then the alarm is set.
test_function ==
  /\ Running
  /\ command.f \in {AllFunctions, test_set[i].name}
  /\ arg_test_vals = None
  /\ LET t == test_set[i]
     IN  arg_test_vals' = [k \in 1..3 |-> IF k <= t.args THEN gen_vals(t.name, TestRange(t.args), k) ELSE None]
  /\ tests' = 0
  /\ armed' = TRUE
  /\ UNCHANGED <<command, has_arg, i, errors, points, timeouts>>

\* The arguments of call number k: the last one varies fastest.
ArgsOf(k) ==
  LET L(a) == Len(arg_test_vals[a])
  IN  CASE test_set[i].args = 0 -> None
        [] test_set[i].args = 1 -> <<arg_test_vals[1][1 + k]>>
        [] test_set[i].args = 2 -> <<arg_test_vals[1][1 + k \div L(2)], arg_test_vals[2][1 + (k % L(2))]>>
        [] OTHER -> <<arg_test_vals[1][1 + k \div (L(2) * L(3))],
                      arg_test_vals[2][1 + ((k \div L(3)) % L(2))], arg_test_vals[3][1 + (k % L(3))]>>

Ended(wrong) ==
  /\ errors' = errors + wrong
  /\ points' = points + (IF wrong = 0 THEN test_set[i].rating ELSE 0)
  /\ i' = i + 1
  /\ arg_test_vals' = None
  /\ tests' = 0

Call ==
  /\ Running
  /\ arg_test_vals # None
  /\ LET a == ArgsOf(tests)
         name == test_set[i].name
     IN  \E r \in Answers(name, a) :
           \/ /\ r = Right(name, a)
              /\ IF tests + 1 < Count
                 THEN /\ tests' = tests + 1
                      /\ UNCHANGED <<i, arg_test_vals, errors, points>>
                 ELSE Ended(0)
           \/ /\ r # Right(name, a)
              /\ Ended(1)
  /\ UNCHANGED <<command, has_arg, timeouts, armed>>

Fires == armed /\ armed' = FALSE /\ timeouts < MaxTimeouts

\* The alarm fires in a call: timeout_handler jumps back into test_function.
Timeout ==
  /\ Running
  /\ arg_test_vals # None
  /\ Fires
  /\ timeouts' = timeouts + 1
  /\ Ended(1)
  /\ UNCHANGED <<command, has_arg>>

\* Nobody cancels the alarm of a puzzle that has ended: it may fire in run_tests
\* or in gen_vals of the next puzzle, and the jump goes to a frame that has
\* returned.  This is undefined.  The next call of test_function has its frame at
\* the same place, so the error may be taken for that of the puzzle at hand, or
\* once more for that of the last one, or the program may end.
LateTimeout ==
  /\ i > 0
  /\ arg_test_vals = None
  /\ Fires
  /\ \/ /\ Running
        /\ command.f \in {AllFunctions, test_set[i].name}
        /\ timeouts' = timeouts + 1
        /\ Ended(1)
     \/ /\ timeouts' = timeouts + 1
        /\ errors' = errors + 1
        /\ UNCHANGED <<i, arg_test_vals, tests, points>>
     \/ /\ i' = Len(test_set) + 1
        /\ UNCHANGED <<arg_test_vals, tests, errors, points, timeouts>>
  /\ UNCHANGED <<command, has_arg>>

Next == Option \/ Parsed \/ Skip \/ test_function \/ Call \/ Timeout \/ LateTimeout

Spec == Init /\ [][Next]_vars
-----------------------------------------------------------------------------
(* No puzzle gives a wrong answer: the only errors are the alarms.          *)
PuzzlesRight == errors = timeouts
=============================================================================
