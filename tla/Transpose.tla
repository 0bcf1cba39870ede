----------------------------- MODULE Transpose -----------------------------
(***************************************************************************)
(* The transpose half of the cache lab: the functions of trans.c, run by   *)
(* tracegen.c one row of a block per step, and judged by test-trans.c with *)
(* the number of misses csim counts for their loads and stores.  The cells *)
(* of A are all different: A[r][c] holds the number r * M + c.             *)
(***************************************************************************)
EXTENDS Integers, SequencesExt

CONSTANT Sizes            \* the pairs <<M, N>> test-trans is started with

VARIABLES
  size,                   \* <<M, N>>: A is N rows of M, B is M rows of N
  fn,                     \* the function of func_list eval_perf is at
  n,                      \* blocks of its loops that are finished, or Idle
  rows,                   \* the rest of the block it is in, row by row
  B,
  cache,                  \* the simulated cache, given the trace so far
  results

vars == <<size, fn, n, rows, B, cache, results>>

M == size[1]
N == size[2]
Idle == -1
INT_MAX == 2147483647

registerFunctions == <<"transpose_submit", "trans">>

\* test-trans.c calls eval_perf(5, 1, 5).  Addresses here have 20 bits.
Sim == INSTANCE CacheSim WITH w <- 20, s <- 5, E <- 1, b <- 5,
                              Addresses <- {}, MaxTrace <- 0,
                              address <- 0, pending <- FALSE, length <- 0

\* static int A[256][256], B[256][256], then the globals around a call: the
\* markers, func_list, N and M, where the linker puts them (see trace.f0).
Address(a) ==
  CASE a.of = "A" -> 4 * (a.row * M + a.col)
    [] a.of = "B" -> 262144 + 4 * (a.row * N + a.col)
    [] OTHER -> 524288 + a.col

Load(of, row, col, v) == [op |-> "L", of |-> of, row |-> row, col |-> col, v |-> v]
Store(row, col, v) == [op |-> "S", of |-> "B", row |-> row, col |-> col, v |-> v]
Global(offset) == [op |-> "-", of |-> "globals", row |-> 0, col |-> offset, v |-> 0]

Before == <<Global(12), Global(32), Global(4), Global(0)>>
After == <<Global(13)>>

\* The loads and stores ops, from B and the cache as they are.
Executed(matrix, c, ops) ==
  LET Step(m, a) ==
        [B |-> IF a.op = "S" THEN [m.B EXCEPT ![a.row][a.col] = m.v[a.v]] ELSE m.B,
         v |-> IF a.op = "L"
               THEN [m.v EXCEPT ![a.v] = IF a.of = "A" THEN a.row * M + a.col ELSE m.B[a.row][a.col]]
               ELSE m.v,
         cache |-> Sim!updateCache(m.cache, Sim!SetOf(Address(a)), Sim!TagOf(Address(a)))]
      after[k \in 0..Len(ops)] ==
        IF k = 0 THEN [B |-> matrix, v |-> [x \in 0..7 |-> 0], cache |-> c]
        ELSE Step(after[k-1], ops[k])
  IN  after[Len(ops)]

-----------------------------------------------------------------------------
(* trans.c.  v_x = A[il][j+x] for the cols numbers x from lo on, and        *)
(* B[j+x+dr][il+dc] = v_x for the same x; Rows does that for rows il.       *)
Loads(il, j, lo, cols) == [k \in 1..cols |-> Load("A", il, j + lo + k - 1, lo + k - 1)]
Stores(il, j, lo, cols, dr, dc) ==
  [k \in 1..cols |-> Store(j + lo + k - 1 + dr, il + dc, lo + k - 1)]

Rows(i, count, j, lo, cols, dr, dc) ==
  [r \in 1..count |-> Loads(i + r - 1, j, lo, cols) \o Stores(i + r - 1, j, lo, cols, dr, dc)]

\* Mutant: the element of the diagonal is stored as soon as it is loaded.
transpose_32by32_Direct(i, j) ==
  LET Cell(il, jl) == <<Load("A", il, jl, 0), Store(jl, il, 0)>>
  IN  [r \in 1..8 |-> FlattenSeq([k \in 1..8 |-> Cell(i + r - 1, j + k - 1)])]
transpose_32by32(i, j) ==
  LET Cell(il, jl) ==
        IF il = jl THEN <<Load("A", il, jl, 1)>> ELSE <<Load("A", il, jl, 0), Store(jl, il, 0)>>
      Row(il) == FlattenSeq([k \in 1..8 |-> Cell(il, j + k - 1)])
                   \o (IF i = j THEN <<Store(il, il, 1)>> ELSE <<>>)
  IN  [r \in 1..8 |-> Row(i + r - 1)]

\* Whether half a block may wait in the next block, and in the one after it.
NextBlock(i, j) == i + 8 < 64 /\ (i + 8 < j \/ i >= j)
SecondBlock(i, j) == i + 16 < 64 /\ (i + 16 < j \/ i + 8 >= j)

\* Mutant: the rows are not moved back up.
PutBack_SameRow(i, top, dr, dc) ==
  LET Cell(il, jl) == <<Load("B", jl, il + dc, 0), Store(jl, il, 0)>>
  IN  [r \in 1..8 |-> FlattenSeq([k \in 1..4 |-> Cell(i + r - 1, top + k - 1)])]
PutBack(i, top, dr, dc) ==
  LET Cell(il, jl) == <<Load("B", jl + dr, il + dc, 0), Store(jl, il, 0)>>
  IN  [r \in 1..8 |-> FlattenSeq([k \in 1..4 |-> Cell(i + r - 1, top + k - 1)])]

transpose_64by64(i, j) ==
  LET Both(il) == Loads(il, j, 0, 8) \o Stores(il, j, 0, 4, 4, 16) \o Stores(il, j, 4, 4, 0, 8)
      Low(from) == Rows(from, 4, j, 4, 4, 0, 0)
      High(from) == Rows(from, 4, j, 0, 4, 0, 0)
      copied ==
        CASE NextBlock(i, j) /\ SecondBlock(i, j) ->
               [r \in 1..8 |-> Both(i + r - 1)]
          [] NextBlock(i, j) /\ ~SecondBlock(i, j) ->
               Rows(i, 8, j, 4, 4, 0, 8) \o High(i) \o High(i + 4)
          [] ~NextBlock(i, j) /\ SecondBlock(i, j) ->
               Rows(i, 8, j, 0, 4, 4, 16) \o Low(i + 4) \o Low(i)
          [] OTHER -> Low(i + 4) \o Low(i) \o High(i + 4) \o High(i)
  IN  copied \o (IF NextBlock(i, j) THEN PutBack(i, j + 4, 0, 8) ELSE <<>>)
             \o (IF SecondBlock(i, j) THEN PutBack(i, j, 4, 16) ELSE <<>>)

\* The last columns and the last rows make smaller blocks.
Smaller(x, y) == IF x < y THEN x ELSE y
transpose_67by61(i, j) == Rows(i, Smaller(8, 67 - i), j, 0, Smaller(8, 61 - j), 0, 0)

trans(i) == <<FlattenSeq([c \in 1..M |-> <<Load("A", i, c - 1, 0), Store(c - 1, i, 0)>>])>>

\* transpose_submit does nothing for any other size.
BlockCount ==
  CASE registerFunctions[fn] = "trans" -> N
    [] size = <<32, 32>> -> 16
    [] size = <<64, 64>> -> 64
    [] size = <<61, 67>> -> 72
    [] OTHER -> 0

\* The corner and the accesses of block k: 64by64 goes down the columns of A.
Corner(k) ==
  CASE registerFunctions[fn] = "trans" -> <<k, 0>>
    [] size = <<32, 32>> -> <<8 * (k \div 4), 8 * (k % 4)>>
    [] size = <<64, 64>> -> <<8 * (k % 8), 8 * (k \div 8)>>
    [] size = <<61, 67>> -> <<8 * (k \div 8), 8 * (k % 8)>>

transpose_submit(i, j) ==
  CASE registerFunctions[fn] = "trans" -> trans(i)
    [] size = <<32, 32>> -> transpose_32by32(i, j)
    [] size = <<64, 64>> -> transpose_64by64(i, j)
    [] size = <<61, 67>> -> transpose_67by61(i, j)

-----------------------------------------------------------------------------
(* tracegen.c and test-trans.c *)
Random == -1
initMatrix == [r \in 0..M-1 |-> [c \in 0..N-1 |-> Random]]

Init ==
  /\ size \in Sizes
  /\ fn = 1
  /\ n = Idle
  /\ rows = <<>>
  /\ B = <<>>
  /\ cache = <<>>
  /\ results = [funcid |-> -1, correct |-> 0, misses |-> INT_MAX]

\* eval_perf starts tracegen, a new process, for the function.
Generate ==
  /\ n = Idle
  /\ fn <= Len(registerFunctions)
  /\ LET m == Executed(initMatrix, Sim!initCache(32, 1), Before)
     IN  B' = m.B /\ cache' = m.cache
  /\ n' = 0
  /\ results' = IF registerFunctions[fn] = "transpose_submit" THEN [results EXCEPT !.funcid = fn] ELSE results
  /\ UNCHANGED <<size, fn, rows>>

Row ==
  /\ n # Idle
  /\ n < BlockCount
  /\ LET left == IF rows = <<>> THEN transpose_submit(Corner(n)[1], Corner(n)[2]) ELSE rows
         m == Executed(B, cache, Head(left))
     IN  /\ B' = m.B
         /\ cache' = m.cache
         /\ rows' = Tail(left)
         /\ n' = IF Len(left) = 1 THEN n + 1 ELSE n
  /\ UNCHANGED <<size, fn, results>>

validate == \A r \in 0..M-1 : \A c \in 0..N-1 : B[r][c] = c * M + r

\* When the function is wrong, eval_perf goes on with the next one.
Validate ==
  /\ n # Idle
  /\ n = BlockCount
  /\ n' = Idle
  /\ fn' = fn + 1
  /\ results' = IF validate /\ results.funcid = fn
                THEN [results EXCEPT !.correct = 1, !.misses = Executed(B, cache, After).cache.num_miss]
                ELSE results
  /\ B' = <<>>
  /\ cache' = <<>>
  /\ UNCHANGED <<size, rows>>

Next == Generate \/ Row \/ Validate

Spec == Init /\ [][Next]_vars
-----------------------------------------------------------------------------
(* The cells of the blocks of A that are finished are in their place in B,  *)
(* and stay there: the cells in which a later block of transpose_64by64     *)
(* waits are not among them, and at the end every cell has been moved.      *)
LastOf(k) ==
  IF registerFunctions[fn] = "trans" THEN <<k, M - 1>>
  ELSE <<Smaller(Corner(k)[1] + 7, N - 1), Smaller(Corner(k)[2] + 7, M - 1)>>

TransposeRight ==
  /\ n # Idle => \A k \in 0..n-1 : \A il \in Corner(k)[1]..LastOf(k)[1], jl \in Corner(k)[2]..LastOf(k)[2] :
                   B[jl][il] = il * M + jl
  /\ n # Idle /\ BlockCount > 0 /\ n = BlockCount => validate

\* The submission is within the number of misses for which driver.py gives the
\* full score, on each of the three sizes it tries.
Goal == [x \in {<<32, 32>>, <<64, 64>>, <<61, 67>>} |->
          IF x[1] = 32 THEN 300 ELSE IF x[1] = 64 THEN 1300 ELSE 2000]

MissesWithinGoal ==
  size \in DOMAIN Goal =>
    /\ fn = 1 /\ n # Idle => cache.num_miss <= Goal[size]
    /\ fn > 1 => results.correct = 1 /\ results.misses <= Goal[size]
=============================================================================
