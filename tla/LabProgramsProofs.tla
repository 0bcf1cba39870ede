------------------------- MODULE LabProgramsProofs --------------------------
(***************************************************************************)
(* The console, for every script, size of the buffer and limit of errors:  *)
(* what is interpreted is the script in its order, and the exit status is  *)
(* honest.  After it the RIO package of csapp.c, which implements the      *)
(* stream of LineStream for all messages, sizes of the buffers, line       *)
(* lengths and blocks; the simulator of the cache lab, which implements    *)
(* LruCache for every geometry, width of addresses and trace; and the tiny *)
(* server, for every number of headers and addresses: nothing of one       *)
(* request is left for the next.                                           *)
(***************************************************************************)
EXTENDS LabPrograms, SequencesExt, SequenceTheorems, RecursionFacts

\* The operators of the standard modules, under their names in the instance.
LEMMA SameOperators ==
  /\ \A ss : Console!FlattenSeq(ss) = FlattenSeq(ss)
  /\ \A seq : Console!ToSet(seq) = ToSet(seq)
  /\ \A a, b : Console!IsPrefix(a, b) = IsPrefix(a, b)
  /\ \A S : Console!Max(S) = Max(S)
<1>1. \A ss : Console!FlattenSeq(ss) = FlattenSeq(ss)
  BY DEF Console!FlattenSeq, FlattenSeq
<1>2. \A seq : Console!ToSet(seq) = ToSet(seq)
  BY DEF Console!ToSet, ToSet
<1>3. \A a, b : Console!IsPrefix(a, b) = IsPrefix(a, b)
  BY DEF Console!IsPrefix, IsPrefix
<1>4. \A S : Console!Max(S) = Max(S)
  BY DEF Console!Max, Max
<1> QED
  BY <1>1, <1>2, <1>3, <1>4

-----------------------------------------------------------------------------
(* Sequences of sequences.                                                 *)

\* g flattens the beginnings of ss, of one sequence and more.
Flattens(g, ss, n) == g = [i \in 1..n |-> IF i = 1 THEN ss[i] ELSE g[i-1] \o ss[i]]

\* Every sequence of sequences can be flattened.
LEMMA FlattenExists ==
  ASSUME NEW ss, NEW n \in Nat
  PROVE  \E g : Flattens(g, ss, n)
<1> DEFINE T == {m \in Nat : \E g : Flattens(g, ss, m)}
<1>1. 0 \in T
  <2>1. Flattens(<<>>, ss, 0)
    BY DEF Flattens
  <2> QED
    BY <2>1
<1>2. ASSUME NEW m \in Nat, m \in T
      PROVE  m + 1 \in T
  <2>1. PICK g : Flattens(g, ss, m)
    BY <1>2
  <2> DEFINE h == [i \in 1..m+1 |-> IF i <= m THEN g[i]
                                    ELSE IF i = 1 THEN ss[i] ELSE g[i-1] \o ss[i]]
  <2>2. \A i \in 1..m : g[i] = IF i = 1 THEN ss[i] ELSE g[i-1] \o ss[i]
    BY <2>1 DEF Flattens
  <2>3. \A i \in 1..m : h[i] = g[i]
    OBVIOUS
  <2>4. h[m+1] = IF m + 1 = 1 THEN ss[m+1] ELSE g[m] \o ss[m+1]
    OBVIOUS
  <2>5. h = [i \in 1..m+1 |-> h[i]]
    OBVIOUS
  <2> HIDE DEF h
  <2>6. ASSUME NEW i \in 1..m+1
        PROVE  h[i] = IF i = 1 THEN ss[i] ELSE h[i-1] \o ss[i]
    <3>1. CASE i = m + 1
      <4>1. CASE m = 0
        BY <2>4, <3>1, <4>1
      <4>2. CASE m # 0
        <5>1. m \in 1..m /\ i - 1 = m /\ i # 1
          BY <3>1, <4>2
        <5> QED
          BY <2>3, <2>4, <3>1, <5>1
      <4> QED
        BY <4>1, <4>2
    <3>2. CASE i # m + 1
      <4>1. i \in 1..m /\ (i # 1 => i - 1 \in 1..m)
        BY <3>2
      <4> QED
        BY <2>2, <2>3, <4>1
    <3> QED
      BY <3>1, <3>2
  <2>7. h = [i \in 1..m+1 |-> IF i = 1 THEN ss[i] ELSE h[i-1] \o ss[i]]
    BY <2>5, <2>6
  <2>8. Flattens(h, ss, m + 1)
    BY <2>7 DEF Flattens
  <2> QED
    BY <2>8
<1> HIDE DEF T
<1>3. n \in T
  BY <1>1, <1>2, AllNumbers
<1> QED
  BY <1>3 DEF T

\* What FlattenSeq chooses.
LEMMA FlattenIs ==
  ASSUME NEW S, NEW ss \in Seq(Seq(S))
  PROVE  \E g : /\ \A i \in 1..Len(ss) : /\ g[i] = IF i = 1 THEN ss[i] ELSE g[i-1] \o ss[i]
                                         /\ g[i] \in Seq(S)
                /\ FlattenSeq(ss) = IF ss = <<>> THEN <<>> ELSE g[Len(ss)]
<1> DEFINE n == Len(ss)
           Is(g) == g = [i \in 1..n |-> IF i = 1 THEN ss[i] ELSE g[i-1] \o ss[i]]
           g == CHOOSE h : Is(h)
<1>1. n \in Nat /\ \A i \in 1..n : ss[i] \in Seq(S)
  OBVIOUS
<1>2. \E h : Is(h)
  BY <1>1, FlattenExists DEF Flattens
<1>3. FlattenSeq(ss) = IF n = 0 THEN ss ELSE g[n]
  BY DEF FlattenSeq
<1>4. n = 0 <=> ss = <<>>
  BY EmptySeq
<1> HIDE DEF Is
<1>5. Is(g)
  BY <1>2
<1> HIDE DEF g
<1>6. \A i \in 1..n : g[i] = IF i = 1 THEN ss[i] ELSE g[i-1] \o ss[i]
  BY <1>5 DEF Is
<1> DEFINE T == {m \in Nat : m \in 1..n => g[m] \in Seq(S)}
<1> HIDE DEF n
<1>7. 0 \in T
  BY <1>1
<1>8. ASSUME NEW m \in Nat, m \in T
      PROVE  m + 1 \in T
  <2> SUFFICES ASSUME m + 1 \in 1..n PROVE g[m + 1] \in Seq(S)
    OBVIOUS
  <2>1. CASE m = 0
    BY <1>1, <1>6, <2>1
  <2>2. CASE m # 0
    <3>1. m \in 1..n /\ (m + 1) - 1 = m /\ m + 1 # 1
      BY <1>1, <2>2
    <3>2. g[m] \in Seq(S) /\ ss[m+1] \in Seq(S) /\ g[m+1] = g[m] \o ss[m+1]
      BY <1>1, <1>6, <1>8, <3>1
    <3> QED
      BY <3>2, ConcatProperties
  <2> QED
    BY <2>1, <2>2
<1> HIDE DEF T
<1>9. \A m \in Nat : m \in T
  BY <1>7, <1>8, AllNumbers
<1>10. \A i \in 1..n : g[i] \in Seq(S)
  BY <1>1, <1>9 DEF T
<1>11. FlattenSeq(ss) = IF ss = <<>> THEN <<>> ELSE g[n]
  BY <1>3, <1>4
<1> QED
  BY <1>6, <1>10, <1>11 DEF n

\* The pieces of a flattened sequence are of its type.
LEMMA FlattenType ==
  ASSUME NEW S, NEW ss \in Seq(Seq(S))
  PROVE  FlattenSeq(ss) \in Seq(S) /\ FlattenSeq(<<>>) = <<>>
<1>1. PICK g : /\ \A i \in 1..Len(ss) : g[i] \in Seq(S)
               /\ FlattenSeq(ss) = IF ss = <<>> THEN <<>> ELSE g[Len(ss)]
  BY FlattenIs
<1>2. ss # <<>> => Len(ss) \in 1..Len(ss)
  BY EmptySeq
<1>3. <<>> \in Seq(S)
  OBVIOUS
<1>4. FlattenSeq(<<>>) = <<>>
  BY DEF FlattenSeq
<1> QED
  BY <1>1, <1>2, <1>3, <1>4

\* Concatenation is associative; the equation has a name.
Regrouped(a, u, v) == (a \o u) \o v = a \o (u \o v)

\* Concatenation of sequences is.
LEMMA Associative ==
  ASSUME NEW S, NEW a \in Seq(S), NEW u \in Seq(S), NEW v \in Seq(S)
  PROVE  Regrouped(a, u, v)
BY ConcatAssociative DEF Regrouped

\* The first piece comes first.
LEMMA FlattenCons ==
  ASSUME NEW S, NEW a \in Seq(S), NEW ss \in Seq(Seq(S))
  PROVE  FlattenSeq(<<a>> \o ss) = a \o FlattenSeq(ss)
<1> DEFINE n == Len(ss)
           ts == <<a>> \o ss
<1>1. <<a>> \in Seq(Seq(S)) /\ Len(<<a>>) = 1 /\ <<a>>[1] = a /\ n \in Nat
  OBVIOUS
<1>2. /\ ts \in Seq(Seq(S)) /\ Len(ts) = n + 1 /\ ts[1] = a /\ ts # <<>>
      /\ \A i \in 1..n : ts[i + 1] = ss[i]
  <2>1. ts \in Seq(Seq(S)) /\ Len(ts) = 1 + n
        /\ \A i \in 1..1+n : ts[i] = IF i <= 1 THEN <<a>>[i] ELSE ss[i - 1]
    BY <1>1, ConcatProperties
  <2> HIDE DEF ts
  <2>2. Len(ts) = n + 1 /\ ts[1] = a /\ \A i \in 1..n : ts[i + 1] = ss[i]
    BY <1>1, <2>1
  <2>3. ts # <<>>
    BY <1>1, <2>1, EmptySeq
  <2> QED
    BY <2>1, <2>2, <2>3
<1>3. PICK g : /\ \A i \in 1..n : /\ g[i] = IF i = 1 THEN ss[i] ELSE g[i-1] \o ss[i]
                                  /\ g[i] \in Seq(S)
               /\ FlattenSeq(ss) = IF ss = <<>> THEN <<>> ELSE g[n]
  BY FlattenIs
<1> HIDE DEF ts
<1>4. PICK h : /\ \A i \in 1..n+1 : /\ h[i] = IF i = 1 THEN ts[i] ELSE h[i-1] \o ts[i]
                                    /\ h[i] \in Seq(S)
               /\ FlattenSeq(ts) = h[n + 1]
  <2>1. \E h : /\ \A i \in 1..Len(ts) : /\ h[i] = IF i = 1 THEN ts[i] ELSE h[i-1] \o ts[i]
                                        /\ h[i] \in Seq(S)
               /\ FlattenSeq(ts) = IF ts = <<>> THEN <<>> ELSE h[Len(ts)]
    BY <1>2, FlattenIs
  <2> HIDE DEF n
  <2> QED
    BY <1>2, <2>1
<1> DEFINE T == {m \in Nat : m \in 1..n => h[m + 1] = a \o g[m]}
<1>5. \A i \in 1..n : ss[i] \in Seq(S)
  OBVIOUS
<1> HIDE DEF n
<1>6. h[1] = a
  BY <1>1, <1>2, <1>4
<1>7. 0 \in T
  BY <1>1
<1>8. ASSUME NEW m \in Nat, m \in T
      PROVE  m + 1 \in T
  <2> SUFFICES ASSUME m + 1 \in 1..n PROVE h[(m + 1) + 1] = a \o g[m + 1]
    OBVIOUS
  <2>1. h[(m + 1) + 1] = h[m + 1] \o ss[m + 1]
    <3>1. (m + 1) + 1 \in 1..n+1 /\ (m + 1) + 1 # 1 /\ ((m + 1) + 1) - 1 = m + 1
      BY <1>1
    <3>2. ts[(m + 1) + 1] = ss[m + 1]
      BY <1>2
    <3> QED
      BY <1>4, <3>1, <3>2
  <2>2. CASE m = 0
    <3>1. 1 \in 1..n /\ m + 1 = 1
      BY <2>2
    <3>2. g[1] = ss[1]
      BY <1>3, <3>1
    <3> QED
      BY <1>6, <2>1, <3>1, <3>2
  <2>3. CASE m # 0
    <3>1. m \in 1..n /\ m + 1 # 1 /\ (m + 1) - 1 = m
      BY <1>1, <2>3
    <3>2. h[m + 1] = a \o g[m] /\ g[m + 1] = g[m] \o ss[m + 1] /\ g[m] \in Seq(S)
      BY <1>3, <1>8, <3>1
    <3>3. (a \o g[m]) \o ss[m + 1] = a \o (g[m] \o ss[m + 1])
      <4> DEFINE u == g[m]
                 v == ss[m + 1]
      <4>1. u \in Seq(S) /\ v \in Seq(S)
        BY <1>5, <3>2
      <4> HIDE DEF u, v
      <4>2. Regrouped(a, u, v)
        BY <4>1, Associative, Zenon
      <4> QED
        BY <4>2 DEF Regrouped, u, v
    <3> QED
      BY <2>1, <3>2, <3>3
  <2> QED
    BY <2>2, <2>3
<1> HIDE DEF T
<1>9. n \in T
  BY <1>1, <1>7, <1>8, AllNumbers
<1>10. CASE n = 0
  <2>1. ss = <<>>
    BY <1>10, EmptySeq DEF n
  <2>2. FlattenSeq(ss) = <<>>
    BY <2>1, <1>3
  <2>3. FlattenSeq(ts) = a
    BY <1>4, <1>6, <1>10
  <2>4. a \o <<>> = a
    BY ConcatEmptySeq
  <2> QED
    BY <2>2, <2>3, <2>4 DEF ts
<1>11. CASE n # 0
  <2>1. ss # <<>> /\ n \in 1..n
    BY <1>1, <1>11, EmptySeq DEF n
  <2> QED
    BY <1>3, <1>4, <1>9, <2>1 DEF T, ts
<1> QED
  BY <1>10, <1>11

-----------------------------------------------------------------------------
(* The console: what its state is.                                         *)
CONSTANT Characters       \* words, blanks and newlines

Text == Seq(Characters)

Frames == [rest : Text, buf : Text]

Consoles == [buf_stack : Seq(Frames), err_cnt : Nat, err_limit : Int,
             quit_flag : BOOLEAN, helped : Seq(BOOLEAN)]

\* What argv sources in the files of f, if anything.
SourcesIn(f, argv) == Len(argv) > 1 /\ argv[1] = "source" /\ argv[2] \in DOMAIN f

\* The state is of its types.
TypeInv ==
  /\ files \in Scripts
  /\ console \in Consoles
  /\ failures \in Nat
  /\ interpreted \in Seq(Text)
  /\ torn \in BOOLEAN

\* The files of a script are texts, and the one given with -f is there.
Typed ==
  /\ DefaultLimit \in Int
  /\ \A f \in Scripts : /\ Main \in DOMAIN f
                        /\ \A name \in DOMAIN f : f[name] \in Text

\* Every failure was counted, and a console stops because of one or because of
\* a quit that freed the queue; 0 is returned only after the latter.
StatusInv ==
  /\ status \in {Console!Running, 0, 1}
  /\ failures > 0 => console.err_cnt > 0
  /\ console.helped \in {<<>>, <<TRUE>>, <<FALSE>>}
  /\ console.helped # <<>> => console.quit_flag
  /\ status = Console!Running /\ console.quit_flag => console.err_cnt > 0 \/ console.helped = <<TRUE>>
  /\ status = 0 => console.err_cnt = 0 /\ console.helped = <<TRUE>>

\* A set of numbers that is not empty has a least one.
LEMMA Least ==
  ASSUME NEW T \in SUBSET Nat, T # {}
  PROVE  \E n \in T : \A m \in T : n <= m
<1> DEFINE U == {k \in Nat : \A m \in T : k <= m}
<1>1. SUFFICES ASSUME ~ \E n \in T : \A m \in T : n <= m
               PROVE  FALSE
  OBVIOUS
<1>2. 0 \in U
  OBVIOUS
<1>3. ASSUME NEW k \in Nat, k \in U
      PROVE  k + 1 \in U
  <2>1. k \notin T
    BY <1>1, <1>3
  <2>2. \A m \in T : k <= m /\ k # m /\ m \in Nat
    BY <1>3, <2>1
  <2> QED
    BY <2>2
<1>4. PICK x \in T : TRUE
  OBVIOUS
<1> HIDE DEF U
<1>5. x + 1 \in U
  BY <1>2, <1>3, AllNumbers
<1> QED
  BY <1>4, <1>5 DEF U

\* Numbers that are bounded have a greatest one.
LEMMA Greatest ==
  ASSUME NEW n \in Nat, NEW T \in SUBSET (1..n), T # {}
  PROVE  Max(T) \in T
<1> DEFINE U == {n - k : k \in T}
<1>1. U \in SUBSET Nat /\ U # {}
  <2>1. \A k \in T : n - k \in Nat
    OBVIOUS
  <2>2. U \subseteq Nat
    BY <2>1
  <2>3. PICK k \in T : TRUE
    OBVIOUS
  <2>4. n - k \in U
    BY <2>3
  <2> QED
    BY <2>2, <2>4
<1>2. PICK u \in U : \A m \in U : u <= m
  <2> HIDE DEF U
  <2> QED
    BY <1>1, Least
<1>3. PICK k \in T : u = n - k
  BY <1>2
<1>4. \A j \in T : k >= j
  <2> SUFFICES ASSUME NEW j \in T PROVE k >= j
    OBVIOUS
  <2>1. n - j \in U
    OBVIOUS
  <2> HIDE DEF U
  <2>2. n - k <= n - j /\ j \in Int /\ k \in Int
    BY <1>2, <1>3, <2>1
  <2> QED
    BY <2>2
<1>5. \E x \in T : \A y \in T : x >= y
  BY <1>3, <1>4
<1> QED
  BY <1>5, Zenon DEF Max

\* Sequences of one element.
LEMMA One ==
  ASSUME NEW S, NEW a \in S
  PROVE  <<a>> \in Seq(S) /\ Len(<<a>>) = 1 /\ <<a>>[1] = a
OBVIOUS

\* The words before the command, and the command.
LEMMA Words ==
  ASSUME NEW argv \in Text
  PROVE  /\ Console!Times(argv) \in 0..Len(argv)
         /\ Console!Command(argv) \in Text
<1> DEFINE P(n) == (\A k \in 1..n : argv[k] = "time") /\ (n < Len(argv) => argv[n + 1] # "time")
           T == {n \in Nat : n = Len(argv) \/ (n < Len(argv) /\ argv[n + 1] # "time")}
<1>1. Len(argv) \in Nat
  OBVIOUS
<1>2. Len(argv) \in T /\ T \in SUBSET Nat
  BY <1>1
<1>3. PICK n \in T : \A m \in T : n <= m
  BY <1>2, Least
<1>4. n \in 0..Len(argv)
  BY <1>1, <1>3
<1>5. \A k \in 1..n : argv[k] = "time"
  <2> TAKE k \in 1..n
  <2>1. k - 1 \in Nat /\ k - 1 < Len(argv) /\ (k - 1) + 1 = k /\ ~(n <= k - 1)
    BY <1>1, <1>4
  <2>2. k - 1 \notin T
    BY <1>3, <2>1
  <2> QED
    BY <2>1, <2>2
<1>6. P(n)
  BY <1>3, <1>4, <1>5
<1>7. Console!Times(argv) = CHOOSE m \in 0..Len(argv) : P(m)
  BY DEF Console!Times
<1> HIDE DEF P
<1>8. Console!Times(argv) \in 0..Len(argv)
  BY <1>4, <1>6, <1>7
<1>9. Console!Command(argv) \in Text
  <2>1. Console!Command(argv) = SubSeq(argv, Console!Times(argv) + 1, Len(argv))
    BY DEF Console!Command
  <2> DEFINE t == Console!Times(argv)
  <2> HIDE DEF t
  <2>2. SubSeq(argv, t + 1, Len(argv)) \in Seq(Characters)
    <3>1. t \in Nat /\ argv \in Seq(Characters)
      BY <1>1, <1>8 DEF t, Text
    <3> QED
      BY <1>1, <3>1
  <2> QED
    BY <2>1, <2>2 DEF t, Text
<1> QED
  BY <1>8, <1>9

\* The words of a line are words.
LEMMA Arguments ==
  ASSUME NEW line \in Text
  PROVE  Console!parse_args(line) \in Text
<1> DEFINE parts == [k \in DOMAIN line |-> IF line[k] = Console!Blank THEN <<>> ELSE <<line[k]>>]
<1>1. \A k \in DOMAIN line : parts[k] \in Seq(Characters)
  BY DEF Text
<1>2. DOMAIN parts = 1..Len(line) /\ Len(line) \in Nat
  BY DEF Text
<1>3. parts \in Seq(Seq(Characters))
  BY <1>1, <1>2, IsASeq
<1> HIDE DEF parts
<1>4. FlattenSeq(parts) \in Seq(Characters)
  BY <1>3, FlattenType
<1> QED
  BY <1>4, SameOperators DEF Console!parse_args, Text, parts

\* What a command does to the console.
LEMMA Operates ==
  ASSUME Typed, files \in Scripts, NEW con \in Consoles, NEW argv \in Text, argv # <<>>,
         NEW r \in Console!Operation(con, argv)
  PROVE  /\ r.con \in Consoles /\ r.ok \in BOOLEAN
         /\ r.con.err_cnt = con.err_cnt
         /\ \/ /\ r.con.quit_flag
               /\ r.con.helped = Append(con.helped, r.ok)
            \/ /\ r.con.quit_flag = con.quit_flag
               /\ r.con.helped = con.helped
               /\ r.con.buf_stack = IF SourcesIn(files, argv)
                                    THEN <<Console!Opened(argv[2])>> \o con.buf_stack
                                    ELSE con.buf_stack
               /\ SourcesIn(files, argv) => r.ok
<1>1. CASE argv[1] = "quit"
  <2>1. PICK ok \in BOOLEAN :
          r = Console!Outcome([con EXCEPT !.buf_stack = <<>>, !.quit_flag = TRUE, !.helped = Append(@, ok)], ok)
    BY <1>1 DEF Console!Operation, Console!do_quit_cmd
  <2>2. Append(con.helped, ok) \in Seq(BOOLEAN) /\ <<>> \in Seq(Frames)
    BY DEF Consoles
  <2> QED
    BY <2>1, <2>2 DEF Console!Outcome, Consoles
<1>2. CASE argv[1] = "source"
  <2>1. r = Console!do_source_cmd(con, argv)
    BY <1>2 DEF Console!Operation
  <2>2. CASE SourcesIn(files, argv)
    <3>1. r = Console!Outcome(Console!push_file(con, argv[2]), TRUE)
      BY <2>1, <2>2 DEF Console!do_source_cmd, SourcesIn
    <3>2. Console!Opened(argv[2]) \in Frames
      <4>1. files[argv[2]] \in Text /\ <<>> \in Text
        BY <2>2 DEF SourcesIn, Typed, Text
      <4> QED
        BY <4>1 DEF Console!Opened, Frames
    <3>3. <<Console!Opened(argv[2])>> \o con.buf_stack \in Seq(Frames)
      <4>1. con.buf_stack \in Seq(Frames)
        BY DEF Consoles
      <4> QED
        BY <3>2, <4>1, One, ConcatProperties
    <3> QED
      BY <2>2, <3>1, <3>3 DEF Console!Outcome, Console!push_file, Consoles
  <2>3. CASE ~SourcesIn(files, argv)
    <3>1. r = Console!Outcome(con, FALSE)
      BY <1>2, <2>1, <2>3 DEF Console!do_source_cmd, SourcesIn
    <3> QED
      BY <2>3, <3>1 DEF Console!Outcome
  <2> QED
    BY <2>2, <2>3
<1>3. CASE argv[1] = "option"
  <2>1. r = Console!do_option_cmd(con, argv) /\ ~SourcesIn(files, argv)
    BY <1>3 DEF Console!Operation, SourcesIn
  <2> DEFINE pairs == 1..(Len(argv) \div 2)
             good(k) == /\ argv[2*k] \in Console!Parameters
                        /\ 2*k + 1 <= Len(argv) /\ argv[2*k + 1] \in DOMAIN Console!get_int
             obeyed == {k \in pairs : \A h \in 1..k : good(h)}
             limits == {k \in obeyed : argv[2*k] = "error"}
             ok == obeyed = pairs
             limit == Console!get_int[argv[2 * Max(limits) + 1]]
  <2>2. \/ r = Console!Outcome(con, ok)
        \/ limit \in Int /\ r = Console!Outcome([con EXCEPT !.err_limit = limit], ok)
    <3>1. \A w \in DOMAIN Console!get_int : Console!get_int[w] \in Int
      BY DEF Console!get_int
    <3>2. r = Console!Outcome(IF limits = {} THEN con ELSE [con EXCEPT !.err_limit = limit], ok)
      BY <2>1, SameOperators DEF Console!do_option_cmd
    <3>3. CASE limits = {}
      BY <3>2, <3>3
    <3>4. CASE limits # {}
      <4>1. Max(limits) \in limits
        <5>1. Len(argv) \div 2 \in Nat
          <6>1. Len(argv) \in Nat
            BY DEF Text
          <6> QED
            BY <6>1
        <5>2. limits \in SUBSET pairs
          OBVIOUS
        <5> HIDE DEF limits
        <5> QED
          BY <3>4, <5>1, <5>2, Greatest
      <4>2. good(Max(limits))
        <5>1. \A k \in limits : k \in Nat /\ k >= 1 /\ \A h \in 1..k : good(h)
          OBVIOUS
        <5> HIDE DEF limits, good
        <5> QED
          BY <4>1, <5>1
      <4>3. limit \in Int
        BY <3>1, <4>2
      <4> HIDE DEF limits, limit, ok
      <4> QED
        BY <3>2, <3>4, <4>3
    <3> QED
      BY <3>3, <3>4
  <2>5. ok \in BOOLEAN
    OBVIOUS
  <2> HIDE DEF ok, limit
  <2>3. CASE r = Console!Outcome(con, ok)
    BY <2>1, <2>3, <2>5 DEF Console!Outcome
  <2>4. CASE limit \in Int /\ r = Console!Outcome([con EXCEPT !.err_limit = limit], ok)
    <3> DEFINE d == [con EXCEPT !.err_limit = limit]
    <3>2. r.con = d /\ r.ok = ok
      BY <2>4 DEF Console!Outcome
    <3>3. /\ d \in Consoles /\ d.err_cnt = con.err_cnt /\ d.quit_flag = con.quit_flag
          /\ d.helped = con.helped /\ d.buf_stack = con.buf_stack
      BY <2>4 DEF Consoles
    <3> HIDE DEF d
    <3>4. r.ok \in BOOLEAN
      BY <2>5, <3>2, Zenon
    <3> QED
      BY <2>1, <3>2, <3>3, <3>4, Zenon
  <2> QED
    BY <2>2, <2>3, <2>4
<1>4. CASE argv[1] \notin {"quit", "source", "option"}
  <2>1. \E ok \in BOOLEAN : r = Console!Outcome(con, ok)
    BY <1>4 DEF Console!Operation
  <2> QED
    BY <1>4, <2>1 DEF Console!Outcome, SourcesIn
<1> QED
  BY <1>1, <1>2, <1>3, <1>4

\* What a line does to the console.
LEMMA Interprets ==
  ASSUME Typed, files \in Scripts, NEW con \in Consoles, NEW argv \in Text,
         NEW o \in Console!interpret_cmda(con, argv)
  PROVE  /\ o.con \in Consoles /\ o.ok \in BOOLEAN
         /\ o.con.err_cnt >= con.err_cnt
         /\ ~o.ok => o.con.err_cnt > 0
         /\ \/ /\ o.con.quit_flag
               /\ o.con.helped = Append(con.helped, o.ok)
            \/ /\ o.con.quit_flag => con.quit_flag \/ o.con.err_cnt > 0
               /\ con.quit_flag => o.con.quit_flag
               /\ o.con.helped = con.helped
               /\ o.con.buf_stack = IF SourcesIn(files, Console!Command(argv))
                                    THEN <<Console!Opened(Console!Command(argv)[2])>> \o con.buf_stack
                                    ELSE con.buf_stack
<1>1. Console!Times(argv) \in Nat /\ Console!Command(argv) \in Text
  BY Words DEF Text
<1>2. CASE Console!Command(argv) = <<>>
  <2>1. o = Console!Outcome(con, TRUE)
    BY <1>2 DEF Console!interpret_cmda
  <2>2. Len(Console!Command(argv)) = 0
    BY <1>2
  <2>3. ~SourcesIn(files, Console!Command(argv))
    BY <2>2 DEF SourcesIn
  <2> QED
    <3>1. o.con = con /\ o.ok = TRUE
      BY <2>1 DEF Console!Outcome
    <3>2. con.err_cnt >= con.err_cnt
      BY DEF Consoles
    <3>3. o.ok \in BOOLEAN /\ (~o.ok => o.con.err_cnt > 0)
      BY <3>1
    <3>4. o.con.buf_stack = IF SourcesIn(files, Console!Command(argv))
                            THEN <<Console!Opened(Console!Command(argv)[2])>> \o con.buf_stack
                            ELSE con.buf_stack
      BY <2>3, <3>1
    <3> QED
      BY <3>1, <3>2, <3>3, <3>4, Zenon
<1>3. CASE Console!Command(argv) # <<>>
  <2>1. PICK r \in Console!Operation(con, Console!Command(argv)) :
          o = IF r.ok THEN r ELSE Console!Outcome(Console!record_error(r.con, Console!Times(argv) + 1), FALSE)
    BY <1>3 DEF Console!interpret_cmda
  <2> DEFINE argc == Console!Command(argv)
             t == Console!Times(argv)
  <2> HIDE DEF argc, t
  <2>2. t \in Nat /\ argc \in Text /\ argc # <<>> /\ r \in Console!Operation(con, argc)
    BY <1>1, <1>3, <2>1 DEF argc, t
  <2>3. /\ r.con \in Consoles /\ r.ok \in BOOLEAN
        /\ r.con.err_cnt = con.err_cnt
        /\ \/ /\ r.con.quit_flag
              /\ r.con.helped = Append(con.helped, r.ok)
           \/ /\ r.con.quit_flag = con.quit_flag
              /\ r.con.helped = con.helped
              /\ r.con.buf_stack = IF SourcesIn(files, argc)
                                   THEN <<Console!Opened(argc[2])>> \o con.buf_stack
                                   ELSE con.buf_stack
              /\ SourcesIn(files, argc) => r.ok
    BY <2>2, Operates
  <2>4. CASE r.ok
    <3>1. o = r
      BY <2>1, <2>4
    <3>2. con.err_cnt \in Nat /\ con.err_cnt >= con.err_cnt
      BY DEF Consoles
    <3> QED
      BY <2>3, <2>4, <3>1, <3>2, Zenon DEF argc
  <2>5. CASE ~r.ok
    <3> DEFINE d == r.con
               e == Console!record_error(d, t + 1)
    <3>1. o.con = e /\ o.ok = FALSE
      BY <2>1, <2>5 DEF Console!Outcome, t
    <3>2. d \in Consoles /\ d.err_cnt \in Nat /\ d.err_limit \in Int
      BY <2>3 DEF Consoles
    <3> HIDE DEF d
    <3>3. /\ e \in Consoles /\ e.err_cnt = d.err_cnt + (t + 1) /\ e.helped = d.helped
          /\ e.buf_stack = d.buf_stack
          /\ d.quit_flag => e.quit_flag
      <4> DEFINE q == d.quit_flag \/ d.err_cnt + (t + 1) >= d.err_limit
      <4>1. q \in BOOLEAN /\ (d.quit_flag => q)
        OBVIOUS
      <4>2. e = [d EXCEPT !.err_cnt = d.err_cnt + (t + 1), !.quit_flag = q]
        BY DEF Console!record_error
      <4>3. d.err_cnt + (t + 1) \in Nat
        BY <2>2, <3>2
      <4> HIDE DEF q, e
      <4> QED
        BY <3>2, <4>1, <4>2, <4>3 DEF Consoles
    <3>4. e.err_cnt > 0 /\ e.err_cnt >= d.err_cnt
      BY <2>2, <3>2, <3>3
    <3> HIDE DEF e
    <3> QED
      BY <2>3, <2>5, <3>1, <3>3, <3>4 DEF argc, d
  <2> QED
    BY <2>3, <2>4, <2>5
<1> QED
  BY <1>2, <1>3

-----------------------------------------------------------------------------
(* Lines. *)

\* The end of the first line is the least of the places where it may end.
LEMMA CutIs ==
  ASSUME NEW text \in Text, text # <<>>
  PROVE  /\ Console!Cut(text) \in 1..Len(text)
         /\ Console!Cut(text) = Len(text) \/ Console!Cut(text) = Console!LineLimit \/ text[Console!Cut(text)] = Console!Newline
         /\ \A j \in 1..Console!Cut(text)-1 : j # Console!LineLimit /\ text[j] # Console!Newline
<1> DEFINE P(k) == /\ k = Len(text) \/ k = Console!LineLimit \/ text[k] = Console!Newline
                   /\ \A j \in 1..k-1 : j # Console!LineLimit /\ text[j] # Console!Newline
           T == {k \in 1..Len(text) : k = Len(text) \/ k = Console!LineLimit \/ text[k] = Console!Newline}
<1>1. Len(text) \in Nat /\ Len(text) >= 1
  BY EmptySeq DEF Text
<1>2. Len(text) \in T /\ T \in SUBSET Nat
  BY <1>1
<1>3. PICK k \in T : \A m \in T : k <= m
  BY <1>2, Least
<1>4. P(k)
  <2>1. ASSUME NEW j \in 1..k-1
        PROVE  j # Console!LineLimit /\ text[j] # Console!Newline
    <3>1. j \in 1..Len(text) /\ ~(k <= j)
      BY <1>1, <1>3
    <3>2. j \notin T
      BY <1>3, <3>1
    <3> QED
      BY <3>1, <3>2
  <2> QED
    BY <1>3, <2>1
<1>5. Console!Cut(text) = CHOOSE m \in 1..Len(text) : P(m)
  BY DEF Console!Cut
<1>6. k \in 1..Len(text)
  BY <1>3
<1> HIDE DEF P
<1>7. Console!Cut(text) \in 1..Len(text) /\ P(Console!Cut(text))
  BY <1>4, <1>5, <1>6
<1> QED
  BY <1>7 DEF P

\* Two parts that follow each other.
LEMMA SubSeqJoin ==
  ASSUME NEW S, NEW s \in Seq(S), NEW n \in 0..Len(s), NEW k \in n..Len(s)
  PROVE  /\ SubSeq(s, n + 1, k) \in Seq(S)
         /\ SubSeq(s, n + 1, k) \o SubSeq(s, k + 1, Len(s)) = SubSeq(s, n + 1, Len(s))
<1>1. /\ Len(s) \in Nat /\ n \in Nat /\ k \in Nat
      /\ n + 1 \in 1..Len(s)+1 /\ k \in (n+1)-1..Len(s) /\ Len(s) \in k..Len(s)
  OBVIOUS
<1>2. SubSeq(s, n + 1, k) \o SubSeq(s, k + 1, Len(s)) = SubSeq(s, n + 1, Len(s))
  BY <1>1, ConcatAdjacentSubSeq
<1>3. SubSeq(s, n + 1, k) \in Seq(S)
  <2>1. \A i \in (n+1)..k : s[i] \in S
    BY <1>1
  <2> QED
    BY <1>1, <2>1, SubSeqProperties
<1> QED
  BY <1>2, <1>3

\* A stack is its top on the rest; the top may be replaced.
LEMMA Stacked ==
  ASSUME NEW stack \in Seq(Frames), stack # <<>>
  PROVE  /\ Head(stack) \in Frames /\ Tail(stack) \in Seq(Frames)
         /\ stack = <<Head(stack)>> \o Tail(stack)
         /\ \A f \in Frames : [stack EXCEPT ![1] = f] = <<f>> \o Tail(stack)
<1> DEFINE t == Tail(stack)
<1>1. Len(stack) \in Nat /\ Len(stack) >= 1
  BY EmptySeq
<1>2. /\ Head(stack) = stack[1] /\ stack[1] \in Frames
      /\ t \in Seq(Frames) /\ Len(t) = Len(stack) - 1
      /\ \A i \in 1..Len(stack)-1 : t[i] = stack[i + 1]
  BY <1>1, HeadTailProperties
<1> HIDE DEF t
<1>3. ASSUME NEW f \in Frames
      PROVE  [stack EXCEPT ![1] = f] = <<f>> \o t
  <2> DEFINE u == [stack EXCEPT ![1] = f]
             v == <<f>> \o t
  <2>1. u \in Seq(Frames) /\ Len(u) = Len(stack)
        /\ \A i \in 1..Len(stack) : u[i] = IF i = 1 THEN f ELSE stack[i]
    BY <1>1, ExceptSeq
  <2>2. <<f>> \in Seq(Frames) /\ Len(<<f>>) = 1 /\ <<f>>[1] = f
    BY One
  <2>3. v \in Seq(Frames) /\ Len(v) = 1 + Len(t)
        /\ \A i \in 1..1+Len(t) : v[i] = IF i <= 1 THEN <<f>>[i] ELSE t[i - 1]
    BY <1>2, <2>2, ConcatProperties
  <2> HIDE DEF u, v
  <2>4. \A i \in 1..Len(stack) : u[i] = v[i]
    <3> TAKE i \in 1..Len(stack)
    <3>1. CASE i = 1
      BY <1>1, <1>2, <2>1, <2>2, <2>3, <3>1
    <3>2. CASE i # 1
      <4>1. u[i] = stack[i] /\ v[i] = t[i - 1]
        BY <1>1, <1>2, <2>1, <2>3, <3>2
      <4>2. i - 1 \in 1..Len(stack)-1 /\ (i - 1) + 1 = i
        BY <1>1, <3>2
      <4> QED
        BY <1>2, <4>1, <4>2
    <3> QED
      BY <3>1, <3>2
  <2>5. Len(v) = Len(stack)
    BY <1>1, <1>2, <2>3
  <2>6. u = v
    BY <2>1, <2>3, <2>4, <2>5, SeqEqual
  <2> QED
    BY <2>6 DEF u, v
<1>4. [stack EXCEPT ![1] = Head(stack)] = stack
  BY <1>1, <1>2
<1>5. stack = <<Head(stack)>> \o t
  BY <1>2, <1>3, <1>4
<1> QED
  BY <1>2, <1>3, <1>5 DEF t

\* What follows the first line.
Others(text) == SubSeq(text, Console!Cut(text) + 1, Len(text))

\* The text a file of the stack still holds.
Held(frame) == frame.buf \o frame.rest

\* What remains of a file after n characters.
LEMMA Remains ==
  ASSUME NEW top \in Frames, NEW n \in 1..Len(Held(top)), NEW left \in Console!After(top, n)
  PROVE  left \in Frames /\ Held(left) = SubSeq(Held(top), n + 1, Len(Held(top)))
<1> DEFINE text == Held(top)
           bought == IF n <= Len(top.buf) THEN {Len(top.buf)}
                     ELSE {k \in n..Len(text) : k - n < ReadSize}
<1>1. top.buf \in Text /\ top.rest \in Text
  BY DEF Frames
<1>2. text \in Text /\ Len(text) = Len(top.buf) + Len(top.rest)
  BY <1>1, ConcatProperties DEF Text, Held
<1>3. Len(top.buf) \in Nat /\ Len(top.rest) \in Nat
  BY <1>1 DEF Text
<1>4. Console!After(top, n) = {[buf |-> SubSeq(text, n + 1, k), rest |-> SubSeq(text, k + 1, Len(text))] : k \in bought}
  BY DEF Console!After, Held
<1>5. PICK k \in bought : left = [buf |-> SubSeq(text, n + 1, k), rest |-> SubSeq(text, k + 1, Len(text))]
  BY <1>4
<1> DEFINE l == Len(text)
<1>6. l \in Nat /\ n \in 0..l /\ k \in n..l /\ k \in 0..l /\ l \in k..l
  <2> DEFINE b == Len(top.buf)
  <2>1. l \in Nat /\ b \in Nat /\ b <= l /\ n \in 1..l
    <3> DEFINE d == Len(top.rest)
    <3>1. l = b + d /\ b \in Nat /\ d \in Nat
      BY <1>2, <1>3
    <3>2. n \in 1..l
      OBVIOUS
    <3> HIDE DEF b, d, l
    <3> QED
      BY <3>1, <3>2
  <2>2. k \in IF n <= b THEN {b} ELSE {m \in n..l : m - n < ReadSize}
    BY <1>5
  <2> HIDE DEF l, b
  <2>3. k \in n..l
    BY <2>1, <2>2
  <2> QED
    BY <2>1, <2>3
<1>7. left.buf = SubSeq(text, n + 1, k) /\ left.rest = SubSeq(text, k + 1, l)
      /\ left = [buf |-> left.buf, rest |-> left.rest]
  BY <1>5
<1> HIDE DEF text
<1>8. text \in Seq(Characters)
  BY <1>2 DEF Text
<1>9. SubSeq(text, n + 1, k) \in Seq(Characters)
      /\ SubSeq(text, n + 1, k) \o SubSeq(text, k + 1, l) = SubSeq(text, n + 1, l)
  BY <1>6, <1>8, SubSeqJoin
<1>10. SubSeq(text, k + 1, l) \in Seq(Characters)
  BY <1>6, <1>8, SubSeqJoin
<1>11. left \in Frames
  BY <1>7, <1>9, <1>10 DEF Frames, Text
<1>12. Held(left) = SubSeq(text, n + 1, l)
  BY <1>7, <1>9 DEF Held
<1> QED
  BY <1>11, <1>12 DEF text

\* A line taken is the first line of what the top file holds, and the others stay.
LEMMA Reads ==
  ASSUME Typed, NEW con \in Consoles, con.buf_stack # <<>>, NEW r \in Console!readline(con)
  PROVE  /\ r.con \in Consoles /\ r.con = [con EXCEPT !.buf_stack = r.con.buf_stack]
         /\ \/ /\ Held(Head(con.buf_stack)) = <<>> /\ r.line = <<>>
               /\ r.con.buf_stack = Tail(con.buf_stack)
            \/ /\ Held(Head(con.buf_stack)) # <<>>
               /\ r.line = <<Console!FirstLine(Held(Head(con.buf_stack)))>>
               /\ \/ /\ Others(Held(Head(con.buf_stack))) = <<>>
                     /\ r.con.buf_stack = Tail(con.buf_stack)
                  \/ \E left \in Frames :
                       /\ Held(left) = Others(Held(Head(con.buf_stack)))
                       /\ r.con.buf_stack = <<left>> \o Tail(con.buf_stack)
<1> DEFINE stack == con.buf_stack
           top == Head(con.buf_stack)
           text == Held(top)
           ends == {n \in 1..Len(text) : text[n] = Console!Newline \/ n = Console!LineLimit}
           n == CHOOSE e \in ends : \A f \in ends : e <= f
<1>1. stack \in Seq(Frames) /\ stack # <<>>
  BY DEF Consoles
<1>2. top \in Frames /\ Tail(stack) \in Seq(Frames)
  BY <1>1, Stacked
<1>3. top.buf \in Text /\ top.rest \in Text
  BY <1>2 DEF Frames
<1>4. text \in Text /\ Len(text) \in Nat
  <2>1. top.buf \o top.rest \in Seq(Characters)
    BY <1>3, ConcatProperties DEF Text
  <2>2. text \in Seq(Characters)
    BY <2>1 DEF Held
  <2> HIDE DEF text
  <2> QED
    BY <2>2 DEF Text
<1>5. r \in IF ends = {}
            THEN {[line |-> IF text = <<>> THEN <<>> ELSE <<text>>, con |-> Console!pop_file(con)]}
            ELSE {[line |-> <<SubSeq(text, 1, IF text[n] = Console!Newline THEN n - 1 ELSE n)>>,
                   con |-> [con EXCEPT !.buf_stack[1] = left]] : left \in Console!After(top, n)}
  BY DEF Console!readline, Held
<1>6. CASE ends = {}
  <2>1. r.line = (IF text = <<>> THEN <<>> ELSE <<text>>) /\ r.con = Console!pop_file(con)
    BY <1>5, <1>6
  <2>2. r.con = [con EXCEPT !.buf_stack = Tail(stack)]
    BY <1>1, <2>1 DEF Console!pop_file
  <2>3. r.con \in Consoles /\ r.con.buf_stack = Tail(stack)
        /\ r.con = [con EXCEPT !.buf_stack = r.con.buf_stack]
    BY <1>2, <2>2 DEF Consoles
  <2>4. ASSUME text # <<>>
        PROVE  Console!FirstLine(text) = text /\ Others(text) = <<>>
    <3>1. Len(text) \in 1..Len(text)
      BY <1>4, <2>4, EmptySeq DEF Text
    <3>2. /\ Console!Cut(text) \in 1..Len(text)
          /\ Console!Cut(text) = Len(text) \/ Console!Cut(text) = Console!LineLimit \/ text[Console!Cut(text)] = Console!Newline
      BY <1>4, <2>4, CutIs
    <3>3. Console!Cut(text) = Len(text) /\ text[Console!Cut(text)] # Console!Newline
      BY <1>6, <3>2
    <3>4. Console!FirstLine(text) = SubSeq(text, 1, Len(text))
      BY <3>3 DEF Console!FirstLine
    <3>5. SubSeq(text, 1, Len(text)) = text
      BY <1>4, SubSeqFull DEF Text
    <3>6. Others(text) = <<>>
      <4>1. Others(text) = SubSeq(text, Len(text) + 1, Len(text))
        BY <3>3 DEF Others
      <4> HIDE DEF text
      <4>2. Len(text) + 1 \in Int /\ Len(text) \in Int /\ Len(text) < Len(text) + 1
        BY <1>4
      <4> QED
        BY <4>1, <4>2, SubSeqEmpty
    <3> QED
      BY <3>4, <3>5, <3>6
  <2> HIDE DEF text
  <2> QED
    BY <2>1, <2>3, <2>4 DEF text
<1>7. CASE ends # {}
  <2>1. ends \in SUBSET Nat
    BY <1>4
  <2>2. \E e \in ends : \A f \in ends : e <= f
    BY <1>7, <2>1, Least
  <2>3. n \in ends /\ \A f \in ends : n <= f
    BY <2>2
  <2>4. PICK left \in Console!After(top, n) :
          /\ r.line = <<SubSeq(text, 1, IF text[n] = Console!Newline THEN n - 1 ELSE n)>>
          /\ r.con = [con EXCEPT !.buf_stack[1] = left]
    <3> DEFINE line == <<SubSeq(text, 1, IF text[n] = Console!Newline THEN n - 1 ELSE n)>>
    <3>1. r \in {[line |-> line, con |-> [con EXCEPT !.buf_stack[1] = left]] : left \in Console!After(top, n)}
      BY <1>5, <1>7
    <3> HIDE DEF line, n
    <3>2. PICK left \in Console!After(top, n) : r = [line |-> line, con |-> [con EXCEPT !.buf_stack[1] = left]]
      BY <3>1
    <3>3. r.line = line /\ r.con = [con EXCEPT !.buf_stack[1] = left]
      BY <3>2
    <3> QED
      BY <3>3 DEF line
  <2> HIDE DEF n
  <2>5. text # <<>>
    BY <1>4, <2>3, EmptySeq DEF Text
  <2>6. Console!Cut(text) = n
    <3> DEFINE k == Console!Cut(text)
    <3>1. /\ k \in 1..Len(text)
          /\ k = Len(text) \/ k = Console!LineLimit \/ text[k] = Console!Newline
          /\ \A j \in 1..k-1 : j # Console!LineLimit /\ text[j] # Console!Newline
      BY <1>4, <2>5, CutIs
    <3> HIDE DEF k
    <3>2. ~(n < k)
      BY <1>4, <2>3, <3>1
    <3>3. ~(k < n)
      <4> SUFFICES ASSUME k < n PROVE FALSE
        OBVIOUS
      <4>1. k \notin ends
        BY <1>4, <2>3, <3>1
      <4> QED
        BY <1>4, <2>3, <3>1, <4>1
    <3>4. k = n
      BY <1>4, <2>3, <3>1, <3>2, <3>3
    <3> QED
      BY <3>4 DEF k
  <2>7. r.line = <<Console!FirstLine(text)>>
    BY <2>4, <2>6 DEF Console!FirstLine
  <2>8. left \in Frames /\ Held(left) = Others(text)
    <3>1. n \in 1..Len(Held(top))
      BY <2>3
    <3>2. left \in Frames /\ Held(left) = SubSeq(text, n + 1, Len(text))
      BY <1>2, <2>4, <3>1, Remains
    <3> QED
      BY <2>6, <3>2 DEF Others
  <2>9. [stack EXCEPT ![1] = left] = <<left>> \o Tail(stack)
    BY <1>1, <2>8, Stacked
  <2>10. r.con = [con EXCEPT !.buf_stack = <<left>> \o Tail(stack)]
    BY <2>4, <2>9
  <2>11. <<left>> \o Tail(stack) \in Seq(Frames)
    BY <1>2, <2>8, One, ConcatProperties
  <2> HIDE DEF text, ends
  <2>12. r.con \in Consoles /\ r.con.buf_stack = <<left>> \o Tail(stack)
         /\ r.con = [con EXCEPT !.buf_stack = r.con.buf_stack]
    BY <2>10, <2>11 DEF Consoles
  <2> QED
    BY <2>5, <2>7, <2>8, <2>12 DEF text
<1> QED
  BY <1>6, <1>7

\* Lines and what follows them are texts.
LEMMA LineTypes ==
  ASSUME NEW text \in Text, text # <<>>
  PROVE  Console!FirstLine(text) \in Text /\ Others(text) \in Text
         /\ Len(Others(text)) = Len(text) - Console!Cut(text)
<1> DEFINE k == Console!Cut(text)
<1>1. Len(text) \in Nat /\ k \in 1..Len(text) /\ \A i \in 1..Len(text) : text[i] \in Characters
  BY CutIs DEF Text
<1> DEFINE e == IF text[k] = Console!Newline THEN k - 1 ELSE k
<1>2. Console!FirstLine(text) = SubSeq(text, 1, e)
  BY DEF Console!FirstLine
<1>3. e \in Int /\ e <= Len(text)
  BY <1>1
<1> HIDE DEF e
<1>4. Console!FirstLine(text) \in Text
  <2>1. \A i \in 1..e : text[i] \in Characters
    BY <1>1, <1>3
  <2> QED
    BY <1>2, <1>3, <2>1, SubSeqProperties DEF Text
<1>5. Others(text) = SubSeq(text, k + 1, Len(text))
  BY DEF Others
<1> HIDE DEF k
<1>6. Others(text) \in Text /\ Len(Others(text)) = Len(text) - k
  <2>1. \A i \in (k+1)..Len(text) : text[i] \in Characters
    BY <1>1
  <2>2. Others(text) \in Seq(Characters)
        /\ Len(Others(text)) = IF k + 1 <= Len(text) THEN Len(text) - (k + 1) + 1 ELSE 0
    BY <1>1, <1>5, <2>1, SubSeqProperties
  <2> QED
    BY <1>1, <2>2 DEF Text
<1> QED
  BY <1>4, <1>6 DEF k

\* The last k characters are a text of that length.
LEMMA Endings ==
  ASSUME NEW text \in Text, NEW k \in 1..Len(text)
  PROVE  /\ Console!Ending(text, k) \in Text /\ Console!Ending(text, k) # <<>>
         /\ Len(Console!Ending(text, k)) = k
         /\ Console!Cut(Console!Ending(text, k)) \in 1..k
         /\ Console!FirstLine(Console!Ending(text, k)) \in Text
<1> DEFINE e == Console!Ending(text, k)
           n == Len(text)
<1>1. n \in Nat /\ k \in 1..n /\ \A i \in 1..n : text[i] \in Characters
  BY DEF Text
<1>2. e = SubSeq(text, n - k + 1, n)
  BY DEF Console!Ending
<1> HIDE DEF e, n
<1>3. e \in Seq(Characters) /\ Len(e) = k
  <2>1. \A i \in (n - k + 1)..n : text[i] \in Characters
    BY <1>1
  <2>2. e \in Seq(Characters)
        /\ Len(e) = IF n - k + 1 <= n THEN n - (n - k + 1) + 1 ELSE 0
    BY <1>1, <1>2, <2>1, SubSeqProperties
  <2> QED
    BY <1>1, <2>2
<1>4. e # <<>>
  BY <1>1, <1>3, EmptySeq
<1>5. e \in Text
  BY <1>3 DEF Text
<1>6. Console!Cut(e) \in 1..k
  BY <1>3, <1>4, <1>5, CutIs
<1>7. Console!FirstLine(e) \in Text
  BY <1>4, <1>5, LineTypes
<1> QED
  BY <1>3, <1>4, <1>5, <1>6, <1>7 DEF e

\* f gives the lines of the endings of text, up to n characters.
LinesFrom(f, text, n) ==
  f = [k \in 0..n |-> IF k = 0 THEN <<>>
                      ELSE <<Console!FirstLine(Console!Ending(text, k))>> \o f[k - Console!Cut(Console!Ending(text, k))]]

\* Every text has its lines, by how much of it is left.
LEMMA LinesExist ==
  ASSUME NEW text \in Text, NEW n \in Nat
  PROVE  n <= Len(text) => \E f : LinesFrom(f, text, n)
<1> DEFINE T == {m \in Nat : m <= Len(text) => \E f : LinesFrom(f, text, m)}
<1>1. 0 \in T
  <2> DEFINE f == [k \in 0..0 |-> <<>>]
  <2>1. \A k \in 0..0 : k = 0
    OBVIOUS
  <2>2. LinesFrom(f, text, 0)
    BY <2>1 DEF LinesFrom
  <2> QED
    BY <2>2
<1>2. ASSUME NEW m \in Nat, m \in T
      PROVE  m + 1 \in T
  <2> SUFFICES ASSUME m + 1 <= Len(text)
               PROVE  \E f : LinesFrom(f, text, m + 1)
    OBVIOUS
  <2>1. Len(text) \in Nat /\ m <= Len(text)
    BY DEF Text
  <2>2. PICK g : LinesFrom(g, text, m)
    BY <1>2, <2>1
  <2> DEFINE cut(k) == Console!Cut(Console!Ending(text, k))
             line(k) == <<Console!FirstLine(Console!Ending(text, k))>>
  <2>3. \A k \in 1..m+1 : cut(k) \in 1..k
    BY <2>1, Endings
  <2>4. \A k \in 0..m : g[k] = IF k = 0 THEN <<>> ELSE line(k) \o g[k - cut(k)]
    BY <2>2 DEF LinesFrom
  <2> HIDE DEF cut, line
  <2> DEFINE h == [k \in 0..m+1 |-> IF k <= m THEN g[k] ELSE line(k) \o g[k - cut(k)]]
  <2>5. \A k \in 0..m : h[k] = g[k]
    OBVIOUS
  <2>6. ASSUME NEW x \in 0..m+1, ~(x <= m)
        PROVE  h[x] = line(x) \o g[x - cut(x)]
    BY <2>6
  <2>7. h = [k \in 0..m+1 |-> h[k]]
    OBVIOUS
  <2> HIDE DEF h
  <2>8. ASSUME NEW k \in 0..m+1
        PROVE  h[k] = IF k = 0 THEN <<>> ELSE line(k) \o h[k - cut(k)]
    <3>1. CASE k = 0
      BY <2>4, <2>5, <3>1
    <3>2. CASE k # 0
      <4>1. k - cut(k) \in 0..m
        BY <2>3, <3>2
      <4>2. h[k - cut(k)] = g[k - cut(k)]
        BY <2>5, <4>1
      <4>3. CASE k = m + 1
        <5>1. ~(k <= m)
          BY <4>3
        <5> QED
          BY <2>6, <3>2, <4>2, <5>1
      <4>4. CASE k # m + 1
        <5>1. k \in 0..m
          BY <4>4
        <5> QED
          BY <2>4, <2>5, <3>2, <4>2, <5>1
      <4> QED
        BY <4>3, <4>4
    <3> QED
      BY <3>1, <3>2
  <2>9. h = [k \in 0..m+1 |-> IF k = 0 THEN <<>> ELSE line(k) \o h[k - cut(k)]]
    BY <2>7, <2>8
  <2>10. LinesFrom(h, text, m + 1)
    BY <2>9 DEF LinesFrom, line, cut
  <2> QED
    BY <2>10
<1> HIDE DEF T
<1>3. n \in T
  BY <1>1, <1>2, AllNumbers
<1> QED
  BY <1>3 DEF T

\* What Lines chooses.
LEMMA LinesIs ==
  ASSUME NEW text \in Text
  PROVE  \E f : /\ Console!Lines(text) = f[Len(text)]
                /\ f[0] = <<>>
                /\ \A k \in 1..Len(text) :
                     f[k] = <<Console!FirstLine(Console!Ending(text, k))>> \o f[k - Console!Cut(Console!Ending(text, k))]
                /\ \A k \in 0..Len(text) : f[k] \in Seq(Text)
<1> DEFINE n == Len(text)
           Is(f) == f = [k \in 0..n |-> IF k = 0 THEN <<>>
                           ELSE <<Console!FirstLine(Console!Ending(text, k))>> \o f[k - Console!Cut(Console!Ending(text, k))]]
           f == CHOOSE g : Is(g)
<1>1. n \in Nat
  BY DEF Text
<1>2. \E g : Is(g)
  BY <1>1, LinesExist DEF LinesFrom
<1>3. Console!Lines(text) = f[n]
  BY DEF Console!Lines
<1> HIDE DEF Is
<1>4. Is(f)
  BY <1>2
<1> DEFINE cut(k) == Console!Cut(Console!Ending(text, k))
           line(k) == <<Console!FirstLine(Console!Ending(text, k))>>
<1> HIDE DEF f
<1>5. \A k \in 0..n : f[k] = IF k = 0 THEN <<>> ELSE line(k) \o f[k - cut(k)]
  BY <1>4 DEF Is
<1> HIDE DEF cut, line, n
<1>6. f[0] = <<>>
  BY <1>1, <1>5
<1>7. \A k \in 1..n : f[k] = line(k) \o f[k - cut(k)]
  <2> TAKE k \in 1..n
  <2>1. k \in 0..n /\ k # 0
    BY <1>1
  <2> QED
    BY <1>5, <2>1
<1> DEFINE T == {m \in Nat : \A k \in 0..m : k <= n => f[k] \in Seq(Text)}
<1>8. 0 \in T
  <2>1. f[0] \in Seq(Text)
    BY <1>6, EmptySeq
  <2>2. \A k \in 0..0 : k = 0
    OBVIOUS
  <2> QED
    BY <2>1, <2>2
<1>9. ASSUME NEW m \in Nat, m \in T
      PROVE  m + 1 \in T
  <2>1. ASSUME NEW k, k = m + 1, k <= n
        PROVE  f[k] \in Seq(Text)
    <3>1. k \in 1..n /\ k \in 1..Len(text)
      BY <1>1, <2>1 DEF n
    <3>2. cut(k) \in 1..k /\ line(k) \in Seq(Text)
      BY <3>1, Endings, One DEF cut, line
    <3>3. f[k] = line(k) \o f[k - cut(k)]
      BY <1>7, <3>1
    <3>4. k - cut(k) \in 0..m /\ k - cut(k) <= n
      BY <1>1, <2>1, <3>2
    <3>5. f[k - cut(k)] \in Seq(Text)
      BY <1>9, <3>4
    <3> QED
      BY <3>2, <3>3, <3>5, ConcatProperties
  <2>2. ASSUME NEW k \in 0..m+1, k <= n
        PROVE  f[k] \in Seq(Text)
    <3>1. k \in 0..m \/ k = m + 1
      OBVIOUS
    <3> QED
      BY <1>9, <2>1, <2>2, <3>1
  <2> QED
    BY <2>2
<1> HIDE DEF T
<1>10. n \in T
  BY <1>1, <1>8, <1>9, AllNumbers
<1>11. \A k \in 0..n : f[k] \in Seq(Text)
  BY <1>1, <1>10 DEF T
<1> QED
  BY <1>3, <1>6, <1>7, <1>11 DEF n, cut, line

\* A text's lines are its first line and the lines of what follows it.
LEMMA LinesSplit ==
  ASSUME NEW text \in Text
  PROVE  /\ Console!Lines(text) \in Seq(Text)
         /\ text = <<>> => Console!Lines(text) = <<>>
         /\ text # <<>> => Console!Lines(text) = <<Console!FirstLine(text)>> \o Console!Lines(Others(text))
<1> DEFINE n == Len(text)
<1>1. n \in Nat /\ n \in 0..n
  BY DEF Text
<1>2. PICK f : /\ Console!Lines(text) = f[n]
               /\ f[0] = <<>>
               /\ \A k \in 1..n :
                    f[k] = <<Console!FirstLine(Console!Ending(text, k))>> \o f[k - Console!Cut(Console!Ending(text, k))]
               /\ \A k \in 0..n : f[k] \in Seq(Text)
  BY LinesIs
<1>3. Console!Lines(text) \in Seq(Text)
  BY <1>1, <1>2
<1>4. text = <<>> => Console!Lines(text) = <<>>
  BY <1>2, EmptySeq
<1>5. ASSUME text # <<>>
      PROVE  Console!Lines(text) = <<Console!FirstLine(text)>> \o Console!Lines(Others(text))
  <2> DEFINE rest == Others(text)
             m == Len(rest)
             c0 == Console!Cut(text)
  <2>1. n \in 1..n /\ c0 \in 1..n /\ rest \in Text /\ m = n - c0
    BY <1>1, <1>5, EmptySeq, CutIs, LineTypes DEF Text
  <2>2. Console!Ending(text, n) = text
    <3>1. Console!Ending(text, n) = SubSeq(text, 1, n)
      <4>1. n - n + 1 = 1
        BY <1>1
      <4> QED
        BY <4>1 DEF Console!Ending
    <3> QED
      BY <3>1, SubSeqFull DEF Text
  <2>3. f[n] = <<Console!FirstLine(text)>> \o f[m]
    BY <1>2, <2>1, <2>2
  <2>4. PICK g : /\ Console!Lines(rest) = g[m]
                 /\ g[0] = <<>>
                 /\ \A k \in 1..m :
                      g[k] = <<Console!FirstLine(Console!Ending(rest, k))>> \o g[k - Console!Cut(Console!Ending(rest, k))]
    BY <2>1, LinesIs
  <2>5. ASSUME NEW k \in 1..m
        PROVE  Console!Ending(rest, k) = Console!Ending(text, k)
    <3>1. rest = SubSeq(text, c0 + 1, n)
      BY DEF Others
    <3>2. Console!Ending(rest, k) = SubSeq(rest, m - k + 1, m)
      BY DEF Console!Ending
    <3>3. Console!Ending(text, k) = SubSeq(text, n - k + 1, n)
      BY DEF Console!Ending
    <3> HIDE DEF rest, m, c0, n
    <3>4. /\ c0 + 1 \in 1..n /\ n \in 1..n
          /\ m - k + 1 \in 1..n-(c0+1)+1 /\ m \in 1..n-(c0+1)+1
          /\ (c0 + 1) + (m - k + 1) - 1 = n - k + 1 /\ (c0 + 1) + m - 1 = n
      BY <1>1, <2>1
    <3>5. text \in Seq(Characters)
      BY DEF Text
    <3>6. SubSeq(SubSeq(text, c0 + 1, n), m - k + 1, m) = SubSeq(text, n - k + 1, n)
      <4> DEFINE i == c0 + 1
                 a == m - k + 1
      <4>1. i \in 1..Len(text) /\ n \in 1..Len(text) /\ a \in 1..n-i+1 /\ m \in 1..n-i+1
        BY <3>4 DEF n
      <4>2. i + a - 1 = n - k + 1 /\ i + m - 1 = n
        BY <3>4
      <4> HIDE DEF i, a
      <4>3. SubSeq(SubSeq(text, i, n), a, m) = SubSeq(text, i + a - 1, i + m - 1)
        BY <3>5, <4>1, SubSeqOfSubSeq
      <4> QED
        BY <4>2, <4>3 DEF i, a
    <3> QED
      BY <3>1, <3>2, <3>3, <3>6
  <2> DEFINE T == {j \in Nat : \A k \in 0..j : k <= m => f[k] = g[k]}
  <2>6. 0 \in T
    BY <1>2, <2>4
  <2>7. ASSUME NEW j \in Nat, j \in T
        PROVE  j + 1 \in T
    <3>1. ASSUME NEW k, k = j + 1, k <= m
          PROVE  f[k] = g[k]
      <4> DEFINE e == Console!Ending(text, k)
      <4>1. k \in 1..m /\ k \in 1..n /\ k \in 1..Len(text)
        BY <1>1, <2>1, <3>1
      <4>2. Console!Ending(rest, k) = e
        BY <2>5, <4>1
      <4>3. Console!Cut(e) \in 1..k
        BY <4>1, Endings
      <4>4. f[k] = <<Console!FirstLine(e)>> \o f[k - Console!Cut(e)]
        BY <1>2, <4>1
      <4>5. g[k] = <<Console!FirstLine(e)>> \o g[k - Console!Cut(e)]
        <5>1. g[k] = <<Console!FirstLine(Console!Ending(rest, k))>> \o g[k - Console!Cut(Console!Ending(rest, k))]
          BY <2>4, <4>1
        <5> HIDE DEF e, rest
        <5> QED
          BY <4>2, <5>1
      <4> HIDE DEF e, m, n
      <4>6. k - Console!Cut(e) \in 0..j /\ k - Console!Cut(e) <= m
        BY <1>1, <2>1, <3>1, <4>3
      <4>7. f[k - Console!Cut(e)] = g[k - Console!Cut(e)]
        BY <2>7, <4>6
      <4> QED
        BY <4>4, <4>5, <4>7
    <3>2. ASSUME NEW k \in 0..j+1, k <= m
          PROVE  f[k] = g[k]
      <4>1. k \in 0..j \/ k = j + 1
        OBVIOUS
      <4> QED
        BY <2>7, <3>1, <3>2, <4>1
    <3> QED
      BY <3>2
  <2> HIDE DEF T
  <2>8. m \in Nat
    BY <1>1, <2>1
  <2>9. m \in T
    BY <2>6, <2>7, <2>8, AllNumbers
  <2>10. f[m] = g[m]
    BY <2>8, <2>9 DEF T
  <2> QED
    BY <1>2, <2>3, <2>4, <2>10
<1> QED
  BY <1>3, <1>4, <1>5

-----------------------------------------------------------------------------
(* What a script expands to. *)

\* G is a function from S to T; what it makes of each element.
Maps(G, S, T) == G \in [S -> T]
Mapped(G, s) == [k \in DOMAIN s |-> G[s[k]]]

\* The first element apart.
MapsFirst(G, a, s) == Mapped(G, <<a>> \o s) = <<G[a]>> \o Mapped(G, s)

\* It may be taken first.
LEMMA MapCons ==
  ASSUME NEW S, NEW T, NEW G, NEW a \in S, NEW s \in Seq(S),
         Maps(G, S, T)
  PROVE  /\ Mapped(G, s) \in Seq(T)
         /\ MapsFirst(G, a, s)
<1> DEFINE t == [k \in DOMAIN s |-> G[s[k]]]
           b == <<a>> \o s
           u == [k \in DOMAIN b |-> G[b[k]]]
           v == <<G[a]>> \o t
           n == Len(s)
<1>1. n \in Nat /\ DOMAIN s = 1..n /\ \A k \in 1..n : s[k] \in S
  OBVIOUS
<1> USE DEF Maps
<1>2. t \in Seq(T) /\ Len(t) = n /\ \A k \in 1..n : t[k] = G[s[k]]
  <2>1. t = [k \in 1..n |-> G[s[k]]] /\ \A k \in 1..n : G[s[k]] \in T
    BY <1>1
  <2> HIDE DEF t
  <2>2. t \in Seq(T)
    BY <1>1, <2>1, IsASeq
  <2>3. DOMAIN t = 1..n /\ DOMAIN t = 1..Len(t) /\ Len(t) \in Nat
    BY <2>1, <2>2, LenProperties
  <2>4. Len(t) = n
    BY <1>1, <2>3
  <2> QED
    BY <2>1, <2>2, <2>4
<1>3. /\ b \in Seq(S) /\ Len(b) = n + 1 /\ b[1] = a
      /\ \A k \in 2..n+1 : b[k] = s[k - 1]
  <2>1. <<a>> \in Seq(S) /\ Len(<<a>>) = 1 /\ <<a>>[1] = a
    BY One
  <2>2. b \in Seq(S) /\ Len(b) = 1 + n
        /\ \A k \in 1..1+n : b[k] = IF k <= 1 THEN <<a>>[k] ELSE s[k - 1]
    BY <2>1, ConcatProperties
  <2> HIDE DEF b, n
  <2>3. \A k \in 2..n+1 : k \in 1..1+n /\ ~(k <= 1)
    BY <1>1
  <2>4. \A k \in 2..n+1 : b[k] = s[k - 1]
    BY <2>2, <2>3
  <2> QED
    BY <1>1, <2>1, <2>2, <2>4
<1>4. u \in Seq(T) /\ Len(u) = n + 1 /\ \A k \in 1..n+1 : u[k] = G[b[k]]
  <2> HIDE DEF b
  <2>1. DOMAIN b = 1..n+1 /\ \A k \in 1..n+1 : b[k] \in S
    BY <1>1, <1>3
  <2>2. u = [k \in 1..n+1 |-> G[b[k]]] /\ \A k \in 1..n+1 : G[b[k]] \in T
    BY <2>1
  <2> HIDE DEF u, n
  <2>3. n + 1 \in Nat
    BY <1>1
  <2>4. u \in Seq(T)
    BY <2>2, <2>3, IsASeq
  <2>5. DOMAIN u = 1..n+1 /\ DOMAIN u = 1..Len(u) /\ Len(u) \in Nat
    BY <2>2, <2>4, LenProperties
  <2>6. Len(u) = n + 1
    BY <2>3, <2>5
  <2> QED
    BY <2>2, <2>4, <2>6
<1>5. /\ v \in Seq(T) /\ Len(v) = n + 1 /\ v[1] = G[a]
      /\ \A k \in 2..n+1 : v[k] = t[k - 1]
  <2>1. <<G[a]>> \in Seq(T) /\ Len(<<G[a]>>) = 1 /\ <<G[a]>>[1] = G[a]
    BY One
  <2> HIDE DEF t
  <2>2. v \in Seq(T) /\ Len(v) = 1 + n
        /\ \A k \in 1..1+n : v[k] = IF k <= 1 THEN <<G[a]>>[k] ELSE t[k - 1]
    BY <1>2, <2>1, ConcatProperties
  <2> HIDE DEF v, n
  <2>3. \A k \in 2..n+1 : k \in 1..1+n /\ ~(k <= 1)
    BY <1>1
  <2>4. \A k \in 2..n+1 : v[k] = t[k - 1]
    BY <2>2, <2>3
  <2> QED
    BY <1>1, <2>1, <2>2, <2>4
<1> HIDE DEF t, b, u, v, n
<1>6. \A k \in 1..n+1 : u[k] = v[k]
  <2> TAKE k \in 1..n+1
  <2>1. CASE k = 1
    BY <1>1, <1>3, <1>4, <1>5, <2>1
  <2>2. CASE k # 1
    <3>1. k \in 2..n+1 /\ k - 1 \in 1..n
      BY <1>1, <2>2
    <3>2. u[k] = G[b[k]] /\ b[k] = s[k - 1] /\ v[k] = t[k - 1] /\ t[k - 1] = G[s[k - 1]]
      BY <1>2, <1>3, <1>4, <1>5, <3>1
    <3> QED
      BY <3>2
  <2> QED
    BY <2>1, <2>2
<1>7. u = v
  BY <1>4, <1>5, <1>6, SeqEqual
<1> QED
  BY <1>2, <1>7 DEF t, b, u, v, Mapped, MapsFirst

\* The words of a line after any time.
Sourced(line) == Console!Command(Console!parse_args(line))

\* A line, and what it sources of the files of f, if these expand to g.
Item(f, line, g) ==
  <<line>> \o (IF SourcesIn(f, Sourced(line)) THEN g[Sourced(line)[2]] ELSE <<>>)

\* The lines, each followed by what it sources.
ExpandedBy(f, lines, g) == FlattenSeq([k \in DOMAIN lines |-> Item(f, lines[k], g)])

\* What a line stands for is a sequence of lines.
LEMMA ItemType ==
  ASSUME NEW f, NEW g, NEW line \in Text,
         SourcesIn(f, Sourced(line)) => g[Sourced(line)[2]] \in Seq(Text)
  PROVE  Item(f, line, g) \in Seq(Text)
<1> DEFINE more == IF SourcesIn(f, Sourced(line)) THEN g[Sourced(line)[2]] ELSE <<>>
<1>1. more \in Seq(Text)
  BY EmptySeq
<1> HIDE DEF more
<1>2. <<line>> \o more \in Seq(Text)
  BY <1>1, One, ConcatProperties
<1> QED
  BY <1>2 DEF Item, more

\* So is what lines expand to, if that of the files they source is.
LEMMA ExpandedType ==
  ASSUME NEW f, NEW g, NEW lines \in Seq(Text),
         \A k \in DOMAIN lines :
           SourcesIn(f, Sourced(lines[k])) => g[Sourced(lines[k])[2]] \in Seq(Text)
  PROVE  ExpandedBy(f, lines, g) \in Seq(Text)
<1> DEFINE items == [k \in DOMAIN lines |-> Item(f, lines[k], g)]
<1>1. DOMAIN lines = 1..Len(lines) /\ Len(lines) \in Nat
  BY LenProperties
<1>2. \A k \in 1..Len(lines) : Item(f, lines[k], g) \in Seq(Text)
  BY <1>1, ItemType
<1>3. items \in Seq(Seq(Text))
  <2>1. items = [k \in 1..Len(lines) |-> Item(f, lines[k], g)]
    BY <1>1
  <2> QED
    BY <1>1, <1>2, <2>1, IsASeq
<1> HIDE DEF items
<1>4. FlattenSeq(items) \in Seq(Text)
  BY <1>3, FlattenType
<1> QED
  BY <1>4 DEF ExpandedBy, items

\* Only what the sourced files expand to matters.
LEMMA ExpandedSame ==
  ASSUME NEW f, NEW g, NEW h, NEW lines,
         \A k \in DOMAIN lines :
           SourcesIn(f, Sourced(lines[k])) => g[Sourced(lines[k])[2]] = h[Sourced(lines[k])[2]]
  PROVE  ExpandedBy(f, lines, g) = ExpandedBy(f, lines, h)
<1>1. \A k \in DOMAIN lines : Item(f, lines[k], g) = Item(f, lines[k], h)
  BY DEF Item
<1>2. [k \in DOMAIN lines |-> Item(f, lines[k], g)] = [k \in DOMAIN lines |-> Item(f, lines[k], h)]
  BY <1>1
<1> QED
  BY <1>2 DEF ExpandedBy

\* The first line and what it sources come first.
LEMMA ExpandedCons ==
  ASSUME NEW f, NEW g, NEW l \in Text, NEW lines \in Seq(Text),
         \A name \in DOMAIN f : g[name] \in Seq(Text)
  PROVE  /\ ExpandedBy(f, <<l>> \o lines, g) = Item(f, l, g) \o ExpandedBy(f, lines, g)
         /\ ExpandedBy(f, lines, g) \in Seq(Text)
         /\ ExpandedBy(f, <<>>, g) = <<>>
<1> DEFINE G == [line \in Text |-> Item(f, line, g)]
           all == <<l>> \o lines
           items == Mapped(G, lines)
<1>1. \A line \in Text : SourcesIn(f, Sourced(line)) => g[Sourced(line)[2]] \in Seq(Text)
  BY DEF SourcesIn
<1>2. G \in [Text -> Seq(Text)]
  BY <1>1, ItemType
<1>3. /\ DOMAIN lines = 1..Len(lines) /\ Len(lines) \in Nat
      /\ \A k \in DOMAIN lines : lines[k] \in Text
  BY LenProperties
<1>4. all \in Seq(Text)
  BY One, ConcatProperties
<1>5. \A k \in DOMAIN all : all[k] \in Text
  <2> HIDE DEF all
  <2> QED
    BY <1>4, LenProperties, ElementOfSeq
<1>6. ExpandedBy(f, lines, g) = FlattenSeq(items)
  <2>1. [k \in DOMAIN lines |-> Item(f, lines[k], g)] = items
    BY <1>3 DEF Mapped
  <2> QED
    BY <2>1 DEF ExpandedBy
<1>7. ExpandedBy(f, all, g) = FlattenSeq(Mapped(G, all))
  <2> HIDE DEF all
  <2>1. [k \in DOMAIN all |-> Item(f, all[k], g)] = Mapped(G, all)
    BY <1>5 DEF Mapped
  <2> QED
    BY <2>1 DEF ExpandedBy
<1>8. G[l] = Item(f, l, g)
  OBVIOUS
<1> HIDE DEF G
<1>9. items \in Seq(Seq(Text)) /\ Mapped(G, all) = <<G[l]>> \o items
  <2>1. Maps(G, Text, Seq(Text))
    BY <1>2 DEF Maps
  <2>2. Mapped(G, lines) \in Seq(Seq(Text))
    BY <2>1, MapCons, Zenon
  <2>3. MapsFirst(G, l, lines)
    BY <2>1, MapCons, Zenon
  <2> QED
    BY <2>2, <2>3 DEF MapsFirst
<1>10. G[l] \in Seq(Text)
  BY <1>2
<1> HIDE DEF all, items
<1>11. FlattenSeq(<<G[l]>> \o items) = G[l] \o FlattenSeq(items)
       /\ FlattenSeq(items) \in Seq(Text)
  BY <1>9, <1>10, FlattenCons, FlattenType
<1>12. ExpandedBy(f, <<>>, g) = <<>>
  <2>1. [k \in DOMAIN <<>> |-> Item(f, <<>>[k], g)] = <<>>
    OBVIOUS
  <2>2. FlattenSeq(<<>>) = <<>>
    BY DEF FlattenSeq
  <2> QED
    BY <2>1, <2>2 DEF ExpandedBy
<1> QED
  BY <1>6, <1>7, <1>8, <1>9, <1>11, <1>12 DEF all

\* The words of line k of a file of f, and what the files of f expand to.
SourceOf(f, name, k) == Sourced(Console!Lines(f[name])[k])
ExpansionOf(f) == CHOOSE g : g = [name \in DOMAIN f |-> ExpandedBy(f, Console!Lines(f[name]), g)]

\* No file of f sources itself, through others or not: rank[name] is how deep it may get.
Ranks(f, rank, depth) ==
  /\ rank \in [DOMAIN f -> 0..depth]
  /\ \A name \in DOMAIN f : \A k \in DOMAIN Console!Lines(f[name]) :
       SourcesIn(f, SourceOf(f, name, k)) => rank[SourceOf(f, name, k)[2]] < rank[name]

\* Files can be expanded in the order of their ranks.
LEMMA ExpansionsExist ==
  ASSUME NEW f, NEW rank, NEW depth \in Nat, Ranks(f, rank, depth)
  PROVE  \E g : g = [name \in DOMAIN f |-> ExpandedBy(f, Console!Lines(f[name]), g)]
<1> DEFINE D(m) == {name \in DOMAIN f : rank[name] < m}
           Is(g, m) == g = [name \in D(m) |-> ExpandedBy(f, Console!Lines(f[name]), g)]
           T == {m \in Nat : \E g : Is(g, m)}
<1>1. \A name \in DOMAIN f : rank[name] \in 0..depth
  BY DEF Ranks
<1>2. \A name \in DOMAIN f : \A k \in DOMAIN Console!Lines(f[name]) :
        LET argv == Sourced(Console!Lines(f[name])[k])
        IN  SourcesIn(f, argv) => argv[2] \in DOMAIN f /\ rank[argv[2]] < rank[name]
  BY DEF Ranks, SourceOf, SourcesIn
<1>3. 0 \in T
  <2> DEFINE g == [name \in {} |-> 0]
  <2>1. D(0) = {}
    BY <1>1
  <2> HIDE DEF D
  <2>2. Is(g, 0)
    BY <2>1
  <2> QED
    BY <2>2
<1>4. ASSUME NEW m \in Nat, m \in T
      PROVE  m + 1 \in T
  <2>1. PICK g : Is(g, m)
    BY <1>4
  <2> DEFINE h == [name \in D(m + 1) |-> ExpandedBy(f, Console!Lines(f[name]), g)]
  <2>2. D(m) \subseteq D(m + 1)
    BY <1>1
  <2>3. ASSUME NEW name \in D(m)
        PROVE  h[name] = g[name]
    <3>1. g = [x \in D(m) |-> ExpandedBy(f, Console!Lines(f[x]), g)]
      BY <2>1
    <3> HIDE DEF D
    <3>2. g[name] = ExpandedBy(f, Console!Lines(f[name]), g)
      BY <3>1
    <3>3. h[name] = ExpandedBy(f, Console!Lines(f[name]), g)
      BY <2>2
    <3> QED
      BY <3>2, <3>3
  <2> HIDE DEF h
  <2>4. ASSUME NEW name \in D(m + 1)
        PROVE  ExpandedBy(f, Console!Lines(f[name]), g) = ExpandedBy(f, Console!Lines(f[name]), h)
    <3> DEFINE lines == Console!Lines(f[name])
    <3>1. ASSUME NEW k \in DOMAIN lines, SourcesIn(f, Sourced(lines[k]))
          PROVE  g[Sourced(lines[k])[2]] = h[Sourced(lines[k])[2]]
      <4> DEFINE x == Sourced(lines[k])[2]
      <4>1. x \in DOMAIN f /\ rank[x] < rank[name] /\ rank[name] < m + 1 /\ name \in DOMAIN f
        BY <1>2, <3>1
      <4> HIDE DEF x
      <4>2. x \in D(m)
        BY <1>1, <4>1
      <4> QED
        BY <2>3, <4>2 DEF x
    <3> HIDE DEF lines
    <3>2. ExpandedBy(f, lines, g) = ExpandedBy(f, lines, h)
      BY <3>1, ExpandedSame
    <3> QED
      BY <3>2 DEF lines
  <2>5. h = [name \in D(m + 1) |-> ExpandedBy(f, Console!Lines(f[name]), h)]
    <3> HIDE DEF D
    <3> QED
      BY <2>4 DEF h
  <2>6. Is(h, m + 1)
    BY <2>5
  <2> HIDE DEF Is
  <2> QED
    BY <2>6
<1> HIDE DEF T
<1>5. depth + 1 \in T
  BY <1>3, <1>4, AllNumbers
<1>6. D(depth + 1) = DOMAIN f
  <2>1. \A name \in DOMAIN f : rank[name] < depth + 1
    BY <1>1
  <2> QED
    BY <2>1
<1>7. PICK g : Is(g, depth + 1)
  BY <1>5 DEF T
<1>8. g = [name \in DOMAIN f |-> ExpandedBy(f, Console!Lines(f[name]), g)]
  <2> HIDE DEF D
  <2> QED
    BY <1>6, <1>7
<1> QED
  BY <1>8

\* Each file expands to its lines, each followed by what it sources.
LEMMA ExpansionIs ==
  ASSUME NEW f, NEW rank, NEW depth \in Nat, Ranks(f, rank, depth),
         \A name \in DOMAIN f : f[name] \in Text
  PROVE  \A name \in DOMAIN f :
           /\ ExpansionOf(f)[name] = ExpandedBy(f, Console!Lines(f[name]), ExpansionOf(f))
           /\ ExpansionOf(f)[name] \in Seq(Text)
<1> DEFINE Is(g) == g = [name \in DOMAIN f |-> ExpandedBy(f, Console!Lines(f[name]), g)]
           e == ExpansionOf(f)
<1>1. \E g : Is(g)
  BY ExpansionsExist
<1>2. e = CHOOSE g : Is(g)
  BY DEF ExpansionOf
<1> HIDE DEF Is, e
<1>3. Is(e)
  BY <1>1, <1>2
<1>4. \A name \in DOMAIN f : e[name] = ExpandedBy(f, Console!Lines(f[name]), e)
  BY <1>3 DEF Is
<1>5. \A name \in DOMAIN f : rank[name] \in 0..depth
  BY DEF Ranks
<1>6. \A name \in DOMAIN f : \A k \in DOMAIN Console!Lines(f[name]) :
        LET argv == Sourced(Console!Lines(f[name])[k])
        IN  SourcesIn(f, argv) => argv[2] \in DOMAIN f /\ rank[argv[2]] < rank[name]
  BY DEF Ranks, SourceOf, SourcesIn
<1> DEFINE T == {m \in Nat : \A name \in DOMAIN f : rank[name] < m => e[name] \in Seq(Text)}
<1>7. 0 \in T
  BY <1>5
<1>8. ASSUME NEW m \in Nat, m \in T
      PROVE  m + 1 \in T
  <2> SUFFICES ASSUME NEW name \in DOMAIN f, rank[name] < m + 1
               PROVE  e[name] \in Seq(Text)
    OBVIOUS
  <2> DEFINE lines == Console!Lines(f[name])
  <2>1. ASSUME NEW k \in DOMAIN lines, SourcesIn(f, Sourced(lines[k]))
        PROVE  e[Sourced(lines[k])[2]] \in Seq(Text)
    <3> DEFINE x == Sourced(lines[k])[2]
    <3>1. x \in DOMAIN f /\ rank[x] < rank[name]
      BY <1>6, <2>1
    <3> HIDE DEF x
    <3>2. rank[x] < m
      BY <1>5, <3>1
    <3>3. e[x] \in Seq(Text)
      BY <1>8, <3>1, <3>2
    <3> QED
      BY <3>3 DEF x
  <2>2. lines \in Seq(Text)
    BY LinesSplit
  <2>3. e[name] = ExpandedBy(f, lines, e)
    BY <1>4
  <2> HIDE DEF lines
  <2>4. ExpandedBy(f, lines, e) \in Seq(Text)
    BY <2>1, <2>2, ExpandedType
  <2> QED
    BY <2>3, <2>4
<1> HIDE DEF T
<1>9. depth + 1 \in T
  BY <1>7, <1>8, AllNumbers
<1>10. \A name \in DOMAIN f : e[name] \in Seq(Text)
  BY <1>5, <1>9 DEF T
<1> QED
  BY <1>4, <1>10 DEF e

\* What the frames of a stack expand to, top first.
HoldOf(f, stack) ==
  FlattenSeq([k \in DOMAIN stack |-> ExpandedBy(f, Console!Lines(Held(stack[k])), ExpansionOf(f))])

\* What one of them expands to.
FrameOf(f, frame) == ExpandedBy(f, Console!Lines(Held(frame)), ExpansionOf(f))

\* What the top file holds comes first.
LEMMA HoldCons ==
  ASSUME NEW f, NEW frame \in Frames, NEW stack \in Seq(Frames),
         \A name \in DOMAIN f : ExpansionOf(f)[name] \in Seq(Text)
  PROVE  /\ FrameOf(f, frame) \in Seq(Text)
         /\ HoldOf(f, stack) \in Seq(Text)
         /\ HoldOf(f, <<>>) = <<>>
         /\ HoldOf(f, <<frame>> \o stack) = FrameOf(f, frame) \o HoldOf(f, stack)
<1> DEFINE G == [fr \in Frames |-> FrameOf(f, fr)]
           all == <<frame>> \o stack
           items == Mapped(G, stack)
<1>1. ASSUME NEW fr \in Frames
      PROVE  FrameOf(f, fr) \in Seq(Text)
  <2>1. Held(fr) \in Text
    <3>1. fr.buf \in Seq(Characters) /\ fr.rest \in Seq(Characters)
      BY DEF Frames, Text
    <3>2. fr.buf \o fr.rest \in Seq(Characters)
      BY <3>1, ConcatProperties
    <3> QED
      BY <3>2 DEF Held, Text
  <2>2. Console!Lines(Held(fr)) \in Seq(Text)
    BY <2>1, LinesSplit
  <2>3. ExpandedBy(f, Console!Lines(Held(fr)), ExpansionOf(f)) \in Seq(Text)
    BY <2>2, ExpandedType DEF SourcesIn
  <2> QED
    BY <2>3 DEF FrameOf
<1>2. G \in [Frames -> Seq(Text)]
  BY <1>1
<1>3. \A k \in DOMAIN stack : stack[k] \in Frames
  BY LenProperties, ElementOfSeq
<1>4. all \in Seq(Frames)
  BY One, ConcatProperties
<1>5. \A k \in DOMAIN all : all[k] \in Frames
  <2> HIDE DEF all
  <2> QED
    BY <1>4, LenProperties, ElementOfSeq
<1>6. HoldOf(f, stack) = FlattenSeq(items)
  <2>1. [k \in DOMAIN stack |-> FrameOf(f, stack[k])] = items
    BY <1>3 DEF Mapped
  <2> QED
    BY <2>1 DEF HoldOf, FrameOf
<1>7. HoldOf(f, all) = FlattenSeq(Mapped(G, all))
  <2> HIDE DEF all
  <2>1. [k \in DOMAIN all |-> FrameOf(f, all[k])] = Mapped(G, all)
    BY <1>5 DEF Mapped
  <2> QED
    BY <2>1 DEF HoldOf, FrameOf
<1>8. G[frame] = FrameOf(f, frame)
  OBVIOUS
<1> HIDE DEF G
<1>9. items \in Seq(Seq(Text)) /\ Mapped(G, all) = <<G[frame]>> \o items
  <2>1. Maps(G, Frames, Seq(Text))
    BY <1>2 DEF Maps
  <2>2. Mapped(G, stack) \in Seq(Seq(Text))
    BY <2>1, MapCons, Zenon
  <2>3. MapsFirst(G, frame, stack)
    BY <2>1, MapCons, Zenon
  <2> QED
    BY <2>2, <2>3 DEF MapsFirst
<1>10. G[frame] \in Seq(Text)
  BY <1>2
<1> HIDE DEF all, items
<1>11. FlattenSeq(<<G[frame]>> \o items) = G[frame] \o FlattenSeq(items)
       /\ FlattenSeq(items) \in Seq(Text)
  BY <1>9, <1>10, FlattenCons, FlattenType
<1>12. HoldOf(f, <<>>) = <<>>
  <2>1. [k \in DOMAIN <<>> |-> ExpandedBy(f, Console!Lines(Held(<<>>[k])), ExpansionOf(f))] = <<>>
    OBVIOUS
  <2>2. FlattenSeq(<<>>) = <<>>
    BY DEF FlattenSeq
  <2> QED
    BY <2>1, <2>2 DEF HoldOf
<1> QED
  BY <1>1, <1>6, <1>7, <1>8, <1>9, <1>11, <1>12 DEF all

-----------------------------------------------------------------------------
(* The steps. *)

\* Sourcing comes to an end: a file that sources itself has no expansion.
ConsoleAssumption ==
  /\ Typed
  /\ \A f \in Scripts : \E depth \in Nat : \E rank : Ranks(f, rank, depth)

\* done, and what con still holds, is the script of the files f.
OrderOf(f, con, done) ==
  IF con.quit_flag THEN IsPrefix(done, ExpansionOf(f)[Main])
  ELSE done \o HoldOf(f, con.buf_stack) = ExpansionOf(f)[Main]

\* The first of two parts is a prefix.
LEMMA Prefix ==
  ASSUME NEW S, NEW a \in Seq(S), NEW b \in Seq(S)
  PROVE  IsPrefix(a, a \o b)
<1>1. /\ Len(a) \in Nat /\ Len(b) \in Nat /\ DOMAIN a = 1..Len(a)
      /\ a \o b \in Seq(S) /\ Len(a \o b) = Len(a) + Len(b)
      /\ \A i \in 1..Len(a)+Len(b) : (a \o b)[i] = IF i <= Len(a) THEN a[i] ELSE b[i - Len(a)]
  BY LenProperties, ConcatProperties
<1> DEFINE d == a \o b
<1>2. DOMAIN d = 1..Len(d)
  BY <1>1, LenProperties
<1> HIDE DEF d
<1>3. DOMAIN a \subseteq DOMAIN d
  BY <1>1, <1>2 DEF d
<1>4. \A i \in DOMAIN a : a[i] = d[i]
  BY <1>1 DEF d
<1>5. IsPrefix(a, d)
  BY <1>3, <1>4 DEF IsPrefix
<1> QED
  BY <1>5 DEF d

\* The expansion of every file of a script, and of a file just opened.
LEMMA Expansions ==
  ASSUME ConsoleAssumption, NEW f \in Scripts
  PROVE  /\ Main \in DOMAIN f
         /\ \A name \in DOMAIN f :
              /\ ExpansionOf(f)[name] \in Seq(Text)
              /\ f[name] \in Text
              /\ FrameOf(f, [rest |-> f[name], buf |-> <<>>]) = ExpansionOf(f)[name]
<1>1. Main \in DOMAIN f /\ \A name \in DOMAIN f : f[name] \in Text
  BY DEF ConsoleAssumption, Typed
<1>2. PICK depth \in Nat : \E rank : Ranks(f, rank, depth)
  BY DEF ConsoleAssumption
<1>3. PICK rank : Ranks(f, rank, depth)
  BY <1>2
<1>4. \A name \in DOMAIN f :
        /\ ExpansionOf(f)[name] = ExpandedBy(f, Console!Lines(f[name]), ExpansionOf(f))
        /\ ExpansionOf(f)[name] \in Seq(Text)
  BY <1>1, <1>3, ExpansionIs
<1>5. ASSUME NEW name \in DOMAIN f
      PROVE  FrameOf(f, [rest |-> f[name], buf |-> <<>>]) = ExpansionOf(f)[name]
  <2> DEFINE fr == [rest |-> f[name], buf |-> <<>>]
  <2>1. Held(fr) = <<>> \o f[name]
    BY DEF Held
  <2>2. <<>> \o f[name] = f[name]
    BY <1>1, ConcatEmptySeq DEF Text
  <2> HIDE DEF fr
  <2>3. FrameOf(f, fr) = ExpandedBy(f, Console!Lines(f[name]), ExpansionOf(f))
    BY <2>1, <2>2 DEF FrameOf
  <2> QED
    BY <1>4, <2>3 DEF fr
<1> QED
  BY <1>1, <1>4, <1>5

\* What the stack held is the line taken, what it sources, and what is left.
LEMMA Takes ==
  ASSUME ConsoleAssumption, NEW f \in Scripts, NEW con \in Consoles,
         con.buf_stack # <<>>, NEW r \in Console!readline(con)
  PROVE  /\ r.con.buf_stack \in Seq(Frames)
         /\ HoldOf(f, r.con.buf_stack) \in Seq(Text)
         /\ HoldOf(f, con.buf_stack) \in Seq(Text)
         /\ r.line = <<>> => HoldOf(f, con.buf_stack) = HoldOf(f, r.con.buf_stack)
         /\ r.line # <<>> =>
              /\ r.line[1] \in Text
              /\ HoldOf(f, con.buf_stack)
                   = Item(f, r.line[1], ExpansionOf(f)) \o HoldOf(f, r.con.buf_stack)
<1> DEFINE stack == con.buf_stack
           top == Head(stack)
           t == Tail(stack)
           text == Held(top)
           e == ExpansionOf(f)
           H(s) == HoldOf(f, s)
<1>1. stack \in Seq(Frames) /\ stack # <<>>
  BY DEF Consoles
<1>2. top \in Frames /\ t \in Seq(Frames) /\ stack = <<top>> \o t
  BY <1>1, Stacked
<1>3. Typed /\ \A name \in DOMAIN f : e[name] \in Seq(Text)
  BY Expansions DEF ConsoleAssumption
<1>4. /\ r.con \in Consoles
      /\ \/ /\ text = <<>> /\ r.line = <<>>
            /\ r.con.buf_stack = t
         \/ /\ text # <<>>
            /\ r.line = <<Console!FirstLine(text)>>
            /\ \/ /\ Others(text) = <<>>
                  /\ r.con.buf_stack = t
               \/ \E left \in Frames :
                    /\ Held(left) = Others(text)
                    /\ r.con.buf_stack = <<left>> \o t
  BY <1>3, Reads
<1> HIDE DEF top, t, text, e, stack
<1>5. text \in Text
  <2>1. top.buf \in Seq(Characters) /\ top.rest \in Seq(Characters)
    BY <1>2 DEF Frames, Text
  <2>2. top.buf \o top.rest \in Seq(Characters)
    BY <2>1, ConcatProperties
  <2> QED
    BY <2>2 DEF text, Held, Text
<1>6. \A name \in DOMAIN f : ExpansionOf(f)[name] \in Seq(Text)
  BY <1>3 DEF e
<1>7. H(stack) = FrameOf(f, top) \o H(t) /\ H(t) \in Seq(Text) /\ FrameOf(f, top) \in Seq(Text)
  BY <1>2, <1>6, HoldCons
<1>8. FrameOf(f, top) = ExpandedBy(f, Console!Lines(text), e)
  BY DEF FrameOf, text, e
<1>9. ExpandedBy(f, <<>>, e) = <<>>
  <2>1. <<>> \in Seq(Text) /\ <<>> \in Text
    BY EmptySeq DEF Text
  <2> QED
    BY <1>3, <2>1, ExpandedCons
<1>10. r.con.buf_stack \in Seq(Frames)
  BY <1>4 DEF Consoles
<1>11. H(r.con.buf_stack) \in Seq(Text)
  BY <1>2, <1>6, <1>10, HoldCons
<1>12. H(stack) \in Seq(Text)
  BY <1>7, ConcatProperties
<1>13. CASE text = <<>>
  <2>1. Console!Lines(text) = <<>>
    BY <1>5, <1>13, LinesSplit
  <2>2. H(stack) = <<>> \o H(t)
    BY <1>7, <1>8, <1>9, <2>1
  <2>3. H(stack) = H(t)
    BY <1>7, <2>2, ConcatEmptySeq
  <2>4. r.line = <<>> /\ r.con.buf_stack = t
    BY <1>4, <1>13
  <2> QED
    BY <1>10, <1>11, <1>12, <2>3, <2>4 DEF stack
<1>14. CASE text # <<>>
  <2> DEFINE l == Console!FirstLine(text)
             others == Others(text)
             rest == H(r.con.buf_stack)
             more == ExpandedBy(f, Console!Lines(others), e)
  <2>1. l \in Text /\ others \in Text
    BY <1>5, <1>14, LineTypes
  <2>2. Console!Lines(text) = <<l>> \o Console!Lines(others) /\ Console!Lines(others) \in Seq(Text)
    BY <1>5, <1>14, <2>1, LinesSplit
  <2>3. r.line = <<l>> /\ r.line # <<>> /\ r.line[1] = l
    <3>1. r.line = <<l>>
      BY <1>4, <1>14
    <3> HIDE DEF l
    <3>2. <<l>>[1] = l /\ <<l>> # <<>>
      OBVIOUS
    <3> QED
      BY <3>1, <3>2
  <2> HIDE DEF l, others
  <2>4. FrameOf(f, top) = Item(f, l, e) \o more /\ more \in Seq(Text)
    <3> DEFINE lines == Console!Lines(others)
    <3> HIDE DEF lines
    <3>1. lines \in Seq(Text) /\ Console!Lines(text) = <<l>> \o lines
      BY <2>2 DEF lines
    <3>2. ExpandedBy(f, <<l>> \o lines, e) = Item(f, l, e) \o ExpandedBy(f, lines, e)
          /\ ExpandedBy(f, lines, e) \in Seq(Text)
      BY <1>3, <2>1, <3>1, ExpandedCons
    <3> QED
      BY <1>8, <3>1, <3>2 DEF lines
  <2>5. rest = more \o H(t)
    <3>1. CASE others = <<>> /\ r.con.buf_stack = t
      <4>1. Console!Lines(others) = <<>>
        BY <2>1, <3>1, LinesSplit
      <4>2. more = <<>>
        BY <1>9, <4>1
      <4>3. <<>> \o H(t) = H(t)
        BY <1>7, ConcatEmptySeq
      <4> QED
        BY <3>1, <4>2, <4>3
    <3>2. CASE \E left \in Frames : Held(left) = others /\ r.con.buf_stack = <<left>> \o t
      <4>1. PICK left \in Frames : Held(left) = others /\ r.con.buf_stack = <<left>> \o t
        BY <3>2
      <4>2. H(<<left>> \o t) = FrameOf(f, left) \o H(t)
        BY <1>2, <1>6, HoldCons
      <4>3. FrameOf(f, left) = more
        BY <4>1 DEF FrameOf, e
      <4> QED
        BY <4>1, <4>2, <4>3
    <3> QED
      BY <1>4, <1>14, <3>1, <3>2 DEF others
  <2>6. Item(f, l, e) \in Seq(Text)
    BY <1>3, <2>1, ItemType DEF SourcesIn
  <2> HIDE DEF rest, more
  <2>7. H(stack) = Item(f, l, e) \o rest
    <3>1. (Item(f, l, e) \o more) \o H(t) = Item(f, l, e) \o (more \o H(t))
      BY <1>7, <2>4, <2>6, ConcatAssociative
    <3> QED
      BY <1>7, <2>4, <2>5, <3>1
  <2> QED
    BY <1>10, <1>11, <1>12, <2>1, <2>3, <2>7 DEF stack, rest, e
<1> QED
  BY <1>13, <1>14

\* The inductive invariant.
IInv ==
  /\ TypeInv
  /\ StatusInv
  /\ torn \/ OrderOf(files, console, interpreted)

\* A stack of one file.
LEMMA OneTop ==
  ASSUME ConsoleAssumption, NEW f \in Scripts, NEW frame \in Frames
  PROVE  HoldOf(f, <<frame>>) = FrameOf(f, frame)
<1>1. \A name \in DOMAIN f : ExpansionOf(f)[name] \in Seq(Text)
  BY Expansions
<1>2. <<>> \in Seq(Frames)
  BY EmptySeq
<1>3. /\ FrameOf(f, frame) \in Seq(Text) /\ HoldOf(f, <<>>) = <<>>
      /\ HoldOf(f, <<frame>> \o <<>>) = FrameOf(f, frame) \o HoldOf(f, <<>>)
  BY <1>1, <1>2, HoldCons
<1>4. FrameOf(f, frame) \o <<>> = FrameOf(f, frame)
  BY <1>3, ConcatEmptySeq
<1>5. <<frame>> \o <<>> = <<frame>>
  BY One, ConcatEmptySeq
<1> QED
  BY <1>3, <1>4, <1>5

\* init_cmd and the first push_file leave the whole script to come.
LEMMA InitInv == ConsoleAssumption /\ Console!Init => IInv
<1> SUFFICES ASSUME ConsoleAssumption, Console!Init
             PROVE  IInv
  OBVIOUS
<1> DEFINE opened == Console!Opened(Main)
<1>1. files \in Scripts /\ Typed
  BY DEF Console!Init, ConsoleAssumption
<1>2. /\ Main \in DOMAIN files /\ ExpansionOf(files)[Main] \in Seq(Text)
      /\ files[Main] \in Text
      /\ FrameOf(files, [rest |-> files[Main], buf |-> <<>>]) = ExpansionOf(files)[Main]
  BY <1>1, Expansions
<1>3. opened = [rest |-> files[Main], buf |-> <<>>]
  BY DEF Console!Opened
<1>4. opened \in Frames
  <2>1. <<>> \in Text
    BY EmptySeq DEF Text
  <2> QED
    BY <1>2, <1>3, <2>1 DEF Frames
<1> HIDE DEF opened
<1>5. /\ console = [buf_stack |-> IF torn THEN <<>> ELSE <<opened>>, err_cnt |-> 0,
                       err_limit |-> DefaultLimit, quit_flag |-> FALSE, helped |-> <<>>]
      /\ interpreted = <<>> /\ failures = 0 /\ torn \in BOOLEAN
      /\ status = IF torn THEN 1 ELSE Console!Running
  BY DEF Console!Init, opened
<1>6. <<opened>> \in Seq(Frames) /\ <<>> \in Seq(BOOLEAN) /\ <<>> \in Seq(Text) /\ <<>> \in Seq(Frames)
  BY <1>4, One, EmptySeq
<1>7. TypeInv
  <2>1. (IF torn THEN <<>> ELSE <<opened>>) \in Seq(Frames)
    BY <1>6
  <2> QED
    BY <1>1, <1>5, <1>6, <2>1 DEF TypeInv, Consoles, Typed
<1>8. StatusInv
  <2>1. /\ console.err_cnt = 0 /\ console.quit_flag = FALSE /\ console.helped = <<>>
        /\ ~(failures > 0)
    BY <1>5
  <2>2. status \in {Console!Running, 1} /\ status # 0
    BY <1>5 DEF Console!Running
  <2> QED
    BY <2>1, <2>2 DEF StatusInv
<1>9. torn \/ OrderOf(files, console, interpreted)
  <2> SUFFICES ASSUME ~torn PROVE OrderOf(files, console, interpreted)
    OBVIOUS
  <2>1. HoldOf(files, <<opened>>) = ExpansionOf(files)[Main]
    BY <1>1, <1>2, <1>3, <1>4, OneTop
  <2>2. <<>> \o ExpansionOf(files)[Main] = ExpansionOf(files)[Main]
    BY <1>2, ConcatEmptySeq
  <2>3. console.quit_flag = FALSE /\ console.buf_stack = <<opened>>
    BY <1>5
  <2> QED
    BY <1>5, <2>1, <2>2, <2>3 DEF OrderOf
<1> QED
  BY <1>7, <1>8, <1>9 DEF IInv

\* The line and the stack that a read that fails leaves.
LEMMA Fails ==
  ASSUME NEW con \in Consoles, con.buf_stack # <<>>, NEW r \in Console!readline_fails(con)
  PROVE  /\ r.con \in Consoles /\ r.con = [con EXCEPT !.buf_stack = r.con.buf_stack]
         /\ r.line # <<>> => r.line[1] \in Text
<1> DEFINE top == Head(con.buf_stack)
           text == top.buf \o top.rest
           had == {n \in Len(top.buf)..Len(text)-1 :
                     n < Console!LineLimit /\ \A k \in 1..n : text[k] # Console!Newline}
           out(n) == [line |-> IF n = 0 THEN <<>> ELSE <<SubSeq(text, 1, n)>>, con |-> Console!pop_file(con)]
<1>1. con.buf_stack \in Seq(Frames)
  BY DEF Consoles
<1>2. top \in Frames /\ Tail(con.buf_stack) \in Seq(Frames)
  BY <1>1, Stacked
<1>3. text \in Seq(Characters) /\ Len(top.buf) \in Nat /\ Len(text) \in Nat
  <2>1. top.buf \in Seq(Characters) /\ top.rest \in Seq(Characters)
    BY <1>2 DEF Frames, Text
  <2>2. text \in Seq(Characters)
    <3> HIDE DEF top
    <3> QED
      BY <2>1, ConcatProperties
  <2> HIDE DEF top, text
  <2> QED
    BY <2>1, <2>2, LenProperties
<1>4. PICK n \in had : r = out(n)
  BY DEF Console!readline_fails
<1> HIDE DEF top, text
<1>5. n \in Nat /\ n <= Len(text)
  BY <1>3
<1>6. SubSeq(text, 1, n) \in Text
  <2>1. \A i \in 1..n : text[i] \in Characters
    BY <1>3, <1>5, LenProperties
  <2> QED
    BY <1>3, <1>5, <2>1, SubSeqProperties DEF Text
<1>7. r.line # <<>> => r.line[1] \in Text
  BY <1>4, <1>6
<1>8. r.con = [con EXCEPT !.buf_stack = Tail(con.buf_stack)]
  BY <1>4 DEF Console!pop_file
<1>9. r.con \in Consoles /\ r.con.buf_stack = Tail(con.buf_stack)
  BY <1>2, <1>8 DEF Consoles
<1> QED
  BY <1>7, <1>8, <1>9

\* One line more, interpreted or stopped.
LEMMA OrderKept ==
  ASSUME ConsoleAssumption, NEW f \in Scripts, NEW con \in Consoles, NEW done \in Seq(Text),
         ~con.quit_flag, OrderOf(f, con, done), con.buf_stack # <<>>,
         NEW r \in Console!readline(con), r.line # <<>>, NEW d \in Consoles,
         \/ d.quit_flag
         \/ d.buf_stack = IF SourcesIn(f, Sourced(r.line[1]))
                          THEN <<[rest |-> f[Sourced(r.line[1])[2]], buf |-> <<>>]>> \o r.con.buf_stack
                          ELSE r.con.buf_stack
  PROVE  OrderOf(f, d, Append(done, r.line[1])) /\ Append(done, r.line[1]) \in Seq(Text)
<1> DEFINE l == r.line[1]
           e == ExpansionOf(f)
           script == e[Main]
           argv == Sourced(l)
           rest == HoldOf(f, r.con.buf_stack)
           more == IF SourcesIn(f, argv) THEN e[argv[2]] ELSE <<>>
           now == done \o <<l>>
<1>1. /\ r.con.buf_stack \in Seq(Frames) /\ rest \in Seq(Text) /\ l \in Text
      /\ HoldOf(f, con.buf_stack) = Item(f, l, e) \o rest
  BY Takes
<1>2. done \o HoldOf(f, con.buf_stack) = script
  BY DEF OrderOf
<1>3. \A name \in DOMAIN f :
        /\ e[name] \in Seq(Text) /\ f[name] \in Text
        /\ FrameOf(f, [rest |-> f[name], buf |-> <<>>]) = e[name]
  BY Expansions
<1>4. more \in Seq(Text)
  BY <1>3, EmptySeq DEF SourcesIn
<1>5. Item(f, l, e) = <<l>> \o more
  BY DEF Item
<1> HIDE DEF more, l, rest, e, argv
<1>6. <<l>> \in Seq(Text)
  BY <1>1, One
<1>7. Append(done, l) = now /\ now \in Seq(Text)
  BY <1>1, <1>6, AppendIsConcat, ConcatProperties
<1>8. now \o (more \o rest) = script /\ more \o rest \in Seq(Text)
  <2>1. more \o rest \in Seq(Text)
    BY <1>1, <1>4, ConcatProperties
  <2>2. (<<l>> \o more) \o rest = <<l>> \o (more \o rest)
    BY <1>1, <1>4, <1>6, ConcatAssociative
  <2>3. now \o (more \o rest) = done \o (<<l>> \o (more \o rest))
    BY <1>6, <2>1, ConcatAssociative
  <2> QED
    BY <1>1, <1>2, <1>5, <2>1, <2>2, <2>3
<1> HIDE DEF now, script
<1>9. CASE d.quit_flag
  <2>1. IsPrefix(now, now \o (more \o rest))
    BY <1>7, <1>8, Prefix
  <2> QED
    BY <1>7, <1>8, <1>9, <2>1 DEF OrderOf, l, script, e
<1>10. CASE ~d.quit_flag
  <2>1. HoldOf(f, d.buf_stack) = more \o rest
    <3>1. CASE SourcesIn(f, argv)
      <4> DEFINE fr == [rest |-> f[argv[2]], buf |-> <<>>]
      <4>1. d.buf_stack = <<fr>> \o r.con.buf_stack
        BY <1>10, <3>1 DEF argv, l
      <4>2. argv[2] \in DOMAIN f
        BY <3>1 DEF SourcesIn
      <4>3. fr \in Frames
        <5>1. <<>> \in Text
          BY EmptySeq DEF Text
        <5> QED
          BY <1>3, <4>2, <5>1 DEF Frames
      <4>4. FrameOf(f, fr) = more
        BY <1>3, <3>1, <4>2 DEF more
      <4> HIDE DEF fr
      <4>5. HoldOf(f, <<fr>> \o r.con.buf_stack) = FrameOf(f, fr) \o rest
        BY <1>1, <1>3, <4>3, HoldCons DEF e, rest
      <4> QED
        BY <4>1, <4>4, <4>5
    <3>2. CASE ~SourcesIn(f, argv)
      <4>1. d.buf_stack = r.con.buf_stack
        BY <1>10, <3>2 DEF argv, l
      <4>2. more = <<>> /\ <<>> \o rest = rest
        BY <1>1, <3>2, ConcatEmptySeq DEF more
      <4> QED
        BY <4>1, <4>2 DEF rest
    <3> QED
      BY <3>1, <3>2
  <2> QED
    BY <1>7, <1>8, <1>10, <2>1 DEF OrderOf, l, script, e
<1>11. OrderOf(f, d, Append(done, l))
  BY <1>9, <1>10 DEF l
<1> QED
  BY <1>7, <1>11 DEF l

\* A turn of cmd_select: a file that ends, a line not interpreted, or one that is.
LEMMA SelectInv ==
  ASSUME ConsoleAssumption, IInv, Console!cmd_select
  PROVE  IInv'
<1>1. /\ files \in Scripts /\ console \in Consoles /\ failures \in Nat /\ interpreted \in Seq(Text)
      /\ Typed
  BY DEF IInv, TypeInv, ConsoleAssumption
<1>2. /\ status = Console!Running /\ files' = files /\ status' = status
  BY DEF Console!cmd_select
<1>3. console.buf_stack # <<>>
  BY DEF Console!cmd_select, Console!read_ready, Console!cmd_done
<1>0. PICK r : /\ \/ torn' = torn /\ r \in Console!readline(console)
                  \/ torn' = TRUE /\ r \in Console!readline_fails(console)
               /\ Console!interpret_cmd(r)
  BY DEF Console!cmd_select
<1>4. IF r.line = <<>> \/ console.quit_flag
      THEN console' = r.con /\ UNCHANGED <<interpreted, failures>>
      ELSE /\ interpreted' = Append(interpreted, r.line[1])
           /\ \E o \in Console!interpret_cmda(r.con, Console!parse_args(r.line[1])) :
                console' = o.con /\ failures' = failures + (IF o.ok THEN 0 ELSE 1)
  BY <1>0 DEF Console!interpret_cmd
<1>5. r.con \in Consoles /\ r.con = [console EXCEPT !.buf_stack = r.con.buf_stack]
  BY <1>0, <1>1, <1>3, Reads, Fails
<1>10. torn' \in BOOLEAN /\ (~torn' => ~torn /\ r \in Console!readline(console))
  <2>1. torn \in BOOLEAN
    BY DEF IInv, TypeInv
  <2>2. CASE torn' = torn /\ r \in Console!readline(console)
    BY <2>1, <2>2, Zenon
  <2>3. CASE torn' = TRUE
    BY <2>3, Zenon
  <2> QED
    BY <1>0, <2>2, <2>3, Zenon
<1>6. /\ r.con.err_cnt = console.err_cnt /\ r.con.helped = console.helped
      /\ r.con.quit_flag = console.quit_flag
  <2>1. console = [buf_stack |-> console.buf_stack, err_cnt |-> console.err_cnt, err_limit |-> console.err_limit,
             quit_flag |-> console.quit_flag, helped |-> console.helped]
    BY <1>1 DEF Consoles
  <2> QED
    BY <1>5, <2>1
<1>7. /\ ~torn' /\ r.line = <<>> => HoldOf(files, console.buf_stack) = HoldOf(files, r.con.buf_stack)
      /\ r.line # <<>> => r.line[1] \in Text
  BY <1>0, <1>1, <1>3, <1>10, Takes, Fails
<1>8. CASE r.line = <<>> \/ console.quit_flag
  <2>1. console' = r.con /\ interpreted' = interpreted /\ failures' = failures
    BY <1>4, <1>8
  <2>2. TypeInv'
    BY <1>1, <1>2, <1>5, <1>10, <2>1 DEF TypeInv
  <2>3. StatusInv'
    BY <1>2, <1>6, <2>1 DEF IInv, StatusInv
  <2>4. ~torn' => OrderOf(files, console, interpreted)
    BY <1>10 DEF IInv
  <2>5. ~torn' => OrderOf(files, r.con, interpreted)
    BY <1>6, <1>7, <1>8, <2>4 DEF OrderOf
  <2>6. torn' \/ OrderOf(files', console', interpreted')
    BY <1>2, <2>1, <2>5
  <2> QED
    BY <2>2, <2>3, <2>6 DEF IInv
<1>9. CASE ~(r.line = <<>> \/ console.quit_flag)
  <2> DEFINE l == r.line[1]
             argv == Console!parse_args(l)
             d == r.con
  <2>1. PICK o \in Console!interpret_cmda(d, argv) :
          console' = o.con /\ failures' = failures + (IF o.ok THEN 0 ELSE 1)
    BY <1>4, <1>9
  <2>2. interpreted' = Append(interpreted, l)
    BY <1>4, <1>9
  <2>3. argv \in Text
    BY <1>7, <1>9, Arguments
  <2> HIDE DEF argv, d
  <2>4. /\ o.con \in Consoles /\ o.ok \in BOOLEAN
        /\ o.con.err_cnt >= d.err_cnt
        /\ ~o.ok => o.con.err_cnt > 0
        /\ \/ /\ o.con.quit_flag
              /\ o.con.helped = Append(d.helped, o.ok)
           \/ /\ o.con.quit_flag => d.quit_flag \/ o.con.err_cnt > 0
              /\ d.quit_flag => o.con.quit_flag
              /\ o.con.helped = d.helped
              /\ o.con.buf_stack = IF SourcesIn(files, Console!Command(argv))
                                   THEN <<Console!Opened(Console!Command(argv)[2])>> \o d.buf_stack
                                   ELSE d.buf_stack
    BY <1>1, <1>5, <2>3, Interprets DEF d
  <2>5. torn' \/ OrderOf(files, o.con, Append(interpreted, l))
    <3> SUFFICES ASSUME ~torn' PROVE OrderOf(files, o.con, Append(interpreted, l))
      OBVIOUS
    <3>1. Console!Command(argv) = Sourced(l)
      BY DEF Sourced, argv
    <3>2. \/ o.con.quit_flag
          \/ o.con.buf_stack = IF SourcesIn(files, Sourced(l))
                               THEN <<[rest |-> files[Sourced(l)[2]], buf |-> <<>>]>> \o r.con.buf_stack
                               ELSE r.con.buf_stack
      BY <2>4, <3>1 DEF Console!Opened, d
    <3>3. OrderOf(files, console, interpreted) /\ r \in Console!readline(console)
      BY <1>10 DEF IInv
    <3> QED
      BY <1>1, <1>3, <1>9, <2>4, <3>2, <3>3, OrderKept
  <2>10. Append(interpreted, l) \in Seq(Text)
    BY <1>1, <1>7, <1>9, AppendProperties
  <2>6. failures' \in Nat /\ (o.ok => failures' = failures)
    BY <1>1, <2>1
  <2>7. TypeInv'
    BY <1>1, <1>2, <1>10, <2>1, <2>2, <2>4, <2>6, <2>10 DEF TypeInv
  <2>8. StatusInv'
    <3> DEFINE e == o.con
    <3>1. console' = e /\ status' = Console!Running
      BY <1>2, <2>1
    <3>2. d.err_cnt = console.err_cnt /\ d.helped = <<>> /\ ~d.quit_flag
      BY <1>6, <1>9 DEF IInv, StatusInv, d
    <3>3. console.err_cnt \in Nat /\ e.err_cnt \in Nat
      BY <1>1, <2>4 DEF Consoles
    <3>4. failures > 0 => console.err_cnt > 0
      BY DEF IInv, StatusInv
    <3> HIDE DEF e
    <3>5. failures' > 0 => e.err_cnt > 0
      <4>1. CASE o.ok
        BY <1>1, <2>4, <2>6, <3>2, <3>3, <3>4, <4>1 DEF e
      <4>2. CASE ~o.ok
        BY <2>4, <4>2 DEF e
      <4> QED
        BY <4>1, <4>2
    <3>6. /\ e.helped \in {<<>>, <<TRUE>>, <<FALSE>>}
          /\ e.helped # <<>> => e.quit_flag
          /\ e.quit_flag => e.err_cnt > 0 \/ e.helped = <<TRUE>>
      <4>1. CASE e.quit_flag /\ e.helped = Append(<<>>, o.ok)
        <5>1. e.helped = <<o.ok>>
          BY <4>1
        <5>2. CASE o.ok
          <6>1. e.helped = <<TRUE>>
            BY <2>4, <5>1, <5>2
          <6> QED
            BY <4>1, <6>1
        <5>3. CASE ~o.ok
          <6>1. e.helped = <<FALSE>> /\ e.err_cnt > 0
            BY <2>4, <5>1, <5>3 DEF e
          <6> QED
            BY <4>1, <6>1
        <5> QED
          BY <5>2, <5>3
      <4>2. CASE (e.quit_flag => e.err_cnt > 0) /\ e.helped = <<>>
        BY <4>2
      <4> QED
        BY <2>4, <3>2, <4>1, <4>2 DEF e
    <3> QED
      <4>1. status' # 0 /\ status' \in {Console!Running, 0, 1}
        BY <3>1 DEF Console!Running
      <4> QED
        BY <3>1, <3>5, <3>6, <4>1 DEF StatusInv
  <2>9. torn' \/ OrderOf(files', console', interpreted')
    BY <1>2, <2>1, <2>2, <2>5
  <2> QED
    BY <2>7, <2>8, <2>9 DEF IInv
<1> QED
  BY <1>8, <1>9

\* The end of run_console, with finish_cmd or without.
LEMMA FinishInv ==
  ASSUME ConsoleAssumption, IInv, Console!Finish
  PROVE  IInv'
<1>1. /\ files \in Scripts /\ console \in Consoles /\ failures \in Nat /\ interpreted \in Seq(Text)
      /\ Typed /\ StatusInv /\ torn \in BOOLEAN
  BY DEF IInv, TypeInv, ConsoleAssumption
<1>2. /\ status = Console!Running /\ files' = files /\ interpreted' = interpreted
      /\ failures' = failures /\ torn' = torn
  BY DEF Console!Finish
<1>3. torn \/ OrderOf(files, console, interpreted)
  BY DEF IInv
<1>4. console.err_cnt \in Nat
  BY <1>1 DEF Consoles
<1>5. CASE console.err_cnt = 0 /\ ~console.quit_flag
  <2>1. PICK o \in Console!do_quit_cmd(console) : console' = o.con /\ status' = IF o.ok THEN 0 ELSE 1
    BY <1>5 DEF Console!Finish
  <2>2. console.buf_stack = <<>>
    BY <1>5 DEF Console!Finish, Console!cmd_done
  <2>3. PICK ok \in BOOLEAN :
          o = Console!Outcome([console EXCEPT !.buf_stack = <<>>, !.quit_flag = TRUE, !.helped = Append(@, ok)], ok)
    BY <2>1 DEF Console!do_quit_cmd
  <2>4. console.helped = <<>>
    BY <1>1, <1>5 DEF StatusInv
  <2>5. console' = [console EXCEPT !.buf_stack = <<>>, !.quit_flag = TRUE, !.helped = <<ok>>]
        /\ status' = IF ok THEN 0 ELSE 1
    <3>1. Append(<<>>, ok) = <<ok>>
      OBVIOUS
    <3> QED
      BY <2>1, <2>3, <2>4, <3>1 DEF Console!Outcome
  <2>6. <<ok>> \in Seq(BOOLEAN) /\ <<>> \in Seq(Frames)
    BY One, EmptySeq
  <2>7. console' \in Consoles /\ console'.quit_flag = TRUE /\ console'.helped = <<ok>> /\ console'.err_cnt = 0
    BY <1>1, <1>5, <2>5, <2>6 DEF Consoles
  <2>8. TypeInv'
    BY <1>1, <1>2, <2>7 DEF TypeInv
  <2>9. StatusInv'
    <3>1. failures = 0
      BY <1>1, <1>5 DEF StatusInv
    <3> DEFINE e == console'
    <3>2. e.quit_flag = TRUE /\ e.helped = <<ok>> /\ e.err_cnt = 0 /\ ~(failures' > 0)
      BY <1>2, <2>7, <3>1
    <3> HIDE DEF e
    <3>3. CASE ok = TRUE
      <4>1. status' = 0 /\ e.helped = <<TRUE>>
        BY <2>5, <3>2, <3>3
      <4> QED
        BY <3>2, <4>1 DEF StatusInv, Console!Running, e
    <3>4. CASE ok = FALSE
      <4>1. status' = 1 /\ e.helped = <<FALSE>>
        BY <2>5, <3>2, <3>4
      <4>2. status' # Console!Running /\ status' # 0 /\ status' \in {Console!Running, 0, 1}
        BY <4>1 DEF Console!Running
      <4>3. e.helped \in {<<>>, <<TRUE>>, <<FALSE>>}
        BY <4>1
      <4> QED
        BY <3>2, <4>2, <4>3, Zenon DEF StatusInv, e
    <3> QED
      BY <3>3, <3>4
  <2>10. torn' \/ OrderOf(files', console', interpreted')
    <3> SUFFICES ASSUME ~torn PROVE OrderOf(files', console', interpreted')
      BY <1>2
    <3> DEFINE script == ExpansionOf(files)[Main]
    <3>1. HoldOf(files, <<>>) = <<>>
      <4>1. [k \in DOMAIN <<>> |->
               ExpandedBy(files, Console!Lines(Held(<<>>[k])), ExpansionOf(files))] = <<>>
        OBVIOUS
      <4>2. FlattenSeq(<<>>) = <<>>
        BY DEF FlattenSeq
      <4> QED
        BY <4>1, <4>2 DEF HoldOf
    <3>2. interpreted \o <<>> = script
      BY <1>3, <1>5, <2>2, <3>1 DEF OrderOf
    <3>3. <<>> \in Seq(Text)
      BY EmptySeq
    <3>4. IsPrefix(interpreted, script)
      BY <1>1, <3>2, <3>3, Prefix
    <3>5. OrderOf(files, console', interpreted)
      BY <2>7, <3>4 DEF OrderOf
    <3> QED
      BY <1>2, <3>5
  <2> QED
    BY <2>8, <2>9, <2>10 DEF IInv
<1>6. CASE ~(console.err_cnt = 0 /\ ~console.quit_flag)
  <2>1. console' = console /\ status' = IF console.err_cnt = 0 THEN 0 ELSE 1
    BY <1>6 DEF Console!Finish
  <2>2. TypeInv'
    BY <1>1, <1>2, <2>1 DEF TypeInv
  <2>3. StatusInv'
    <3>1. CASE console.err_cnt = 0
      <4>1. console.quit_flag /\ console.helped = <<TRUE>>
        <5>1. console.quit_flag
          BY <1>6, <3>1
        <5>2. ~(console.err_cnt > 0)
          BY <3>1
        <5> QED
          BY <1>1, <1>2, <5>1, <5>2, Zenon DEF StatusInv
      <4>2. status' = 0 /\ console' = console /\ failures' = failures
        BY <1>2, <2>1, <3>1
      <4>3. ~(0 = Console!Running)
        BY DEF Console!Running
      <4> QED
        BY <1>1, <3>1, <4>1, <4>2, <4>3 DEF StatusInv
    <3>2. CASE console.err_cnt # 0
      <4>1. status' = 1 /\ console' = console /\ failures' = failures
        BY <1>2, <2>1, <3>2
      <4>2. status' # Console!Running /\ status' # 0 /\ status' \in {Console!Running, 0, 1}
        BY <4>1 DEF Console!Running
      <4>3. /\ failures > 0 => console.err_cnt > 0
            /\ console.helped \in {<<>>, <<TRUE>>, <<FALSE>>} /\ (console.helped # <<>> => console.quit_flag)
        BY <1>1 DEF StatusInv
      <4> QED
        BY <4>1, <4>2, <4>3, Zenon DEF StatusInv
    <3> QED
      BY <3>1, <3>2
  <2>4. torn' \/ OrderOf(files', console', interpreted')
    BY <1>2, <1>3, <2>1
  <2> QED
    BY <2>2, <2>3, <2>4 DEF IInv
<1> QED
  BY <1>5, <1>6

\* Every step of the console keeps the invariant.
LEMMA StepInv == ConsoleAssumption /\ IInv /\ [Console!Next]_(Console!vars) => IInv'
<1> SUFFICES ASSUME ConsoleAssumption, IInv, [Console!Next]_(Console!vars)
             PROVE  IInv'
  OBVIOUS
<1>1. CASE Console!cmd_select
  BY <1>1, SelectInv
<1>2. CASE Console!Finish
  BY <1>2, FinishInv
<1>3. CASE UNCHANGED Console!vars
  <2>1. /\ files' = files /\ console' = console /\ interpreted' = interpreted
        /\ failures' = failures /\ status' = status /\ torn' = torn
    BY <1>3 DEF Console!vars
  <2> QED
    BY <2>1 DEF IInv, TypeInv, StatusInv
<1> QED
  BY <1>1, <1>2, <1>3 DEF Console!Next

\* The console keeps the inductive invariant: its types, what the counters and
\* flags say of each other, and the order of the lines.
THEOREM Invariant == ASSUME ConsoleAssumption PROVE Console!Spec => []IInv
BY InitInv, StepInv, PTL DEF Console!Spec

\* The same of the console beside the other programs.
ConsoleInv == prog = "console" => IInv

\* The console has its invariant whenever it is the program that runs.
LEMMA ConsoleRuns == ASSUME ConsoleAssumption PROVE LabProgramsSpec => []ConsoleInv
<1>1. LabProgramsInit => ConsoleInv
  BY InitInv DEF LabProgramsInit, ConsoleInv
<1>2. ConsoleInv /\ [LabProgramsNext]_labProgramsVars => ConsoleInv'
  <2> SUFFICES ASSUME ConsoleInv, [LabProgramsNext]_labProgramsVars, prog' = "console"
               PROVE  IInv'
    BY DEF ConsoleInv
  <2>1. prog = "console" /\ [Console!Next]_(Console!vars)
    BY DEF LabProgramsNext, labProgramsVars, consoleVars, Console!vars
  <2> QED
    BY <2>1, StepInv DEF ConsoleInv
<1> QED
  BY <1>1, <1>2, PTL DEF LabProgramsSpec

(* Exit status 0 means that no command failed and that the queue was freed, *)
(* once, without a block left; after a failure it is 1 (record_error,       *)
(* do_quit_cmd, finish_cmd of console.c and main of qtest.c).               *)
THEOREM StatusIsHonest == ASSUME ConsoleAssumption PROVE LabProgramsSpec => []StatusHonest
<1>1. IInv => Console!StatusHonest
  <2> SUFFICES ASSUME IInv PROVE Console!StatusHonest
    OBVIOUS
  <2>1. StatusInv /\ failures \in Nat
    BY DEF IInv, TypeInv
  <2>2. Len(<<>>) <= 1 /\ Len(<<TRUE>>) <= 1 /\ Len(<<FALSE>>) <= 1
    OBVIOUS
  <2>3. Len(console.helped) <= 1
    BY <2>1, <2>2 DEF StatusInv
  <2> DEFINE e == console.err_cnt
  <2>4. /\ status \in {Console!Running, 0, 1} /\ (failures > 0 => e > 0)
        /\ status = 0 => e = 0 /\ console.helped = <<TRUE>>
    BY <2>1 DEF StatusInv
  <2> HIDE DEF e
  <2>5. status = 0 => failures = 0 /\ console.helped = <<TRUE>>
    <3> SUFFICES ASSUME status = 0 PROVE failures = 0 /\ console.helped = <<TRUE>>
      OBVIOUS
    <3>1. e = 0 /\ console.helped = <<TRUE>>
      BY <2>4
    <3>2. ~(failures > 0)
      BY <2>4, <3>1
    <3> QED
      BY <2>1, <3>1, <3>2
  <2>6. failures > 0 /\ status # Console!Running => status = 1
    <3> SUFFICES ASSUME failures > 0, status # Console!Running PROVE status = 1
      OBVIOUS
    <3>1. failures # 0
      BY <2>1
    <3>2. status # 0
      BY <2>5, <3>1, Zenon
    <3>3. status \in {Console!Running, 0, 1}
      BY <2>4, Zenon
    <3> QED
      BY <3>2, <3>3
  <2> QED
    BY <2>3, <2>5, <2>6 DEF Console!StatusHonest
<1>2. ConsoleInv => StatusHonest
  BY <1>1 DEF ConsoleInv, StatusHonest
<1> QED
  BY <1>2, ConsoleRuns, PTL

(* However the reads cut the files, what was interpreted and what the stack *)
(* still expands to are the script in its order, and a console that was     *)
(* told to stop has interpreted a beginning of it (push_file, readline,     *)
(* pop_file and interpret_cmda of console.c).                               *)
THEOREM ScriptStaysInOrder == ASSUME ConsoleAssumption PROVE LabProgramsSpec => []ScriptInOrder
<1>1. Console!ScriptInOrder <=> torn \/ OrderOf(files, console, interpreted)
  <2>1. Console!Expansion = ExpansionOf(files)
    BY SameOperators DEF Console!Expansion, ExpansionOf, Console!Expanded, ExpandedBy, Item, Sourced, SourcesIn
  <2>2. ASSUME NEW lines
        PROVE  Console!Expanded(lines, Console!Expansion) = ExpandedBy(files, lines, ExpansionOf(files))
    BY <2>1, SameOperators DEF Console!Expanded, ExpandedBy, Item, Sourced, SourcesIn
  <2>3. FlattenSeq([k \in DOMAIN console.buf_stack |->
          Console!Expanded(Console!Lines(console.buf_stack[k].buf \o console.buf_stack[k].rest), Console!Expansion)])
        = HoldOf(files, console.buf_stack)
    BY <2>2 DEF HoldOf, Held
  <2> QED
    BY <2>1, <2>3, SameOperators DEF Console!ScriptInOrder, OrderOf
<1>2. ConsoleInv => ScriptInOrder
  BY <1>1 DEF ConsoleInv, IInv, ScriptInOrder
<1> QED
  BY <1>2, ConsoleRuns, PTL

-----------------------------------------------------------------------------
(* The RIO package.                                                        *)
Byte == UNION {ToSet(msg) : msg \in Messages}

\* What csapp.h and the callers choose: a buffer, blocks of a byte or more, and
\* a maxlen that leaves room for a byte before the terminating zero.
RioAssumption ==
  /\ Messages \subseteq Seq(Byte)
  /\ BufSize \in Nat
  /\ MaxLen \in Nat /\ MaxLen >= 2
  /\ Block \in Nat \ {0}

StreamTypes ==
  /\ message \in Seq(Byte) /\ nleft \in 0..Len(message)
  /\ socket \in Seq(Byte) /\ rio_buf \in Seq(Byte)
  /\ usrbuf \in Seq(Byte) /\ result \in Seq(Byte)
  /\ rio_cnt \in Int
  /\ call \in {"none", "readlineb", "readnb"}
  /\ reader \in {"reading", "eof", "failed"}
  /\ writer \in {"writing", "closed", "failed"}

\* rio_cnt counts the unread bytes of rio_buf, or there are none and it is the
\* answer of the last read; a call has copied less than it may, and no newline
\* if it is for a line; between calls nothing is copied.
StreamInv ==
  /\ StreamTypes
  /\ IF rio_cnt > 0 THEN Len(rio_buf) = rio_cnt ELSE rio_buf = <<>>
  /\ writer = "closed" => nleft = 0
  /\ call # "none" => reader = "reading"
  /\ call = "none" /\ reader # "failed" => usrbuf = <<>>
  /\ call = "readlineb" =>
       Len(usrbuf) < MaxLen - 1 /\ \A i \in 1..Len(usrbuf) : usrbuf[i] # LineEnd
  /\ call = "readnb" => Len(usrbuf) < Block

\* The bytes that rio_writen has not written yet, and will.
Unwritten ==
  IF writer = "failed" THEN <<>> ELSE SubSeq(message, Len(message) - nleft + 1, Len(message))

\* Two sequences joined, and the bytes of usrbuf, rio_buf and socket before
\* those not written; named, as the provers expand \o where it stands.
Join(x, y) == x \o y
InOrder(u, b, s, t) == u \o b \o s \o t

-----------------------------------------------------------------------------
(* Sequences that are cut and joined.                                      *)

\* A sequence cut in two is its two parts joined.
LEMMA CutAndJoined ==
  ASSUME NEW S, NEW s \in Seq(S), NEW n \in 0..Len(s)
  PROVE  /\ SubSeq(s, 1, n) \in Seq(S) /\ Len(SubSeq(s, 1, n)) = n
         /\ SubSeq(s, n + 1, Len(s)) \in Seq(S)
         /\ Len(SubSeq(s, n + 1, Len(s))) = Len(s) - n
         /\ \A i \in 1..n : SubSeq(s, 1, n)[i] = s[i]
         /\ s = Join(SubSeq(s, 1, n), SubSeq(s, n + 1, Len(s)))
<1>1. Len(s) \in Nat /\ \A i \in 1..Len(s) : s[i] \in S
  BY LenProperties
<1>2. /\ SubSeq(s, 1, n) \in Seq(S) /\ Len(SubSeq(s, 1, n)) = n
      /\ \A i \in 1..n : SubSeq(s, 1, n)[i] = s[i]
  BY <1>1, SubSeqProperties
<1>3. /\ SubSeq(s, n + 1, Len(s)) \in Seq(S)
      /\ Len(SubSeq(s, n + 1, Len(s))) = Len(s) - n
  BY <1>1, SubSeqProperties
<1>4. SubSeq(s, 1, n) \o SubSeq(s, n + 1, Len(s)) = SubSeq(s, 1, Len(s))
  <2>1. /\ 1 \in 1..Len(s) + 1 /\ n \in (1 - 1)..Len(s) /\ Len(s) \in n..Len(s)
    BY <1>1
  <2> QED
    BY <2>1, ConcatAdjacentSubSeq, Zenon
<1>5. SubSeq(s, 1, Len(s)) = s
  BY SubSeqFull
<1> QED
  BY <1>2, <1>3, <1>4, <1>5 DEF Join

\* The bytes of two sequences joined.
LEMMA Joined ==
  ASSUME NEW s \in Seq(Byte), NEW t \in Seq(Byte)
  PROVE  /\ Join(s, t) \in Seq(Byte)
         /\ Len(Join(s, t)) = Len(s) + Len(t)
         /\ \A i \in 1..Len(s) : Join(s, t)[i] = s[i]
         /\ \A i \in 1..Len(t) : Join(s, t)[Len(s) + i] = t[i]
<1>1. Len(s) \in Nat /\ Len(t) \in Nat
  BY LenProperties
<1>2. /\ s \o t \in Seq(Byte) /\ Len(s \o t) = Len(s) + Len(t)
      /\ \A i \in 1..Len(s) + Len(t) :
           (s \o t)[i] = IF i <= Len(s) THEN s[i] ELSE t[i - Len(s)]
  BY ConcatProperties
<1>3. \A i \in 1..Len(s) : (s \o t)[i] = s[i]
  BY <1>1, <1>2
<1>4. \A i \in 1..Len(t) : (s \o t)[Len(s) + i] = t[i]
  BY <1>1, <1>2
<1> QED
  BY <1>2, <1>3, <1>4 DEF Join

\* Cutting where they were joined gives the two sequences back.
LEMMA JoinedAndCut ==
  ASSUME NEW s \in Seq(Byte), NEW t \in Seq(Byte), NEW r \in Seq(Byte), r = Join(s, t)
  PROVE  SubSeq(r, 1, Len(s)) = s /\ SubSeq(r, Len(s) + 1, Len(r)) = t
<1>1. Len(s) \in Nat /\ Len(t) \in Nat
  BY LenProperties
<1>2. /\ Len(r) = Len(s) + Len(t)
      /\ \A i \in 1..Len(s) : r[i] = s[i]
      /\ \A i \in 1..Len(t) : r[Len(s) + i] = t[i]
  <2>1. /\ Len(Join(s, t)) = Len(s) + Len(t)
        /\ \A i \in 1..Len(s) : Join(s, t)[i] = s[i]
        /\ \A i \in 1..Len(t) : Join(s, t)[Len(s) + i] = t[i]
    BY Joined
  <2> QED
    BY <2>1
<1>3. SubSeq(r, 1, Len(s)) = s
  <2>1. /\ SubSeq(r, 1, Len(s)) \in Seq(Byte)
        /\ Len(SubSeq(r, 1, Len(s))) = Len(s)
        /\ \A i \in 1..Len(s) : SubSeq(r, 1, Len(s))[i] = r[i]
    BY <1>1, <1>2, CutAndJoined
  <2> QED
    BY <1>1, <1>2, <2>1, SeqEqual
<1>4. SubSeq(r, Len(s) + 1, Len(r)) = t
  <2>1. \A i \in Len(s) + 1..Len(r) : r[i] \in Byte
    BY <1>1, <1>2, LenProperties
  <2> DEFINE q == SubSeq(r, Len(s) + 1, Len(r))
  <2>2. /\ q \in Seq(Byte) /\ Len(q) = Len(t)
        /\ \A i \in 1..Len(t) : q[i] = r[Len(s) + i]
    BY <1>1, <1>2, <2>1, SubSeqProperties
  <2> HIDE DEF q
  <2>3. \A i \in 1..Len(t) : q[i] = t[i]
    BY <1>2, <2>2
  <2>4. q = t
    BY <2>2, <2>3, SeqEqual
  <2> QED
    BY <2>4 DEF q
<1> QED
  BY <1>3, <1>4

\* Of the bytes in order, those that a call has copied are the first.
LEMMA Regroup ==
  ASSUME NEW S, NEW u \in Seq(S), NEW b \in Seq(S), NEW s \in Seq(S), NEW t \in Seq(S)
  PROVE  /\ InOrder(u, b, s, t) = Join(u, InOrder(<<>>, b, s, t))
         /\ InOrder(<<>>, b, s, t) \in Seq(S)
<1> DEFINE m == b \o s
<1>1. m \in Seq(S)
  OBVIOUS
<1>2. u \o b \o s = u \o m /\ <<>> \o b = b
  OBVIOUS
<1> HIDE DEF m
<1>3. m \o t \in Seq(S)
  BY <1>1
<1>4. u \o m \o t = u \o (m \o t)
  BY <1>1
<1>5. InOrder(<<>>, b, s, t) = m \o t
  BY <1>2 DEF InOrder, m
<1>6. InOrder(u, b, s, t) = u \o m \o t
  BY <1>2 DEF InOrder
<1> QED
  BY <1>3, <1>4, <1>5, <1>6 DEF Join

\* Joining is associative, and joining nothing changes nothing.
LEMMA Joins ==
  ASSUME NEW S
  PROVE  /\ \A p, q, r \in Seq(S) : Join(Join(p, q), r) = Join(p, Join(q, r))
         /\ \A p, q \in Seq(S) : Join(p, q) \in Seq(S)
         /\ \A p \in Seq(S) : Join(p, <<>>) = p
<1>1. \A p, q, r \in Seq(S) : (p \o q) \o r = p \o (q \o r)
  OBVIOUS
<1>2. \A p, q \in Seq(S) : p \o q \in Seq(S)
  OBVIOUS
<1>3. \A p \in Seq(S) : p \o <<>> = p
  OBVIOUS
<1> QED
  BY <1>1, <1>2, <1>3, Zenon DEF Join

\* Bytes that pass from one place to the one before it keep their order.
LEMMA Passing ==
  ASSUME NEW S, NEW u \in Seq(S), NEW b \in Seq(S), NEW s \in Seq(S), NEW t \in Seq(S),
         NEW x \in Seq(S)
  PROVE  /\ InOrder(u, b, Join(s, x), t) = InOrder(u, b, s, Join(x, t))
         /\ InOrder(u, <<>>, Join(x, s), t) = InOrder(u, x, s, t)
         /\ InOrder(u, Join(x, b), s, t) = InOrder(Join(u, x), b, s, t)
<1>1. \A p, q, r, v : InOrder(p, q, r, v) = Join(Join(Join(p, q), r), v)
  BY DEF InOrder, Join
<1>2. InOrder(u, b, Join(s, x), t) = InOrder(u, b, s, Join(x, t))
  BY <1>1, Joins
<1>3. InOrder(u, <<>>, Join(x, s), t) = InOrder(u, x, s, t)
  BY <1>1, Joins
<1>4. InOrder(u, Join(x, b), s, t) = InOrder(Join(u, x), b, s, t)
  BY <1>1, Joins
<1> QED
  BY <1>2, <1>3, <1>4

-----------------------------------------------------------------------------
\* Nothing is written and nothing is read at first.
LEMMA StreamInit ==
  ASSUME RioAssumption, Rio!Init
  PROVE  StreamInv
<1>1. message \in Seq(Byte)
  BY DEF RioAssumption, Rio!Init
<1>2. nleft \in 0..Len(message)
  BY <1>1, LenProperties DEF Rio!Init
<1>3. <<>> \in Seq(Byte)
  BY EmptySeq
<1> QED
  BY <1>1, <1>2, <1>3 DEF Rio!Init, StreamInv, StreamTypes

\* The bytes not written are a sequence of nleft bytes.
LEMMA UnwrittenBytes ==
  ASSUME NEW msg \in Seq(Byte), NEW n \in 0..Len(msg)
  PROVE  /\ SubSeq(msg, Len(msg) - n + 1, Len(msg)) \in Seq(Byte)
         /\ Len(SubSeq(msg, Len(msg) - n + 1, Len(msg))) = n
<1>1. Len(msg) - n \in 0..Len(msg) /\ Len(msg) - (Len(msg) - n) = n
  BY LenProperties
<1> QED
  BY <1>1, CutAndJoined

\* The unread bytes, in their four places.
LEMMA Places ==
  ASSUME StreamTypes
  PROVE  /\ Unwritten \in Seq(Byte)
         /\ IF writer = "failed" THEN Unwritten = <<>> ELSE Len(Unwritten) = nleft
         /\ Rio!Unread = InOrder(usrbuf, rio_buf, socket, Unwritten)
<1>1. Unwritten = Rio!Unwritten
  BY DEF Unwritten, Rio!Unwritten
<1>2. Rio!Unread = InOrder(usrbuf, rio_buf, socket, Unwritten)
  BY <1>1 DEF Rio!Unread, InOrder
<1>3. <<>> \in Seq(Byte)
  BY EmptySeq
<1>4. /\ SubSeq(message, Len(message) - nleft + 1, Len(message)) \in Seq(Byte)
      /\ Len(SubSeq(message, Len(message) - nleft + 1, Len(message))) = nleft
  BY UnwrittenBytes DEF StreamTypes
<1> QED
  BY <1>2, <1>3, <1>4 DEF Unwritten

\* write moves bytes of the message to the socket.
LEMMA WriteMoves ==
  ASSUME StreamInv, Rio!write
  PROVE  StreamInv' /\ Rio!Unread' = Rio!Unread
<1> USE DEF StreamInv
<1>1. PICK n \in 1..nleft :
        /\ socket' = socket \o SubSeq(message, Len(message) - nleft + 1,
                                      Len(message) - nleft + n)
        /\ nleft' = nleft - n
  BY DEF Rio!write
<1> DEFINE k == Len(message) - nleft
           X == SubSeq(message, k + 1, k + n)
           W == SubSeq(message, (k + n) + 1, Len(message))
<1>2. /\ UNCHANGED <<message, writer, rio_cnt, rio_buf, call, usrbuf, result, reader>>
      /\ writer = "writing"
  BY DEF Rio!write, Rio!ReaderUnchanged, Rio!rp
<1>3. Len(message) \in Nat /\ k \in 0..Len(message) /\ nleft \in 0..Len(message)
  BY LenProperties DEF StreamTypes
<1>4. X \in Seq(Byte)
  <2>1. \A i \in k + 1..k + n : message[i] \in Byte
    BY <1>3, LenProperties DEF StreamTypes
  <2> QED
    BY <1>3, <2>1, SubSeqProperties
<1>5. W \in Seq(Byte) /\ Unwritten = Join(X, W)
  <2>1. /\ k + 1 \in 1..Len(message) + 1
        /\ k + n \in (k + 1) - 1..Len(message)
        /\ Len(message) \in k + n..Len(message)
        /\ k + n \in 0..Len(message)
    BY <1>3
  <2>2. X \o W = SubSeq(message, k + 1, Len(message))
    <3> HIDE DEF k
    <3> QED
      BY <2>1, ConcatAdjacentSubSeq DEF StreamTypes
  <2>3. W \in Seq(Byte)
    <3> HIDE DEF k
    <3> QED
      BY <2>1, CutAndJoined DEF StreamTypes
  <2> QED
    BY <1>2, <2>2, <2>3 DEF Unwritten, Join
<1>6. socket' \in Seq(Byte) /\ socket' = Join(socket, X)
  <2>1. socket' = socket \o X
    BY <1>1
  <2> HIDE DEF X
  <2> QED
    BY <1>4, <2>1, Joined DEF StreamTypes, Join
<1>7. StreamInv'
  <2>1. nleft' \in 0..Len(message)
    BY <1>1, <1>3
  <2>2. StreamTypes'
    BY <1>2, <1>6, <2>1 DEF StreamTypes
  <2> HIDE DEF X
  <2> QED
    BY <1>2, <2>2
<1>8. Rio!Unread' = Rio!Unread
  <2>1. Rio!Unread' = InOrder(usrbuf, rio_buf, socket', Unwritten')
    BY <1>2 DEF Rio!Unread, Rio!Unwritten, Unwritten, InOrder
  <2>2. Unwritten' = W
    <3>1. Len(message) - (nleft - n) + 1 = (k + n) + 1
      BY <1>3
    <3> QED
      BY <1>1, <1>2, <3>1 DEF Unwritten
  <2> HIDE DEF X, W
  <2>3. Rio!Unread' = InOrder(usrbuf, rio_buf, Join(socket, X), W)
    BY <1>6, <2>1, <2>2
  <2>4. Rio!Unread = InOrder(usrbuf, rio_buf, socket, Join(X, W))
    BY <1>5, Places
  <2> QED
    BY <1>4, <1>5, <2>3, <2>4, Passing DEF StreamTypes
<1> QED
  BY <1>7, <1>8

\* A refill moves bytes of the socket to rio_buf.
LEMMA RefillMoves ==
  ASSUME RioAssumption, StreamInv, Rio!rio_read_refill
  PROVE  StreamInv' /\ Rio!Unread' = Rio!Unread
<1> USE DEF StreamInv
<1>1. PICK n \in 1..BufSize :
        /\ n <= Len(socket)
        /\ rio_cnt' = n
        /\ rio_buf' = SubSeq(socket, 1, n)
        /\ socket' = SubSeq(socket, n + 1, Len(socket))
  BY DEF Rio!rio_read_refill
<1>2. /\ UNCHANGED <<message, nleft, writer, call, usrbuf, result, reader>>
      /\ rio_buf = <<>>
  BY DEF Rio!rio_read_refill, Rio!WriterUnchanged, StreamTypes
<1>3. n \in 0..Len(socket) /\ n > 0 /\ n \in Int
  BY <1>1, LenProperties DEF RioAssumption, StreamTypes
<1>4. /\ rio_buf' \in Seq(Byte) /\ Len(rio_buf') = n /\ socket' \in Seq(Byte)
      /\ socket = Join(rio_buf', socket')
  BY <1>1, <1>3, CutAndJoined DEF StreamTypes
<1>5. StreamInv'
  BY <1>1, <1>2, <1>3, <1>4 DEF StreamTypes
<1>6. Rio!Unread' = Rio!Unread
  <2>1. Rio!Unread' = InOrder(usrbuf, rio_buf', socket', Unwritten)
    BY <1>2 DEF Rio!Unread, Rio!Unwritten, Unwritten, InOrder
  <2>2. Rio!Unread = InOrder(usrbuf, <<>>, Join(rio_buf', socket'), Unwritten)
    BY <1>2, <1>4, Places
  <2> QED
    BY <1>4, <2>1, <2>2, Passing, Places DEF StreamTypes
<1> QED
  BY <1>5, <1>6

\* What a call returns is the line or the block that the stream promises.
LEMMA ReturnReads ==
  ASSUME RioAssumption,
         NEW u \in Seq(Byte), NEW R \in Seq(Byte),
         Rio!Unread = Join(u, R), Rio!Unread' = R, result' = u, call' = "none",
         reader # "failed", reader' # "failed", writer' = writer,
         \/ /\ call = "readlineb"
            /\ Len(u) <= MaxLen - 1
            /\ \A i \in 1..Len(u) - 1 : u[i] # LineEnd
            /\ \/ Len(u) = MaxLen - 1 \/ R = <<>>
               \/ Len(u) > 0 /\ u[Len(u)] = LineEnd
         \/ /\ call = "readnb"
            /\ Len(u) = Block \/ (R = <<>> /\ Len(u) < Block)
  PROVE  Rio!Stream!Next
<1> DEFINE len == Len(u)
           left == Len(R)
           all == Len(Rio!Unread)
<1>1. len \in Nat /\ left \in Nat /\ (R = <<>> => left = 0)
  BY LenProperties, EmptySeq
<1>2. all = len + left /\ \A i \in 1..len : Rio!Unread[i] = u[i]
  BY Joined
<1>3. Rio!Stream!Take(len)
  <2>1. Rio!Unread \in Seq(Byte)
    BY Joined
  <2>2. SubSeq(Rio!Unread, 1, len) = u /\ SubSeq(Rio!Unread, len + 1, Len(Rio!Unread)) = R
    BY <2>1, JoinedAndCut
  <2>3. (reader = "failed") = FALSE /\ (reader = "failed")' = FALSE
        /\ (writer = "failed")' = (writer = "failed")
    OBVIOUS
  <2> QED
    BY <2>2, <2>3, Zenon DEF Rio!Stream!Take
<1>4. CASE call = "readlineb"
  <2>1. /\ len <= MaxLen - 1
        /\ \A i \in 1..len - 1 : u[i] # LineEnd
        /\ \/ len = MaxLen - 1 \/ R = <<>>
           \/ len > 0 /\ u[len] = LineEnd
    BY <1>4 DEF len
  <2> HIDE DEF len, left, all
  <2>2. /\ len \in 0..MaxLen - 1 /\ len <= all
        /\ \A i \in 1..len - 1 : Rio!Unread[i] # LineEnd
    BY <1>1, <1>2, <2>1 DEF RioAssumption
  <2>3. \/ len = MaxLen - 1 \/ len = all
        \/ len > 0 /\ Rio!Unread[len] = LineEnd
    BY <1>1, <1>2, <2>1
  <2> QED
    BY <1>3, <1>4, <2>2, <2>3 DEF Rio!Stream!Next, Rio!Stream!ReadLine, all
<1>5. CASE call = "readnb"
  <2>1. len = Block \/ (R = <<>> /\ len < Block)
    BY <1>5
  <2> HIDE DEF len, left, all
  <2>2. len = IF Block < all THEN Block ELSE all
    BY <1>1, <1>2, <2>1 DEF RioAssumption
  <2> QED
    BY <1>3, <1>5, <2>2 DEF Rio!Stream!Next, Rio!Stream!ReadBlock, all
<1> QED
  BY <1>4, <1>5

\* rio_read copies bytes of rio_buf to the caller, who returns when it has what
\* it asked for.
LEMMA CopyReads ==
  ASSUME RioAssumption, StreamInv, Rio!rio_read_copy
  PROVE  StreamInv' /\ [Rio!Stream!Next]_<<Rio!Unread, result, call, reader = "failed", writer = "failed">>
<1> USE DEF StreamInv
<1> DEFINE cnt == IF rio_cnt < Rio!Wanted THEN rio_cnt ELSE Rio!Wanted
           X == SubSeq(rio_buf, 1, cnt)
           B == SubSeq(rio_buf, cnt + 1, Len(rio_buf))
           u == usrbuf \o X
           R == InOrder(<<>>, B, socket, Unwritten)
<1>1. /\ call \in {"readlineb", "readnb"} /\ rio_cnt > 0 /\ reader = "reading"
      /\ Len(rio_buf) = rio_cnt
      /\ Rio!Copied(u) /\ rio_buf' = B /\ rio_cnt' = rio_cnt - cnt
      /\ UNCHANGED <<message, nleft, writer, socket>>
  BY DEF Rio!rio_read_copy, Rio!WriterUnchanged, StreamTypes
<1>2. Len(usrbuf) \in Nat /\ Len(rio_buf) \in Nat
  BY LenProperties DEF StreamTypes
<1>3. /\ cnt \in 1..Len(rio_buf) /\ cnt \in 0..Len(rio_buf)
      /\ call = "readlineb" => cnt = 1
      /\ call = "readnb" => Len(usrbuf) + cnt <= Block
  BY <1>1, <1>2 DEF Rio!Wanted, RioAssumption, StreamTypes
<1> HIDE DEF cnt
<1>4. /\ X \in Seq(Byte) /\ Len(X) = cnt
      /\ B \in Seq(Byte) /\ Len(B) = Len(rio_buf) - cnt
      /\ rio_buf = Join(X, B)
  BY <1>3, CutAndJoined DEF StreamTypes
<1> HIDE DEF X, B
<1>5. /\ u \in Seq(Byte) /\ Len(u) = Len(usrbuf) + cnt /\ u = Join(usrbuf, X)
      /\ \A i \in 1..Len(usrbuf) : u[i] = usrbuf[i]
  <2>1. u = Join(usrbuf, X)
    BY DEF Join
  <2> HIDE DEF u
  <2>2. usrbuf \in Seq(Byte)
    BY DEF StreamTypes
  <2>3. /\ Join(usrbuf, X) \in Seq(Byte) /\ Len(Join(usrbuf, X)) = Len(usrbuf) + Len(X)
        /\ \A i \in 1..Len(usrbuf) : Join(usrbuf, X)[i] = usrbuf[i]
    BY <1>4, <2>2, Joined
  <2> QED
    BY <1>4, <2>1, <2>3
<1>6. Rio!Last(u) = u[Len(u)]
  BY DEF Rio!Last
<1> HIDE DEF u
<1>7. IF rio_cnt' > 0 THEN Len(rio_buf') = rio_cnt' ELSE rio_buf' = <<>>
  <2>1. rio_cnt' = Len(B) /\ Len(B) \in Nat
    BY <1>1, <1>2, <1>3, <1>4
  <2>2. Len(B) = 0 => B = <<>>
    BY <1>4, EmptySeq
  <2> QED
    BY <1>1, <2>1, <2>2
<1>8. Rio!Unread = Join(u, R) /\ R \in Seq(Byte)
  <2>1. Rio!Unread = InOrder(usrbuf, Join(X, B), socket, Unwritten)
    BY <1>4, Places
  <2>2. Unwritten \in Seq(Byte) /\ socket \in Seq(Byte) /\ usrbuf \in Seq(Byte)
    BY Places DEF StreamTypes
  <2>3. Rio!Unread = InOrder(u, B, socket, Unwritten)
    BY <1>4, <1>5, <2>1, <2>2, Passing
  <2> QED
    BY <1>4, <1>5, <2>2, <2>3, Regroup
<1> DEFINE done == IF call = "readlineb" THEN Rio!Last(u) = LineEnd \/ Len(u) = MaxLen - 1
                                         ELSE Len(u) = Block
<1>9. Rio!Unread' = InOrder(usrbuf', B, socket, Unwritten)
  BY <1>1 DEF Rio!Unread, Rio!Unwritten, Unwritten, InOrder
<1>10. CASE done
  <2>1. /\ call' = "none" /\ usrbuf' = <<>> /\ result' = u
        /\ reader' \in {"eof", "reading"}
    BY <1>1, <1>10 DEF Rio!Copied, Rio!Return
  <2>2. StreamInv'
    <3>1. StreamTypes'
      BY <1>1, <1>3, <1>4, <1>5, <2>1, EmptySeq DEF StreamTypes
    <3> QED
      BY <1>1, <1>7, <2>1, <3>1
  <2>3. Rio!Unread' = R
    BY <1>9, <2>1
  <2>4. /\ call = "readlineb" =>
             /\ Len(u) <= MaxLen - 1
             /\ \A i \in 1..Len(u) - 1 : u[i] # LineEnd
             /\ Len(u) = MaxLen - 1 \/ (Len(u) > 0 /\ u[Len(u)] = LineEnd)
        /\ call = "readnb" => Len(u) = Block
    <3>1. call = "readlineb" =>
            /\ Len(u) <= MaxLen - 1
            /\ \A i \in 1..Len(u) - 1 : u[i] # LineEnd
      <4> SUFFICES ASSUME call = "readlineb"
                   PROVE  Len(u) <= MaxLen - 1 /\ \A i \in 1..Len(u) - 1 : u[i] # LineEnd
        OBVIOUS
      <4>1. Len(u) = Len(usrbuf) + 1 /\ Len(usrbuf) < MaxLen - 1
        BY <1>3, <1>5
      <4>2. Len(u) - 1 = Len(usrbuf) /\ Len(u) <= MaxLen - 1
        BY <1>2, <4>1 DEF RioAssumption
      <4>3. \A i \in 1..Len(usrbuf) : usrbuf[i] # LineEnd /\ u[i] = usrbuf[i]
        BY <1>5
      <4> QED
        BY <4>2, <4>3
    <3>2. call = "readlineb" => Len(u) = MaxLen - 1 \/ (Len(u) > 0 /\ u[Len(u)] = LineEnd)
      BY <1>2, <1>3, <1>5, <1>6, <1>10
    <3>3. call = "readnb" => Len(u) = Block
      BY <1>10
    <3> QED
      BY <3>1, <3>2, <3>3
  <2> HIDE DEF R, done
  <2>5. Rio!Stream!Next
    BY <1>1, <1>5, <1>8, <2>1, <2>3, <2>4, ReturnReads
  <2> QED
    BY <2>2, <2>5
<1>11. CASE ~ done
  <2>1. usrbuf' = u /\ UNCHANGED <<call, result, reader>>
    BY <1>1, <1>11 DEF Rio!Copied
  <2>2. StreamInv'
    <3>1. StreamTypes'
      BY <1>1, <1>3, <1>4, <1>5, <2>1 DEF StreamTypes
    <3>2. call = "readlineb" =>
            Len(u) < MaxLen - 1 /\ \A i \in 1..Len(u) : u[i] # LineEnd
      BY <1>1, <1>2, <1>3, <1>5, <1>6, <1>11 DEF RioAssumption
    <3>3. call = "readnb" => Len(u) < Block
      BY <1>1, <1>2, <1>3, <1>5, <1>11 DEF RioAssumption
    <3> QED
      BY <1>1, <1>7, <2>1, <3>1, <3>2, <3>3
  <2>3. Rio!Unread' = Rio!Unread
    <3>1. Rio!Unread' = InOrder(u, B, socket, Unwritten)
      BY <1>9, <2>1
    <3>2. InOrder(u, B, socket, Unwritten) = Join(u, R)
      BY <1>4, <1>5, Places, Regroup DEF StreamTypes
    <3> QED
      BY <1>8, <3>1, <3>2
  <2> QED
    BY <1>1, <2>1, <2>2, <2>3
<1> QED
  BY <1>10, <1>11

\* At the end of the stream a call returns what it has copied: all that was left.
LEMMA EofReads ==
  ASSUME RioAssumption, StreamInv, Rio!rio_read_eof
  PROVE  StreamInv' /\ Rio!Stream!Next
<1> USE DEF StreamInv
<1>1. /\ call \in {"readlineb", "readnb"} /\ reader = "reading"
      /\ rio_buf = <<>> /\ socket = <<>> /\ (writer = "failed" \/ nleft = 0)
      /\ rio_cnt' = 0 /\ call' = "none" /\ usrbuf' = <<>> /\ result' = usrbuf
      /\ reader' \in {"eof", "reading"}
      /\ UNCHANGED <<message, nleft, writer, socket, rio_buf>>
  BY DEF Rio!rio_read_eof, Rio!Return, Rio!WriterUnchanged, StreamTypes
<1>2. Unwritten = <<>>
  <2>1. Unwritten \in Seq(Byte) /\ (Unwritten = <<>> \/ Len(Unwritten) = 0)
    BY <1>1, Places
  <2> QED
    BY <2>1, EmptySeq
<1>3. StreamInv'
  BY <1>1, EmptySeq DEF StreamTypes
<1>4. usrbuf \in Seq(Byte) /\ <<>> \in Seq(Byte) /\ Len(usrbuf) \in Nat
  BY LenProperties, EmptySeq DEF StreamTypes
<1>5. Rio!Unread' = <<>> /\ Rio!Unread = Join(usrbuf, <<>>)
  <2>1. Rio!Unread' = InOrder(<<>>, <<>>, <<>>, <<>>)
    BY <1>1, <1>2 DEF Rio!Unread, Rio!Unwritten, Unwritten, InOrder
  <2>2. Rio!Unread = InOrder(usrbuf, <<>>, <<>>, <<>>)
    BY <1>1, <1>2, Places
  <2> QED
    BY <1>4, <2>1, <2>2, ConcatEmptySeq DEF InOrder, Join
<1>6. /\ call = "readlineb" => Len(usrbuf) <= MaxLen - 1
                                /\ \A i \in 1..Len(usrbuf) - 1 : usrbuf[i] # LineEnd
      /\ call = "readnb" => Len(usrbuf) < Block
  BY <1>4 DEF RioAssumption
<1>7. Rio!Stream!Next
  BY <1>1, <1>4, <1>5, <1>6, ReturnReads
<1> QED
  BY <1>3, <1>7

\* A writer that ends leaves the reader the bytes that it has written.
LEMMA WriterEnds ==
  ASSUME RioAssumption, StreamInv, Rio!write_error
  PROVE  StreamInv' /\ Rio!Stream!Next
<1> USE DEF StreamInv
<1>1. /\ writer = "writing" /\ writer' = "failed"
      /\ UNCHANGED <<message, nleft, socket, rio_cnt, rio_buf, call, usrbuf, result, reader>>
  BY DEF Rio!write_error, Rio!ReaderUnchanged, Rio!rp
<1>2. StreamInv'
  BY <1>1 DEF StreamTypes
<1> DEFINE had == usrbuf \o rio_buf \o socket
           n == Len(had)
<1>3. /\ Rio!Unread = Join(had, Unwritten) /\ Rio!Unread' = Join(had, <<>>)
      /\ had \in Seq(Byte) /\ Unwritten \in Seq(Byte) /\ <<>> \in Seq(Byte)
  <2>1. Rio!Unread = had \o Unwritten /\ Unwritten \in Seq(Byte)
    BY Places DEF InOrder
  <2>2. Rio!Unread' = had \o <<>>
    BY <1>1 DEF Rio!Unread, Rio!Unwritten
  <2>3. had \in Seq(Byte) /\ <<>> \in Seq(Byte)
    <3>1. usrbuf \o rio_buf \in Seq(Byte)
      BY ConcatProperties DEF StreamTypes
    <3>2. (usrbuf \o rio_buf) \o socket \in Seq(Byte)
      BY <3>1, ConcatProperties DEF StreamTypes
    <3> QED
      BY <3>2, EmptySeq
  <2> HIDE DEF had
  <2>4. Join(had, Unwritten) = had \o Unwritten /\ Join(had, <<>>) = had \o <<>>
    BY DEF Join
  <2> QED
    BY <2>1, <2>2, <2>3, <2>4, Zenon
<1> HIDE DEF had
<1>4. Rio!Unread' = SubSeq(Rio!Unread, 1, n)
  <2>3. Rio!Unread \in Seq(Byte)
    BY <1>3, Joined
  <2>1. SubSeq(Rio!Unread, 1, n) = had
    BY <1>3, <2>3, JoinedAndCut
  <2>2. Join(had, <<>>) = had
    BY <1>3, ConcatEmptySeq DEF Join
  <2> QED
    BY <1>3, <2>1, <2>2
<1>5. n \in 0..Len(Rio!Unread)
  BY <1>3, LenProperties, Joined
<1>6. ~(writer = "failed") /\ (writer = "failed")' = TRUE /\ UNCHANGED <<result, call, reader>>
  BY <1>1
<1>7. Rio!Stream!Cut
  BY <1>4, <1>5, <1>6 DEF Rio!Stream!Cut
<1> QED
  BY <1>2, <1>7 DEF Rio!Stream!Next

\* Every step keeps the invariant and is a step of the stream, or none.
LEMMA StreamNext ==
  ASSUME RioAssumption, StreamInv, [Rio!Next]_(Rio!vars)
  PROVE  StreamInv' /\ [Rio!Stream!Next]_<<Rio!Unread, result, call, reader = "failed", writer = "failed">>
<1> USE DEF StreamInv
<1>1. CASE Rio!write
  BY <1>1, WriteMoves DEF Rio!write, Rio!ReaderUnchanged
<1>2. CASE Rio!Close
  BY <1>2 DEF Rio!Close, Rio!ReaderUnchanged, Rio!rp, StreamTypes, Rio!Unread, Rio!Unwritten
<1>10. CASE Rio!write_error
  BY <1>10, WriterEnds
<1>3. CASE Rio!Call
  <2>1. /\ reader = "reading" /\ call = "none" /\ usrbuf = <<>> /\ usrbuf' = <<>>
        /\ call' \in {"readlineb", "readnb"}
        /\ UNCHANGED <<message, nleft, writer, socket, rio_cnt, rio_buf, result, reader>>
    BY <1>3 DEF Rio!Call, Rio!WriterUnchanged, Rio!rp
  <2>2. Rio!Unread' = Rio!Unread
    BY <2>1 DEF Rio!Unread, Rio!Unwritten
  <2>3. StreamInv'
    BY <2>1, EmptySeq DEF StreamTypes, RioAssumption
  <2> QED
    BY <2>1, <2>2, <2>3 DEF Rio!Stream!Next, Rio!Stream!Ask
<1>4. CASE Rio!rio_read_copy
  BY <1>4, CopyReads
<1>5. CASE Rio!rio_read_refill
  BY <1>5, RefillMoves DEF Rio!rio_read_refill, Rio!WriterUnchanged
<1>6. CASE Rio!rio_read_interrupted
  BY <1>6 DEF Rio!rio_read_interrupted, Rio!WriterUnchanged, StreamTypes, Rio!Unread, Rio!Unwritten
<1>7. CASE Rio!rio_read_eof
  BY <1>7, EofReads
<1>8. CASE Rio!rio_read_error
  <2>1. /\ reader' = "failed" /\ call' = "none" /\ rio_cnt <= 0 /\ rio_cnt' = -1
        /\ UNCHANGED <<message, nleft, writer, socket, rio_buf, usrbuf, result>>
    BY <1>8 DEF Rio!rio_read_error, Rio!WriterUnchanged
  <2>2. Rio!Unread' = Rio!Unread /\ StreamInv'
    BY <2>1 DEF Rio!Unread, Rio!Unwritten, StreamTypes
  <2> QED
    BY <2>1, <2>2 DEF Rio!Stream!Next, Rio!Stream!Fail
<1>9. CASE UNCHANGED Rio!vars
  BY <1>9 DEF Rio!vars, Rio!rp, StreamTypes, Rio!Unread, Rio!Unwritten
<1> QED
  BY <1>1, <1>2, <1>3, <1>4, <1>5, <1>6, <1>7, <1>8, <1>9, <1>10 DEF Rio!Next

\* The wrappers over read and write, however the bytes are cut and whichever
\* calls a signal interrupts, lose, repeat and reorder no byte; a line ends at
\* its newline, at maxlen - 1 bytes or at the end of the stream
\* (csapp.c:772-894).
THEOREM ReadsStream == ASSUME RioAssumption PROVE LabProgramsSpec => ImplementsStream
<1>1. LabProgramsInit => Rio!Stream!Init
  BY DEF LabProgramsInit, Rio!Init, Rio!Stream!Init
<1>2. LabProgramsInit => StreamInv
  <2>1. CASE prog = "rio"
    BY <2>1, StreamInit DEF LabProgramsInit
  <2>2. CASE prog # "rio"
    <3>1. <<>> \in Seq(Byte)
      BY EmptySeq
    <3> QED
      BY <2>2, <3>1 DEF LabProgramsInit, StreamInv, StreamTypes
  <2> QED
    BY <2>1, <2>2
<1>3. [LabProgramsNext]_labProgramsVars => [Rio!Next]_(Rio!vars)
  BY DEF LabProgramsNext, labProgramsVars, rioVars, Rio!vars, Rio!rp
<1>4. StreamInv /\ [LabProgramsNext]_labProgramsVars => StreamInv'
  BY <1>3, StreamNext
<1>5. StreamInv /\ [LabProgramsNext]_labProgramsVars
        => [Rio!Stream!Next]_<<Rio!Unread, result, call, reader = "failed", writer = "failed">>
  BY <1>3, StreamNext
<1> QED
  BY <1>1, <1>2, <1>4, <1>5, PTL DEF LabProgramsSpec, ImplementsStream, Rio!ImplementsStream, Rio!Stream!Spec

-----------------------------------------------------------------------------
(* The simulator of the cache lab.                                         *)

Tags == 0..Csim!pow2[AddressBits - BlockBits - SetBits] - 1
Line == [LRU : Nat, valid : BOOLEAN, tag : Tags]
Lines == [0..LineCount-1 -> Line]

\* The operators of the standard modules, under their names in the instance.
LEMMA SameSetOperators ==
  /\ \A S : Csim!Cardinality(S) = Cardinality(S)
  /\ \A seq : Csim!ToSet(seq) = ToSet(seq)
<1>1. \A S : Csim!Cardinality(S) = Cardinality(S)
  BY DEF Csim!Cardinality, Cardinality
<1>2. \A seq : Csim!ToSet(seq) = ToSet(seq)
  BY DEF Csim!ToSet, ToSet
<1> QED
  BY <1>1, <1>2

\* p enumerates the valid lines of a set, the one used last first.
Ordered(p, n, set) ==
  /\ p \in [1..n -> Csim!Valid(set)]
  /\ \A i \in Csim!Valid(set) : \E k \in 1..n : p[k] = i
  /\ \A j, k \in 1..n : j < k => set[p[j]].LRU > set[p[k]].LRU

\* A set before the time now: lines of different tags, in an order of use.
SetInv(set, now) ==
  /\ set \in Lines
  /\ \A i \in Csim!Valid(set) : set[i].LRU < now
  /\ \A i, j \in Csim!Valid(set) : set[i].tag = set[j].tag => i = j
  /\ \E n \in Nat : \E p : Ordered(p, n, set)

\* The valid lines are numbers below E.
LEMMA ValidLines ==
  ASSUME NEW set \in Lines
  PROVE  /\ Csim!Valid(set) = {i \in 0..LineCount-1 : set[i].valid}
         /\ \A i \in Csim!Valid(set) : set[i] \in Line /\ set[i].LRU \in Nat /\ set[i].tag \in Tags
BY DEF Csim!Valid, Lines, Line

\* An enumeration is as long as there are valid lines.
LEMMA OrderLength ==
  ASSUME NEW set \in Lines, NEW n \in Nat, NEW p, Ordered(p, n, set)
  PROVE  Cardinality(Csim!Valid(set)) = n
<1>1. p \in [1..n -> Csim!Valid(set)] /\ \A i \in Csim!Valid(set) : \E k \in 1..n : p[k] = i
  BY DEF Ordered
<1>2. \A j, k \in 1..n : p[j] = p[k] => j = k
  <2>1. \A j \in 1..n : set[p[j]].LRU \in Nat
    BY <1>1, ValidLines
  <2>2. \A j, k \in 1..n : p[j] = p[k] => ~ (j < k)
    BY <2>1 DEF Ordered
  <2> QED
    BY <2>2
<1>3. p \in Bijection(1..n, Csim!Valid(set))
  BY <1>1, <1>2, Zenon DEF Bijection, Injection, Surjection, IsInjective
<1> QED
  BY <1>3, FS_CountingElements DEF ExistsBijection

\* Two enumerations of a set are the same.
LEMMA OneOrder ==
  ASSUME NEW set \in Lines, NEW n \in Nat, NEW p, Ordered(p, n, set), NEW q, Ordered(q, n, set)
  PROVE  p = q
<1> DEFINE T == {m \in Nat : \A k \in 1..m : k <= n => p[k] = q[k]}
<1>0. /\ p \in [1..n -> Csim!Valid(set)] /\ q \in [1..n -> Csim!Valid(set)]
      /\ \A k \in 1..n : set[p[k]].LRU \in Nat /\ set[q[k]].LRU \in Nat
  BY ValidLines DEF Ordered
<1>1. 0 \in T
  OBVIOUS
<1>2. ASSUME NEW m \in Nat, m \in T
      PROVE  m + 1 \in T
  <2> SUFFICES ASSUME m + 1 <= n PROVE p[m + 1] = q[m + 1]
    BY <1>2
  <2> DEFINE k == m + 1
  <2>1. k \in 1..n /\ \A j \in 1..n : j < k => p[j] = q[j]
    BY <1>2
  <2>2. PICK i \in 1..n : q[i] = p[k]
    BY <1>0, <2>1 DEF Ordered
  <2>3. PICK j \in 1..n : p[j] = q[k]
    BY <1>0, <2>1 DEF Ordered
  <2> HIDE DEF k
  <2>4. ~ (i < k) /\ ~ (j < k)
    <3>1. i < k => p[i] = p[k] /\ set[p[i]].LRU > set[p[k]].LRU
      BY <2>1, <2>2 DEF Ordered
    <3>2. j < k => q[j] = q[k] /\ set[q[j]].LRU > set[q[k]].LRU
      BY <2>1, <2>3 DEF Ordered
    <3> QED
      BY <1>0, <2>1, <3>1, <3>2
  <2>5. k < i => set[q[k]].LRU > set[p[k]].LRU
    BY <2>1, <2>2 DEF Ordered
  <2>6. k < j => set[p[k]].LRU > set[q[k]].LRU
    BY <2>1, <2>3 DEF Ordered
  <2>7. p[k] = q[k]
    <3>1. CASE i = k \/ j = k
      BY <2>2, <2>3, <3>1
    <3>2. CASE i # k /\ j # k
      <4>1. k < i /\ k < j
        BY <2>1, <2>4, <3>2
      <4> QED
        BY <1>0, <2>1, <2>5, <2>6, <4>1
    <3> QED
      BY <3>1, <3>2
  <2> QED
    BY <2>7 DEF k
<1> HIDE DEF T
<1>3. n \in T
  BY <1>1, <1>2, AllNumbers
<1>4. \A k \in 1..n : p[k] = q[k]
  BY <1>3 DEF T
<1> QED
  BY <1>0, <1>4

\* The order of a set is its enumeration, whatever CHOOSE takes.
LEMMA OrderIs ==
  ASSUME NEW set \in Lines, NEW n \in Nat, NEW p, Ordered(p, n, set)
  PROVE  /\ Csim!Order(set) = p
         /\ Csim!Recent(set) = [k \in 1..n |-> set[p[k]].tag]
         /\ Csim!Recent(set) \in Seq(Tags) /\ Len(Csim!Recent(set)) = n
<1>1. Cardinality(Csim!Valid(set)) = n
  BY OrderLength
<1> DEFINE Is(q) == /\ Csim!Valid(set) \subseteq ToSet(q)
                    /\ \A j, k \in DOMAIN q : j < k => set[q[j]].LRU > set[q[k]].LRU
<1>2. p \in [1..n -> Csim!Valid(set)] /\ Is(p)
  BY DEF Ordered, ToSet
<1>3. ASSUME NEW q \in [1..n -> Csim!Valid(set)], Is(q)
      PROVE  Ordered(q, n, set)
  BY <1>3 DEF Ordered, ToSet
<1>4. Csim!Order(set) = CHOOSE q \in [1..n -> Csim!Valid(set)] : Is(q)
  BY <1>1, SameSetOperators DEF Csim!Order
<1> HIDE DEF Is
<1>5. Csim!Order(set) \in [1..n -> Csim!Valid(set)] /\ Is(Csim!Order(set))
  BY <1>2, <1>4
<1>6. Csim!Order(set) = p
  BY <1>3, <1>5, OneOrder
<1>7. Csim!Recent(set) = [k \in 1..n |-> set[p[k]].tag]
  BY <1>1, <1>6, SameSetOperators DEF Csim!Recent
<1>8. \A k \in 1..n : set[p[k]].tag \in Tags
  BY <1>2, ValidLines
<1>9. Csim!Recent(set) \in Seq(Tags) /\ Len(Csim!Recent(set)) = n
  <2>1. Csim!Recent(set) \in [1..n -> Tags]
    BY <1>7, <1>8
  <2> QED
    BY <2>1
<1> QED
  BY <1>6, <1>7, <1>9

\* What is left of a sequence without its k-th element.
LEMMA Removed ==
  ASSUME NEW S, NEW r \in Seq(S), NEW k \in 1..Len(r)
  PROVE  /\ RemoveAt(r, k) \in Seq(S) /\ Len(RemoveAt(r, k)) = Len(r) - 1
         /\ \A j \in 1..Len(r)-1 : RemoveAt(r, k)[j] = IF j < k THEN r[j] ELSE r[j+1]
<1> DEFINE n == Len(r)
           u == SubSeq(r, 1, k - 1)
           v == SubSeq(r, k + 1, n)
<1>1. u \in Seq(S) /\ Len(u) = k - 1 /\ \A j \in 1..k-1 : u[j] = r[j]
  <2>1. k - 1 \in 1-1..n
    OBVIOUS
  <2> QED
    BY <2>1, SubSeqProperties
<1>2. v \in Seq(S) /\ Len(v) = n - k /\ \A j \in 1..n-k : v[j] = r[j + k]
  <2>1. k + 1 \in 1..n+1 /\ n \in (k+1)-1..n
    OBVIOUS
  <2> QED
    BY <2>1, SubSeqProperties
<1>3. RemoveAt(r, k) = u \o v
  BY DEF RemoveAt
<1>4. n \in Nat /\ k \in 1..n
  OBVIOUS
<1> HIDE DEF u, v, n
<1>5. /\ u \o v \in Seq(S) /\ Len(u \o v) = n - 1
      /\ \A j \in 1..n-1 : (u \o v)[j] = IF j <= k - 1 THEN u[j] ELSE v[j - (k - 1)]
  <2>1. /\ u \o v \in Seq(S) /\ Len(u \o v) = Len(u) + Len(v)
        /\ \A j \in 1..Len(u) + Len(v) :
             (u \o v)[j] = IF j <= Len(u) THEN u[j] ELSE v[j - Len(u)]
    BY <1>1, <1>2, ConcatProperties
  <2>2. Len(u) + Len(v) = n - 1
    BY <1>1, <1>2, <1>4
  <2> QED
    BY <1>1, <2>1, <2>2
<1>6. ASSUME NEW j \in 1..n-1
      PROVE  (u \o v)[j] = IF j < k THEN r[j] ELSE r[j+1]
  <2>1. CASE j < k
    BY <1>1, <1>4, <1>5, <2>1
  <2>2. CASE j >= k
    <3>1. j - (k - 1) \in 1..n-k /\ (j - (k - 1)) + k = j + 1 /\ ~ (j <= k - 1)
      BY <1>4, <2>2
    <3>2. v[j - (k - 1)] = r[j + 1]
      BY <1>2, <3>1
    <3> QED
      BY <1>5, <2>2, <3>1, <3>2
  <2>3. j \in Int /\ k \in Int
    BY <1>4
  <2>4. j < k \/ j >= k
    BY <2>3
  <2> QED
    BY <2>1, <2>2, <2>4
<1> QED
  BY <1>3, <1>5, <1>6 DEF n

\* An element before a sequence.
LEMMA InFront ==
  ASSUME NEW S, NEW r \in Seq(S), NEW a \in S
  PROVE  /\ <<a>> \o r \in Seq(S) /\ Len(<<a>> \o r) = Len(r) + 1
         /\ (<<a>> \o r)[1] = a /\ \A j \in 1..Len(r) : (<<a>> \o r)[j+1] = r[j]
<1>1. <<a>> \in Seq(S) /\ Len(<<a>>) = 1 /\ <<a>>[1] = a
  OBVIOUS
<1> QED
  BY <1>1, ConcatProperties

\* new is set with line i used at the time now.
IsUsed(new, set, i, now, tag) ==
  new = [set EXCEPT ![i] = [LRU |-> now, valid |-> TRUE, tag |-> tag]]

\* A line that is used again becomes the first of the order.
LEMMA Touch ==
  ASSUME NEW now \in Nat, NEW set, SetInv(set, now),
         NEW n \in Nat, NEW p, Ordered(p, n, set), NEW k \in 1..n, NEW tag \in Tags,
         \A j \in Csim!Valid(set) : j # p[k] => set[j].tag # tag,
         NEW new, IsUsed(new, set, p[k], now, tag)
  PROVE  /\ SetInv(new, now + 1)
         /\ Csim!Recent(new) = <<tag>> \o RemoveAt(Csim!Recent(set), k)
<1> DEFINE i == p[k]
           q == [j \in 1..n |-> IF j = 1 THEN i ELSE IF j <= k THEN p[j-1] ELSE p[j]]
<1>1. set \in Lines /\ p \in [1..n -> Csim!Valid(set)]
  BY DEF SetInv, Ordered
<1>2. i \in 0..LineCount-1 /\ i \in Csim!Valid(set)
  BY <1>1, ValidLines
<1>3. /\ new \in Lines
      /\ new[i] = [LRU |-> now, valid |-> TRUE, tag |-> tag]
      /\ \A j \in 0..LineCount-1 : j # i => new[j] = set[j]
  BY <1>1, <1>2 DEF Lines, Line, IsUsed
<1>4. Csim!Valid(new) = Csim!Valid(set)
  <2>1. /\ Csim!Valid(set) = {j \in 0..LineCount-1 : set[j].valid}
        /\ Csim!Valid(new) = {j \in 0..LineCount-1 : new[j].valid}
    BY <1>1, <1>3, ValidLines
  <2>2. new[i].valid /\ set[i].valid
    BY <1>2, <1>3, <2>1
  <2>3. \A j \in 0..LineCount-1 : new[j].valid <=> set[j].valid
    BY <1>3, <2>2
  <2> QED
    BY <2>1, <2>3, Zenon
<1>5. \A j \in Csim!Valid(set) : j \in 0..LineCount-1 /\ set[j].LRU \in Nat /\ set[j].LRU < now
  BY <1>1, ValidLines DEF SetInv
<1>6. /\ \A j \in Csim!Valid(new) : new[j].LRU < now + 1
      /\ \A j, l \in Csim!Valid(new) : new[j].tag = new[l].tag => j = l
  BY <1>3, <1>4, <1>5 DEF SetInv
<1>7. \A j, l \in 1..n : p[j] = p[l] => j = l
  <2>1. \A j \in 1..n : set[p[j]].LRU \in Nat
    BY <1>1, <1>5
  <2>2. \A j, l \in 1..n : j < l => set[p[j]].LRU > set[p[l]].LRU
    BY DEF Ordered
  <2>3. \A j, l \in 1..n : j < l => p[j] # p[l]
    BY <2>1, <2>2
  <2> QED
    BY <2>3
<1>8. Ordered(q, n, new)
  <2>1. q \in [1..n -> Csim!Valid(new)]
    BY <1>1, <1>4
  <2>2. \A j \in Csim!Valid(new) : \E l \in 1..n : q[l] = j
    <3> SUFFICES ASSUME NEW j \in Csim!Valid(new) PROVE \E l \in 1..n : q[l] = j
      OBVIOUS
    <3>1. PICK l \in 1..n : p[l] = j
      BY <1>4 DEF Ordered
    <3>2. CASE l = k
      BY <3>1, <3>2
    <3>3. CASE l < k
      <4>1. l + 1 \in 1..n /\ q[l + 1] = p[l]
        BY <3>3
      <4> QED
        BY <3>1, <4>1
    <3>4. CASE l > k
      BY <3>1, <3>4
    <3> QED
      BY <3>2, <3>3, <3>4
  <2>3. \A j \in 2..n : q[j] # i
    <3> SUFFICES ASSUME NEW j \in 2..n PROVE q[j] # i
      OBVIOUS
    <3>1. CASE j <= k
      <4>1. q[j] = p[j-1] /\ j - 1 \in 1..n /\ j - 1 # k
        BY <3>1
      <4> QED
        BY <1>7, <4>1
    <3>2. CASE j > k
      BY <1>7, <3>2
    <3> QED
      BY <3>1, <3>2
  <2>4. \A j, l \in 2..n : j < l => set[q[j]].LRU > set[q[l]].LRU
    <3> DEFINE At(j) == IF j <= k THEN j - 1 ELSE j
    <3>1. \A j \in 2..n : At(j) \in 1..n /\ q[j] = p[At(j)]
      OBVIOUS
    <3>2. \A j, l \in 2..n : j < l /\ j # k => At(j) < At(l)
      OBVIOUS
    <3>3. \A j, l \in 2..n : j < l /\ j = k => At(j) < At(l)
      OBVIOUS
    <3> HIDE DEF q, At
    <3> QED
      BY <3>1, <3>2, <3>3 DEF Ordered
  <2>5. \A j \in 2..n : new[q[j]] = set[q[j]] /\ q[j] \in Csim!Valid(set)
    <3>1. \A j \in 2..n : q[j] \in Csim!Valid(set)
      BY <1>4, <2>1
    <3> HIDE DEF q
    <3> QED
      BY <1>3, <1>5, <2>3, <3>1
  <2>6. q[1] = i
    OBVIOUS
  <2> HIDE DEF q
  <2>7. \A j, l \in 1..n : j < l => new[q[j]].LRU > new[q[l]].LRU
    <3> SUFFICES ASSUME NEW j \in 1..n, NEW l \in 1..n, j < l
                 PROVE  new[q[j]].LRU > new[q[l]].LRU
      OBVIOUS
    <3>1. l \in 2..n /\ new[q[l]] = set[q[l]] /\ q[l] \in Csim!Valid(set)
      BY <2>5
    <3>2. CASE j = 1
      BY <1>3, <1>5, <2>6, <3>1, <3>2
    <3>3. CASE j # 1
      BY <2>4, <2>5, <3>1, <3>3
    <3> QED
      BY <3>2, <3>3
  <2> QED
    BY <2>1, <2>2, <2>7 DEF Ordered
<1>9. SetInv(new, now + 1)
  BY <1>3, <1>6, <1>8 DEF SetInv
<1>10. Csim!Recent(new) = <<tag>> \o RemoveAt(Csim!Recent(set), k)
  <2> DEFINE r == Csim!Recent(set)
             t == <<tag>> \o RemoveAt(r, k)
             h == Csim!Recent(new)
  <2>1. r \in Seq(Tags) /\ Len(r) = n /\ r = [j \in 1..n |-> set[p[j]].tag]
    BY <1>1, OrderIs
  <2>2. h \in Seq(Tags) /\ Len(h) = n /\ h = [j \in 1..n |-> new[q[j]].tag]
    <3> HIDE DEF q
    <3>1. new \in Lines /\ n \in Nat
      BY <1>3
    <3> QED
      BY <1>8, <3>1, OrderIs
  <2>3. k \in 1..Len(r)
    BY <2>1
  <2> HIDE DEF r, h
  <2>4. /\ RemoveAt(r, k) \in Seq(Tags) /\ Len(RemoveAt(r, k)) = n - 1
        /\ \A j \in 1..n-1 : RemoveAt(r, k)[j] = IF j < k THEN r[j] ELSE r[j+1]
    BY <2>1, <2>3, Removed
  <2>5. /\ t \in Seq(Tags) /\ Len(t) = n /\ t[1] = tag
        /\ \A j \in 1..n-1 : t[j+1] = RemoveAt(r, k)[j]
    BY <2>4, InFront
  <2> HIDE DEF t
  <2>6. ASSUME NEW j \in 1..n
        PROVE  h[j] = t[j]
    <3>1. CASE j = 1
      BY <1>3, <2>2, <2>5, <3>1
    <3>2. CASE j # 1
      <4>1. j - 1 \in 1..n-1 /\ (j - 1) + 1 = j
        BY <3>2
      <4>2. t[j] = IF j - 1 < k THEN r[j-1] ELSE r[j]
        BY <2>4, <2>5, <4>1
      <4>3. q[j] = IF j <= k THEN p[j-1] ELSE p[j]
        BY <3>2
      <4>4. new[q[j]] = set[q[j]]
        <5>1. q[j] \in Csim!Valid(set) /\ q[j] # i
          <6>1. CASE j <= k
            <7>1. q[j] = p[j-1] /\ j - 1 \in 1..n /\ j - 1 # k
              BY <4>3, <6>1, <3>2
            <7> QED
              BY <1>1, <1>7, <7>1
          <6>2. CASE j > k
            <7>1. q[j] = p[j] /\ j # k
              BY <4>3, <6>2
            <7> QED
              BY <1>1, <1>7, <7>1
          <6> QED
            BY <6>1, <6>2
        <5> QED
          BY <1>3, <1>5, <5>1
      <4>5. h[j] = set[q[j]].tag
        BY <2>2, <4>4
      <4> QED
        BY <2>1, <4>1, <4>2, <4>3, <4>5
    <3> QED
      BY <3>1, <3>2
  <2>7. h = t
    BY <2>2, <2>5, <2>6, SeqEqual
  <2> QED
    BY <2>7 DEF h, t, r
<1> QED
  BY <1>9, <1>10

\* The same with its parts named: no other line holds the tag; the set after.
OnlyAt(set, i, tag) == \A j \in Csim!Valid(set) : j # i => set[j].tag # tag
Moved(new, set, now, k, tag) == /\ SetInv(new, now + 1)
                                /\ Csim!Recent(new) = <<tag>> \o RemoveAt(Csim!Recent(set), k)

\* A line that is used again, by the names.
LEMMA Moving ==
  ASSUME NEW now \in Nat, NEW set, SetInv(set, now),
         NEW n \in Nat, NEW p, Ordered(p, n, set), NEW k \in 1..n, NEW tag \in Tags,
         OnlyAt(set, p[k], tag),
         NEW new, IsUsed(new, set, p[k], now, tag)
  PROVE  Moved(new, set, now, k, tag)
<1>1. \A j \in Csim!Valid(set) : j # p[k] => set[j].tag # tag
  BY DEF OnlyAt
<1> QED
  BY <1>1, Touch DEF Moved

\* A line that is used for the first time becomes the first of the order.
LEMMA Fill ==
  ASSUME NEW now \in Nat, NEW set, SetInv(set, now),
         NEW n \in Nat, NEW p, Ordered(p, n, set),
         NEW i \in 0..LineCount-1, ~ set[i].valid, NEW tag \in Tags,
         \A j \in Csim!Valid(set) : set[j].tag # tag,
         NEW new, IsUsed(new, set, i, now, tag)
  PROVE  /\ SetInv(new, now + 1)
         /\ Csim!Recent(new) = <<tag>> \o Csim!Recent(set)
<1> DEFINE q == [j \in 1..n+1 |-> IF j = 1 THEN i ELSE p[j-1]]
<1>1. set \in Lines /\ p \in [1..n -> Csim!Valid(set)]
  BY DEF SetInv, Ordered
<1>2. i \notin Csim!Valid(set)
  BY <1>1, ValidLines
<1>3. /\ new \in Lines
      /\ new[i] = [LRU |-> now, valid |-> TRUE, tag |-> tag]
      /\ \A j \in 0..LineCount-1 : j # i => new[j] = set[j]
  BY <1>1, <1>2 DEF Lines, Line, IsUsed
<1>4. Csim!Valid(new) = Csim!Valid(set) \cup {i}
  <2>1. /\ Csim!Valid(set) = {j \in 0..LineCount-1 : set[j].valid}
        /\ Csim!Valid(new) = {j \in 0..LineCount-1 : new[j].valid}
    BY <1>1, <1>3, ValidLines
  <2>2. new[i].valid
    BY <1>3
  <2>3. \A j \in 0..LineCount-1 : new[j].valid <=> set[j].valid \/ j = i
    BY <1>3, <2>2
  <2> QED
    BY <2>1, <2>3, Zenon
<1>5. \A j \in Csim!Valid(set) : j \in 0..LineCount-1 /\ set[j].LRU \in Nat /\ set[j].LRU < now
  BY <1>1, ValidLines DEF SetInv
<1>6. \A j \in Csim!Valid(set) : j # i /\ new[j] = set[j]
  BY <1>2, <1>3, <1>5
<1>7. /\ \A j \in Csim!Valid(new) : new[j].LRU < now + 1
      /\ \A j, l \in Csim!Valid(new) : new[j].tag = new[l].tag => j = l
  <2>1. \A j \in Csim!Valid(new) : new[j].LRU < now + 1
    BY <1>3, <1>4, <1>5, <1>6
  <2>2. \A j, l \in Csim!Valid(new) : new[j].tag = new[l].tag => j = l
    <3>1. new[i].tag = tag
      BY <1>3
    <3> QED
      BY <1>4, <1>6, <3>1 DEF SetInv
  <2> QED
    BY <2>1, <2>2
<1>8. Ordered(q, n + 1, new)
  <2>1. q \in [1..n+1 -> Csim!Valid(new)]
    BY <1>1, <1>4
  <2>2. /\ q[1] = i
        /\ \A j \in 1..n : q[j + 1] = p[j]
        /\ \A j \in 2..n+1 : j - 1 \in 1..n /\ q[j] = p[j-1]
    OBVIOUS
  <2> HIDE DEF q
  <2>3. \A j \in Csim!Valid(new) : \E l \in 1..n+1 : q[l] = j
    <3> SUFFICES ASSUME NEW j \in Csim!Valid(new) PROVE \E l \in 1..n+1 : q[l] = j
      OBVIOUS
    <3>1. CASE j = i
      BY <2>2, <3>1
    <3>2. CASE j # i
      <4>1. PICK l \in 1..n : p[l] = j
        BY <1>4, <3>2 DEF Ordered
      <4> QED
        BY <2>2, <4>1
    <3> QED
      BY <3>1, <3>2
  <2>4. \A j, l \in 1..n+1 : j < l => new[q[j]].LRU > new[q[l]].LRU
    <3> SUFFICES ASSUME NEW j \in 1..n+1, NEW l \in 1..n+1, j < l
                 PROVE  new[q[j]].LRU > new[q[l]].LRU
      OBVIOUS
    <3>1. l - 1 \in 1..n /\ q[l] = p[l-1] /\ q[l] \in Csim!Valid(set) /\ new[q[l]] = set[q[l]]
      BY <1>1, <1>6, <2>2
    <3>2. CASE j = 1
      BY <1>3, <1>5, <2>2, <3>1, <3>2
    <3>3. CASE j # 1
      <4>1. j - 1 \in 1..n /\ j - 1 < l - 1 /\ q[j] = p[j-1]
        BY <2>2, <3>3
      <4>2. new[q[j]] = set[q[j]]
        BY <1>1, <1>6, <4>1
      <4>3. set[p[j-1]].LRU > set[p[l-1]].LRU
        BY <3>1, <4>1 DEF Ordered
      <4> QED
        BY <3>1, <4>1, <4>2, <4>3
    <3> QED
      BY <3>2, <3>3
  <2> QED
    BY <2>1, <2>3, <2>4 DEF Ordered
<1>9. SetInv(new, now + 1)
  BY <1>3, <1>7, <1>8 DEF SetInv
<1>10. Csim!Recent(new) = <<tag>> \o Csim!Recent(set)
  <2> DEFINE r == Csim!Recent(set)
             t == <<tag>> \o r
             h == Csim!Recent(new)
  <2>1. r \in Seq(Tags) /\ Len(r) = n /\ r = [j \in 1..n |-> set[p[j]].tag]
    BY <1>1, OrderIs
  <2>2. h \in Seq(Tags) /\ Len(h) = n + 1 /\ h = [j \in 1..n+1 |-> new[q[j]].tag]
    <3> HIDE DEF q
    <3>1. new \in Lines /\ n+1 \in Nat
      BY <1>3
    <3> QED
      BY <1>8, <3>1, OrderIs
  <2> HIDE DEF r, h
  <2>3. t \in Seq(Tags) /\ Len(t) = n + 1 /\ t[1] = tag /\ \A j \in 1..n : t[j+1] = r[j]
    BY <2>1, InFront
  <2> HIDE DEF t
  <2>4. ASSUME NEW j \in 1..n+1
        PROVE  h[j] = t[j]
    <3>1. CASE j = 1
      BY <1>3, <2>2, <2>3, <3>1
    <3>2. CASE j # 1
      <4>1. j - 1 \in 1..n /\ (j - 1) + 1 = j
        BY <3>2
      <4>2. t[j] = r[j-1] /\ r[j-1] = set[p[j-1]].tag
        BY <2>1, <2>3, <4>1
      <4>3. q[j] = p[j-1] /\ p[j-1] \in Csim!Valid(set)
        BY <1>1, <3>2, <4>1
      <4> QED
        BY <1>6, <2>2, <4>2, <4>3
    <3> QED
      BY <3>1, <3>2
  <2> QED
    <3>1. h = t
      BY <2>2, <2>3, <2>4, SeqEqual
    <3> QED
      BY <3>1 DEF h, t, r
<1> QED
  BY <1>9, <1>10

\* All lines are valid when the order is as long as the set, and the line that is
\* evicted is then the last of the order.
LEMMA Full ==
  ASSUME LineCount \in Nat \ {0}, NEW set \in Lines, NEW n \in Nat, NEW p, Ordered(p, n, set)
  PROVE  /\ n <= LineCount
         /\ n = LineCount <=> {i \in DOMAIN set : ~ set[i].valid} = {}
         /\ n = LineCount => Csim!Victim(set) = p[n]
<1>1. IsFiniteSet(0..LineCount-1) /\ Cardinality(0..LineCount-1) = LineCount
  <2>1. 0 \in Int /\ LineCount - 1 \in Int
    OBVIOUS
  <2> QED
    BY <2>1, FS_Interval
<1>2. Csim!Valid(set) = {i \in 0..LineCount-1 : set[i].valid} /\ DOMAIN set = 0..LineCount-1
  BY ValidLines DEF Lines
<1>3. Cardinality(Csim!Valid(set)) = n
  BY OrderLength
<1>4. /\ n <= LineCount
      /\ n = LineCount => 0..LineCount-1 = Csim!Valid(set)
  <2>1. Csim!Valid(set) \in SUBSET (0..LineCount-1)
    BY <1>2
  <2> HIDE DEF Csim!Valid
  <2> QED
    BY <1>1, <1>3, <2>1, FS_Subset
<1>5. 0..LineCount-1 = Csim!Valid(set) => n = LineCount
  BY <1>1, <1>3
<1>6. 0..LineCount-1 = Csim!Valid(set) <=> {i \in DOMAIN set : ~ set[i].valid} = {}
  BY <1>2
<1>7. ASSUME n = LineCount
      PROVE  Csim!Victim(set) = p[n]
  <2>1. DOMAIN set = Csim!Valid(set) /\ p[n] \in Csim!Valid(set) /\ n \in 1..n
    BY <1>2, <1>4, <1>7 DEF Ordered
  <2>2. \A j \in Csim!Valid(set) : set[j].LRU \in Nat
    BY ValidLines
  <2>3. \A j \in Csim!Valid(set) : j # p[n] => set[p[n]].LRU < set[j].LRU
    <3> SUFFICES ASSUME NEW j \in Csim!Valid(set), j # p[n] PROVE set[p[n]].LRU < set[j].LRU
      OBVIOUS
    <3>1. PICK k \in 1..n : p[k] = j
      BY DEF Ordered
    <3>2. k < n
      BY <3>1
    <3>3. set[p[k]].LRU > set[p[n]].LRU
      BY <2>1, <3>2 DEF Ordered
    <3> QED
      BY <2>1, <2>2, <3>1, <3>3
  <2> DEFINE Oldest(i) == \A j \in DOMAIN set :
               set[i].LRU < set[j].LRU \/ (set[i].LRU = set[j].LRU /\ i <= j)
  <2>4. p[n] \in DOMAIN set /\ Oldest(p[n])
    <3>1. p[n] \in 0..LineCount-1 /\ p[n] <= p[n]
      BY <1>2, <2>1
    <3> QED
      BY <2>1, <2>2, <2>3, <3>1
  <2>5. ASSUME NEW i \in DOMAIN set, Oldest(i)
        PROVE  i = p[n]
    <3>1. i # p[n] => set[p[n]].LRU < set[i].LRU
      BY <2>1, <2>3
    <3>2. set[i].LRU <= set[p[n]].LRU
      BY <2>1, <2>2, <2>4, <2>5
    <3> QED
      BY <2>1, <2>2, <3>1, <3>2
  <2>6. Csim!Victim(set) = CHOOSE i \in DOMAIN set : Oldest(i)
    BY DEF Csim!Victim
  <2> HIDE DEF Oldest
  <2> QED
    BY <2>4, <2>5, <2>6
<1> QED
  BY <1>4, <1>5, <1>6, <1>7

\* What the shifts multiply and divide by.
LEMMA Powers ==
  ASSUME AddressBits \in Nat
  PROVE  /\ Csim!pow2 \in [0..AddressBits -> Nat \ {0}] /\ Csim!pow2[0] = 1
         /\ \A k \in 1..AddressBits : Csim!pow2[k] = 2 * Csim!pow2[k-1]
<1> DEFINE D == Nat \ {0}
           G == [z \in D \X Nat |-> 2 * z[1]]
           Is(f) == f = [k \in 0..AddressBits |-> IF k = 0 THEN 1 ELSE 2 * f[k-1]]
<1>1. PICK f : Iteration(f, D, 1, G, AddressBits)
  <2>1. 1 \in D /\ G \in [D \X Nat -> D]
    OBVIOUS
  <2> HIDE DEF G, D
  <2> QED
    BY <2>1, Iterates
<1>2. f \in [0..AddressBits -> D] /\ f[0] = 1 /\ \A k \in 1..AddressBits : f[k] = 2 * f[k-1]
  <2>1. f \in [0..AddressBits -> D] /\ f[0] = 1 /\ \A k \in 1..AddressBits : f[k] = G[<<f[k-1], k>>]
    BY <1>1 DEF Iteration
  <2>2. \A k \in 1..AddressBits : k - 1 \in 0..AddressBits /\ k \in Nat
    OBVIOUS
  <2> HIDE DEF D
  <2>3. \A k \in 1..AddressBits : f[k-1] \in D /\ <<f[k-1], k>> \in D \X Nat
    BY <2>1, <2>2
  <2> QED
    BY <2>1, <2>3
<1>3. Is(f)
  BY <1>2
<1>4. Csim!pow2 = CHOOSE g : Is(g)
  BY DEF Csim!pow2
<1> HIDE DEF Is
<1>5. Is(Csim!pow2)
  BY <1>3, <1>4
<1>6. \A k \in 0..AddressBits : Csim!pow2[k] = IF k = 0 THEN 1 ELSE 2 * Csim!pow2[k-1]
  BY <1>5 DEF Is
<1>7. DOMAIN Csim!pow2 = 0..AddressBits /\ Csim!pow2 = [k \in 0..AddressBits |-> Csim!pow2[k]]
  BY <1>5 DEF Is
<1> DEFINE T == {k \in Nat : k <= AddressBits => Csim!pow2[k] \in D}
<1>8. 0 \in T
  BY <1>6
<1>9. \A k \in Nat : k \in T => k + 1 \in T
  BY <1>6
<1>10. \A k \in Nat : k \in T
  <2> HIDE DEF T
  <2> QED
    BY <1>8, <1>9, AllNumbers
<1>11. \A k \in 0..AddressBits : Csim!pow2[k] \in D
  BY <1>10
<1> HIDE DEF T
<1>12. \A k \in 1..AddressBits : Csim!pow2[k] = 2 * Csim!pow2[k-1]
  BY <1>6
<1>13. Csim!pow2 \in [0..AddressBits -> D]
  BY <1>7, <1>11, Zenon
<1>14. Csim!pow2[0] = 1
  BY <1>6
<1> QED
  BY <1>12, <1>13, <1>14

\* Two shifts in one.
LEMMA PowerSum ==
  ASSUME AddressBits \in Nat, NEW i \in Nat, NEW j \in Nat, i + j <= AddressBits
  PROVE  Csim!pow2[i + j] = Csim!pow2[i] * Csim!pow2[j]
<1> DEFINE T == {k \in Nat : i + k <= AddressBits => Csim!pow2[i + k] = Csim!pow2[i] * Csim!pow2[k]}
<1>1. \A k \in 0..AddressBits : Csim!pow2[k] \in Nat
  BY Powers
<1>2. 0 \in T
  BY <1>1, Powers
<1>3. ASSUME NEW k \in Nat, k \in T
      PROVE  k + 1 \in T
  <2> SUFFICES ASSUME i + (k + 1) <= AddressBits PROVE Csim!pow2[i + (k + 1)] = Csim!pow2[i] * Csim!pow2[k + 1]
    OBVIOUS
  <2>1. Csim!pow2[i + k] = Csim!pow2[i] * Csim!pow2[k]
    BY <1>3
  <2>2. Csim!pow2[k + 1] = 2 * Csim!pow2[k]
    <3>1. k + 1 \in 1..AddressBits /\ (k + 1) - 1 = k
      OBVIOUS
    <3> QED
      BY <3>1, Powers
  <2>3. Csim!pow2[i + (k + 1)] = 2 * Csim!pow2[i + k]
    <3>1. i + (k + 1) \in 1..AddressBits /\ (i + (k + 1)) - 1 = i + k
      OBVIOUS
    <3> QED
      BY <3>1, Powers
  <2>4. Csim!pow2[i] \in Nat /\ Csim!pow2[k] \in Nat
    BY <1>1
  <2>5. \A x, y \in Nat : 2 * (x * y) = x * (2 * y)
    OBVIOUS
  <2> QED
    BY <2>1, <2>2, <2>3, <2>4, <2>5
<1> HIDE DEF T
<1>4. j \in T
  BY <1>2, <1>3, AllNumbers
<1> QED
  BY <1>4 DEF T

\* The quotient of a number below a product.
LEMMA Quotient ==
  ASSUME NEW d \in Nat \ {0}, NEW e \in Nat, NEW x \in Nat, x < d * e
  PROVE  x \div d \in 0..e-1
<1>1. x \div d \in Int /\ x % d \in Int /\ x = d * (x \div d) + (x % d) /\ 0 <= x % d /\ x % d < d
  OBVIOUS
<1> DEFINE q == x \div d
<1>2. q \in Int /\ d * q <= x /\ x < d * (q + 1)
  BY <1>1
<1> HIDE DEF q
<1>3. \A y, z \in Int : d * y < d * z => y < z
  OBVIOUS
<1>4. q < e
  <2>1. d * q < d * e
    BY <1>2
  <2> QED
    BY <1>2, <1>3, <2>1
<1>5. 0 < q + 1
  <2>1. d * 0 < d * (q + 1)
    BY <1>2
  <2> QED
    BY <1>2, <1>3, <2>1
<1> QED
  BY <1>2, <1>4, <1>5 DEF q

-----------------------------------------------------------------------------
Sets == 0..Csim!pow2[SetBits] - 1
Caches == [set : [Sets -> Lines], timeStamp : Nat, num_hit : Nat, num_miss : Nat,
           num_eviction : Nat]

CacheInv(c) == c \in Caches /\ \A x \in Sets : SetInv(c.set[x], c.timeStamp)

\* The times of a set stay in the past.
LEMMA Later ==
  ASSUME NEW now \in Nat, NEW set, SetInv(set, now)
  PROVE  SetInv(set, now + 1)
<1>1. set \in Lines /\ \A i \in Csim!Valid(set) : set[i].LRU \in Nat /\ set[i].LRU < now
  BY ValidLines DEF SetInv
<1>2. \A i \in Csim!Valid(set) : set[i].LRU < now + 1
  BY <1>1
<1> QED
  BY <1>2 DEF SetInv

\* One line of one set is used now, and one of the counts goes up.
Used(c, x, i, tag) ==
  [c EXCEPT !.set[x][i] = [LRU |-> c.timeStamp, valid |-> TRUE, tag |-> tag],
            !.timeStamp = @ + 1]

\* Its lines, and its fields.
UsedSet(set, i, now, tag) == [set EXCEPT ![i] = [LRU |-> now, valid |-> TRUE, tag |-> tag]]
Fields(c, x, new) ==
  [set |-> [c.set EXCEPT ![x] = new], timeStamp |-> c.timeStamp + 1,
   num_hit |-> c.num_hit, num_miss |-> c.num_miss, num_eviction |-> c.num_eviction]

\* The fields after a use.
LEMMA UseFields ==
  ASSUME NEW c \in Caches, NEW x \in Sets, NEW i \in 0..LineCount-1, NEW tag
  PROVE  Used(c, x, i, tag) = Fields(c, x, UsedSet(c.set[x], i, c.timeStamp, tag))
<1> DEFINE line == [LRU |-> c.timeStamp, valid |-> TRUE, tag |-> tag]
           u1 == [c EXCEPT !.set[x][i] = line]
           new == [c.set[x] EXCEPT ![i] = line]
           st == [c.set EXCEPT ![x] = new]
<1>1. Used(c, x, i, tag) = [u1 EXCEPT !.timeStamp = @ + 1]
  BY DEF Used
<1>2. c = [set |-> c.set, timeStamp |-> c.timeStamp, num_hit |-> c.num_hit,
           num_miss |-> c.num_miss, num_eviction |-> c.num_eviction]
  BY DEF Caches
<1>3. u1 = [c EXCEPT !.set = st]
  OBVIOUS
<1> HIDE DEF line, st, u1
<1>4. u1 = [set |-> st, timeStamp |-> c.timeStamp, num_hit |-> c.num_hit,
            num_miss |-> c.num_miss, num_eviction |-> c.num_eviction]
  BY <1>2, <1>3
<1>5. Used(c, x, i, tag) =
        [set |-> st, timeStamp |-> c.timeStamp + 1, num_hit |-> c.num_hit,
         num_miss |-> c.num_miss, num_eviction |-> c.num_eviction]
  BY <1>1, <1>4
<1> QED
  BY <1>5 DEF st, line, Fields, UsedSet

\* The recent tags of every set.
Recents(c) == [y \in DOMAIN c.set |-> Csim!Recent(c.set[y])]

\* A use that keeps its set keeps the cache.
LEMMA UseInv ==
  ASSUME NEW c, CacheInv(c), NEW x \in Sets, NEW new, SetInv(new, c.timeStamp + 1),
         NEW d \in Caches, d.set = [c.set EXCEPT ![x] = new], d.timeStamp = c.timeStamp + 1
  PROVE  /\ CacheInv(d)
         /\ Recents(d) = [Recents(c) EXCEPT ![x] = Csim!Recent(new)]
<1>1. c.timeStamp \in Nat /\ c.set \in [Sets -> Lines]
  BY DEF CacheInv, Caches
<1>2. \A y \in Sets : SetInv(d.set[y], d.timeStamp)
  <2> SUFFICES ASSUME NEW y \in Sets PROVE SetInv(d.set[y], d.timeStamp)
    OBVIOUS
  <2>1. CASE y = x
    BY <1>1, <2>1
  <2>2. CASE y # x
    <3>1. SetInv(c.set[y], c.timeStamp + 1)
      BY <1>1, Later DEF CacheInv
    <3> QED
      BY <1>1, <2>2, <3>1
  <2> QED
    BY <2>1, <2>2
<1>3. CacheInv(d)
  BY <1>2 DEF CacheInv
<1>4. /\ DOMAIN d.set = Sets /\ DOMAIN c.set = Sets
      /\ d.set[x] = new /\ \A y \in Sets : y # x => d.set[y] = c.set[y]
  BY <1>1
<1> QED
  BY <1>3, <1>4 DEF Recents

\* An access that finds its tag, as LruCache's Hit.
HitStep(c, d, x, tag) ==
  /\ \E k \in DOMAIN Recents(c)[x] :
       /\ Recents(c)[x][k] = tag
       /\ Recents(d) = [Recents(c) EXCEPT ![x] = <<tag>> \o RemoveAt(@, k)]
  /\ d.num_hit = c.num_hit + 1
  /\ d.num_miss = c.num_miss /\ d.num_eviction = c.num_eviction

\* One that does not, as its Miss.
MissStep(c, d, x, tag) ==
  /\ tag \notin ToSet(Recents(c)[x])
  /\ d.num_miss = c.num_miss + 1
  /\ LET full == Len(Recents(c)[x]) = LineCount
     IN  /\ Recents(d) = [Recents(c) EXCEPT ![x] = <<tag>> \o (IF full THEN Front(@) ELSE @)]
         /\ d.num_eviction = c.num_eviction + (IF full THEN 1 ELSE 0)
  /\ d.num_hit = c.num_hit

\* The least of a set of lines.
LEMMA FirstLine ==
  ASSUME NEW is \in SUBSET (0..LineCount-1), is # {}
  PROVE  (CHOOSE i \in is : \A j \in is : i <= j) \in is
<1> DEFINE R == OpToRel(<, Nat)
<1>1. IsWellFoundedOn(R, Nat)
  BY NatLessThanWellFounded
<1>2. \A x, y \in Nat : <<x, y>> \in R <=> x < y
  BY DEF OpToRel
<1>3. is \in SUBSET Nat
  OBVIOUS
<1> HIDE DEF R
<1>4. PICK x \in is : \A y \in is : ~ (<<y, x>> \in R)
  BY <1>1, <1>3, WFMin, Zenon
<1> DEFINE Smallest(i) == \A y \in is : i <= y
<1>5. Smallest(x)
  <2> SUFFICES ASSUME NEW y \in is PROVE x <= y
    OBVIOUS
  <2>1. x \in Nat /\ y \in Nat /\ ~ (y < x)
    BY <1>2, <1>3, <1>4
  <2> QED
    BY <2>1
<1> HIDE DEF Smallest
<1>6. (CHOOSE i \in is : Smallest(i)) \in is
  BY <1>5
<1> QED
  BY <1>6 DEF Smallest

\* updateCache is a use of the line with the tag, of a free one or of the last of the order.
LEMMA UpdateStep ==
  ASSUME LineCount \in Nat \ {0}, NEW c, CacheInv(c), NEW x \in Sets, NEW tag \in Tags
  PROVE  LET d == Csim!updateCache(c, x, tag)
         IN  CacheInv(d) /\ (HitStep(c, d, x, tag) \/ MissStep(c, d, x, tag))
<1> DEFINE lines == c.set[x]
           hit == {i \in DOMAIN lines : Csim!Match(lines[i], tag)}
           free == {i \in DOMAIN lines : ~lines[i].valid}
           First(is) == CHOOSE i \in is : \A j \in is : i <= j
           i == IF hit # {} THEN First(hit) ELSE IF free # {} THEN First(free) ELSE Csim!Victim(lines)
           u == Used(c, x, i, tag)
           new == [lines EXCEPT ![i] = [LRU |-> c.timeStamp, valid |-> TRUE, tag |-> tag]]
           d == Csim!updateCache(c, x, tag)
           r == Recents(c)[x]
<1>1. d = CASE hit # {} -> [u EXCEPT !.num_hit = @ + 1]
            [] hit = {} /\ free # {} -> [u EXCEPT !.num_miss = @ + 1]
            [] OTHER -> [u EXCEPT !.num_miss = @ + 1, !.num_eviction = @ + 1]
  BY DEF Csim!updateCache, Used
<1>2. /\ c \in Caches /\ c.timeStamp \in Nat /\ c.set \in [Sets -> Lines]
      /\ c.num_hit \in Nat /\ c.num_miss \in Nat /\ c.num_eviction \in Nat
      /\ SetInv(lines, c.timeStamp) /\ lines \in Lines
  BY DEF CacheInv, Caches, SetInv
<1>0. PICK n \in Nat : \E p : Ordered(p, n, lines)
  BY <1>2 DEF SetInv
<1>3. PICK p : Ordered(p, n, lines)
  BY <1>0
<1>4. /\ r = [k \in 1..n |-> lines[p[k]].tag] /\ r \in Seq(Tags) /\ Len(r) = n
      /\ r = Csim!Recent(lines)
  <2>1. r = Csim!Recent(lines)
    BY <1>2 DEF Recents
  <2> QED
    BY <1>2, <1>3, <2>1, OrderIs
<1>5. /\ p \in [1..n -> Csim!Valid(lines)] /\ \A j \in Csim!Valid(lines) : \E k \in 1..n : p[k] = j
      /\ DOMAIN lines = 0..LineCount-1
      /\ Csim!Valid(lines) = {j \in 0..LineCount-1 : lines[j].valid}
      /\ hit = {j \in Csim!Valid(lines) : lines[j].tag = tag}
      /\ \A j, k \in Csim!Valid(lines) : lines[j].tag = lines[k].tag => j = k
  BY <1>2, <1>3, ValidLines DEF Ordered, Lines, Csim!Match, SetInv
<1> HIDE DEF hit, free, First, i, d, r, lines
<1>6. ASSUME i \in 0..LineCount-1
      PROVE  u = [set |-> [c.set EXCEPT ![x] = new], timeStamp |-> c.timeStamp + 1,
                  num_hit |-> c.num_hit, num_miss |-> c.num_miss,
                  num_eviction |-> c.num_eviction]
  <2>1. c \in Caches /\ x \in Sets /\ i \in 0..LineCount-1
    BY <1>2, <1>6
  <2>2. Used(c, x, i, tag) = Fields(c, x, UsedSet(c.set[x], i, c.timeStamp, tag))
    BY <2>1, UseFields, Zenon
  <2> QED
    BY <2>2, Zenon DEF lines, Fields, UsedSet
<1> DEFINE st == [c.set EXCEPT ![x] = new]
           now == c.timeStamp
<1>7. IsUsed(new, lines, i, now, tag)
  BY DEF IsUsed
<1> HIDE DEF u, new
<1>8. ASSUME SetInv(new, now + 1),
             NEW a \in Nat, NEW m \in Nat, NEW e \in Nat,
             d = [set |-> st, timeStamp |-> now + 1,
                  num_hit |-> a, num_miss |-> m, num_eviction |-> e]
      PROVE  /\ CacheInv(d) /\ Recents(d) = [Recents(c) EXCEPT ![x] = Csim!Recent(new)]
             /\ d.num_hit = a /\ d.num_miss = m /\ d.num_eviction = e
  <2>1. new \in Lines
    BY <1>8 DEF SetInv
  <2>2. st \in [Sets -> Lines] /\ now + 1 \in Nat
    BY <1>2, <2>1
  <2>3. d.set = [c.set EXCEPT ![x] = new] /\ d.timeStamp = c.timeStamp + 1
    BY <1>8
  <2> HIDE DEF st, now
  <2>4. d \in Caches
    BY <1>8, <2>2 DEF Caches
  <2>5. d.num_hit = a /\ d.num_miss = m /\ d.num_eviction = e
    BY <1>8
  <2>6. SetInv(new, c.timeStamp + 1)
    BY <1>8 DEF now
  <2>7. CacheInv(d)
    BY <2>3, <2>4, <2>6, UseInv
  <2>8. Recents(d) = [Recents(c) EXCEPT ![x] = Csim!Recent(new)]
    BY <2>3, <2>4, <2>6, UseInv
  <2> QED
    BY <2>5, <2>7, <2>8
<1>9. now \in Nat /\ SetInv(lines, now)
  BY <1>2
<1> HIDE DEF st, now
<1>10. CASE hit # {}
  <2>1. PICK j \in Csim!Valid(lines) : j \in hit /\ lines[j].tag = tag
    BY <1>5, <1>10
  <2>2. hit = {j}
    BY <1>5, <2>1
  <2>3. i \in hit
    <3>1. hit \in SUBSET (0..LineCount-1)
      BY <1>5
    <3>2. First(hit) \in hit
      BY <1>10, <3>1, FirstLine DEF First
    <3> QED
      BY <1>10, <3>2 DEF i
  <2>4. i = j /\ i \in 0..LineCount-1
    BY <1>5, <2>1, <2>2, <2>3
  <2>5. PICK k \in 1..n : p[k] = i
    BY <1>5, <2>4
  <2>6. \A l \in Csim!Valid(lines) : l # p[k] => lines[l].tag # tag
    BY <1>5, <2>1, <2>4, <2>5
  <2>7. SetInv(new, now + 1) /\ Csim!Recent(new) = <<tag>> \o RemoveAt(Csim!Recent(lines), k)
    <3>1. IsUsed(new, lines, p[k], now, tag)
      BY <1>7, <2>5
    <3> QED
      <4>1. OnlyAt(lines, p[k], tag)
        BY <2>6 DEF OnlyAt
      <4>2. Moved(new, lines, now, k, tag)
        BY <1>3, <1>9, <3>1, <4>1, Moving, Zenon
      <4> QED
        BY <4>2 DEF Moved
  <2>8. d = [set |-> st, timeStamp |-> now + 1, num_hit |-> c.num_hit + 1,
             num_miss |-> c.num_miss, num_eviction |-> c.num_eviction]
    <3>1. u = [set |-> st, timeStamp |-> now + 1, num_hit |-> c.num_hit,
               num_miss |-> c.num_miss, num_eviction |-> c.num_eviction]
      BY <1>6, <2>4 DEF st, now
    <3>2. d = [u EXCEPT !.num_hit = @ + 1]
      BY <1>1, <1>10
    <3> QED
      BY <3>1, <3>2
  <2>9. /\ CacheInv(d) /\ Recents(d) = [Recents(c) EXCEPT ![x] = Csim!Recent(new)]
        /\ d.num_hit = c.num_hit + 1 /\ d.num_miss = c.num_miss /\ d.num_eviction = c.num_eviction
    <3>1. c.num_hit + 1 \in Nat
      BY <1>2
    <3> QED
      BY <1>2, <1>8, <2>7, <2>8, <3>1
  <2>10. k \in DOMAIN r /\ r[k] = tag
    BY <1>4, <2>1, <2>4, <2>5
  <2>11. Recents(d) = [Recents(c) EXCEPT ![x] = <<tag>> \o RemoveAt(@, k)]
    BY <1>4, <2>7, <2>9 DEF r
  <2>12. HitStep(c, d, x, tag)
    BY <2>9, <2>10, <2>11 DEF HitStep, r
  <2> QED
    BY <2>9, <2>12 DEF d
<1>11. ASSUME hit = {}
      PROVE  /\ \A j \in Csim!Valid(lines) : lines[j].tag # tag
             /\ tag \notin ToSet(r)
  <2>1. \A j \in Csim!Valid(lines) : lines[j].tag # tag
    BY <1>5, <1>11
  <2>2. \A k \in 1..n : r[k] # tag
    BY <1>4, <1>5, <2>1
  <2>3. DOMAIN r = 1..n
    BY <1>4
  <2> QED
    BY <2>1, <2>2, <2>3 DEF ToSet
<1>12. (n = LineCount <=> free = {}) /\ (n = LineCount => Csim!Victim(lines) = p[n]) /\ n <= LineCount
  BY <1>2, <1>3, Full DEF free
<1>13. CASE hit = {} /\ free # {}
  <2>1. free = {j \in 0..LineCount-1 : ~ lines[j].valid}
    BY <1>5 DEF free
  <2>2. i \in free
    <3>1. free \in SUBSET (0..LineCount-1)
      BY <2>1
    <3>2. First(free) \in free
      BY <1>13, <3>1, FirstLine DEF First
    <3> QED
      BY <1>13, <3>2 DEF i
  <2>3. i \in 0..LineCount-1 /\ ~ lines[i].valid
    BY <2>1, <2>2
  <2>4. SetInv(new, now + 1) /\ Csim!Recent(new) = <<tag>> \o Csim!Recent(lines)
    BY <1>3, <1>7, <1>9, <1>11, <1>13, <2>3, Fill
  <2>5. d = [set |-> st, timeStamp |-> now + 1, num_hit |-> c.num_hit,
             num_miss |-> c.num_miss + 1, num_eviction |-> c.num_eviction]
    <3>1. u = [set |-> st, timeStamp |-> now + 1, num_hit |-> c.num_hit,
               num_miss |-> c.num_miss, num_eviction |-> c.num_eviction]
      BY <1>6, <2>3 DEF st, now
    <3>2. d = [u EXCEPT !.num_miss = @ + 1]
      BY <1>1, <1>13
    <3> QED
      BY <3>1, <3>2
  <2>6. /\ CacheInv(d) /\ Recents(d) = [Recents(c) EXCEPT ![x] = Csim!Recent(new)]
        /\ d.num_hit = c.num_hit /\ d.num_miss = c.num_miss + 1 /\ d.num_eviction = c.num_eviction
    <3>1. c.num_miss + 1 \in Nat
      BY <1>2
    <3> QED
      BY <1>2, <1>8, <2>4, <2>5, <3>1
  <2>7. Len(r) # LineCount
    BY <1>4, <1>12, <1>13
  <2>8. Recents(d) = [Recents(c) EXCEPT ![x] = <<tag>> \o @]
    BY <1>4, <2>4, <2>6 DEF r
  <2>9. MissStep(c, d, x, tag)
    <3>1. tag \notin ToSet(r)
      BY <1>11, <1>13
    <3>2. c.num_eviction + 0 = c.num_eviction
      BY <1>2
    <3> QED
      BY <2>6, <2>7, <2>8, <3>1, <3>2 DEF MissStep, r
  <2> QED
    BY <2>6, <2>9 DEF d
<1>14. CASE hit = {} /\ free = {}
  <2>1. n = LineCount /\ i = p[n] /\ n \in 1..n
    BY <1>12, <1>14 DEF i
  <2>2. i \in 0..LineCount-1
    BY <1>5, <2>1
  <2>3. SetInv(new, now + 1) /\ Csim!Recent(new) = <<tag>> \o RemoveAt(Csim!Recent(lines), n)
    <3>1. IsUsed(new, lines, p[n], now, tag)
      BY <1>7, <2>1
    <3>2. \A l \in Csim!Valid(lines) : l # p[n] => lines[l].tag # tag
      BY <1>11, <1>14
    <3> QED
      <4>1. OnlyAt(lines, p[n], tag)
        BY <3>2 DEF OnlyAt
      <4>2. Moved(new, lines, now, n, tag)
        BY <1>3, <1>9, <2>1, <3>1, <4>1, Moving, Zenon
      <4> QED
        BY <4>2 DEF Moved
  <2>4. RemoveAt(r, n) = Front(r)
    <3>1. Front(r) = SubSeq(r, 1, n - 1)
      BY <1>4 DEF Front
    <3>2. RemoveAt(r, n) = SubSeq(r, 1, n - 1) \o SubSeq(r, n + 1, n)
      BY <1>4 DEF RemoveAt
    <3>3. SubSeq(r, n + 1, n) = <<>>
      BY SubSeqEmpty
    <3>4. SubSeq(r, 1, n - 1) \in Seq(Tags)
      <4>1. \A j \in 1..n-1 : r[j] \in Tags
        BY <1>4
      <4>2. 1 \in Int /\ n - 1 \in Int
        OBVIOUS
      <4> QED
        BY <4>1, <4>2, SubSeqProperties
    <3> QED
      BY <3>1, <3>2, <3>3, <3>4, ConcatEmptySeq
  <2>5. d = [set |-> st, timeStamp |-> now + 1, num_hit |-> c.num_hit,
             num_miss |-> c.num_miss + 1, num_eviction |-> c.num_eviction + 1]
    <3>1. u = [set |-> st, timeStamp |-> now + 1, num_hit |-> c.num_hit,
               num_miss |-> c.num_miss, num_eviction |-> c.num_eviction]
      BY <1>6, <2>2 DEF st, now
    <3>2. d = [u EXCEPT !.num_miss = @ + 1, !.num_eviction = @ + 1]
      BY <1>1, <1>14
    <3> QED
      BY <3>1, <3>2
  <2>6. /\ CacheInv(d) /\ Recents(d) = [Recents(c) EXCEPT ![x] = Csim!Recent(new)]
        /\ d.num_hit = c.num_hit /\ d.num_miss = c.num_miss + 1
        /\ d.num_eviction = c.num_eviction + 1
    <3>1. c.num_miss + 1 \in Nat /\ c.num_eviction + 1 \in Nat
      BY <1>2
    <3> QED
      BY <1>2, <1>8, <2>3, <2>5, <3>1
  <2>7. Len(r) = LineCount
    BY <1>4, <2>1
  <2>8. Recents(d) = [Recents(c) EXCEPT ![x] = <<tag>> \o Front(@)]
    BY <1>4, <2>3, <2>4, <2>6 DEF r
  <2>9. MissStep(c, d, x, tag)
    BY <1>2, <1>11, <1>14, <2>6, <2>7, <2>8 DEF MissStep, r
  <2> QED
    BY <2>6, <2>9 DEF d
<1> QED
  BY <1>10, <1>13, <1>14

-----------------------------------------------------------------------------
\* The geometry of a cache and its addresses.
CsimAssumption ==
  /\ AddressBits \in Nat /\ SetBits \in Nat /\ BlockBits \in Nat /\ BlockBits + SetBits <= AddressBits
  /\ LineCount \in Nat \ {0}
  /\ TraceAddresses \subseteq 0..Csim!pow2[AddressBits] - 1

CsimInv == CacheInv(simulated) /\ (pending => address \in TraceAddresses)

\* The bits of an address are a set and a tag.
LEMMA Decoded ==
  ASSUME CsimAssumption, NEW a \in TraceAddresses
  PROVE  Csim!SetOf(a) \in Sets /\ Csim!TagOf(a) \in Tags
<1>1. /\ AddressBits \in Nat /\ SetBits \in Nat /\ BlockBits \in Nat /\ BlockBits + SetBits <= AddressBits
      /\ a \in Nat /\ a < Csim!pow2[AddressBits] /\ Csim!pow2 \in [0..AddressBits -> Nat \ {0}]
  BY Powers DEF CsimAssumption
<1>2. BlockBits + SetBits \in 0..AddressBits /\ AddressBits - BlockBits - SetBits \in 0..AddressBits /\ AddressBits - SetBits \in 0..AddressBits /\ SetBits \in 0..AddressBits
  BY <1>1
<1>3. Csim!pow2[AddressBits] = Csim!pow2[BlockBits + SetBits] * Csim!pow2[AddressBits - BlockBits - SetBits]
  <2>1. (BlockBits + SetBits) + (AddressBits - BlockBits - SetBits) = AddressBits
    BY <1>1
  <2> QED
    BY <1>1, <1>2, <2>1, PowerSum
<1>4. Csim!pow2[AddressBits] = Csim!pow2[AddressBits - SetBits] * Csim!pow2[SetBits]
  <2>1. (AddressBits - SetBits) + SetBits = AddressBits
    BY <1>1
  <2> QED
    BY <1>1, <1>2, <2>1, PowerSum
<1>5. Csim!TagOf(a) \in Tags
  <2> DEFINE d == Csim!pow2[BlockBits + SetBits]
             e == Csim!pow2[AddressBits - BlockBits - SetBits]
  <2>1. d \in Nat \ {0} /\ e \in Nat /\ a < d * e
    BY <1>1, <1>2, <1>3
  <2>2. a \div d \in 0..e-1
    <3> HIDE DEF d, e
    <3> QED
      BY <1>1, <2>1, Quotient
  <2> QED
    BY <2>2 DEF Csim!TagOf, Tags
<1>6. Csim!SetOf(a) \in Sets
  <2> DEFINE d == Csim!pow2[AddressBits - SetBits]
             e == Csim!pow2[SetBits]
             y == (a * Csim!pow2[AddressBits - BlockBits - SetBits]) % Csim!pow2[AddressBits]
  <2>1. d \in Nat \ {0} /\ e \in Nat /\ Csim!pow2[AddressBits] = d * e
    BY <1>1, <1>2, <1>4
  <2>2. y \in Nat /\ y < d * e
    <3> DEFINE z == a * Csim!pow2[AddressBits - BlockBits - SetBits]
               m == Csim!pow2[AddressBits]
    <3>1. z \in Nat /\ m \in Nat \ {0}
      <4>1. \A i, j \in Nat : i * j \in Nat
        OBVIOUS
      <4> QED
        BY <1>1, <1>2, <4>1
    <3> HIDE DEF z, m
    <3>2. z % m \in Nat /\ z % m < m
      BY <3>1
    <3> QED
      BY <2>1, <3>2 DEF z, m
  <2>3. y \div d \in 0..e-1
    <3> HIDE DEF d, e, y
    <3> QED
      BY <2>1, <2>2, Quotient
  <2> QED
    BY <2>3 DEF Csim!SetOf, Sets
<1> QED
  BY <1>5, <1>6

\* An empty set has no recent tag.
LEMMA EmptySet ==
  ASSUME LineCount \in Nat \ {0}
  PROVE  LET set == [j \in 0..LineCount-1 |-> Csim!Unused]
         IN  (AddressBits \in Nat /\ AddressBits - BlockBits - SetBits \in 0..AddressBits => SetInv(set, 0)) /\ Csim!Recent(set) = <<>>
<1> DEFINE set == [j \in 0..LineCount-1 |-> Csim!Unused]
<1>1. Csim!Valid(set) = {}
  BY DEF Csim!Valid, Csim!Unused
<1>2. Cardinality(Csim!Valid(set)) = 0
  BY <1>1, FS_EmptySet
<1>3. Csim!Recent(set) = <<>>
  BY <1>2, SameSetOperators DEF Csim!Recent
<1>4. ASSUME AddressBits \in Nat, AddressBits - BlockBits - SetBits \in 0..AddressBits
      PROVE  SetInv(set, 0)
  <2>1. set \in Lines
    <3>1. 0 \in Tags
      BY <1>4, Powers DEF Tags
    <3> QED
      BY <3>1 DEF Lines, Line, Csim!Unused
  <2>2. Ordered(<<>>, 0, set)
    BY <1>1 DEF Ordered
  <2> HIDE DEF set
  <2> QED
    BY <1>1, <2>1, <2>2 DEF SetInv
<1> QED
  BY <1>3, <1>4

\* An unused cache, as LruCache begins.
LEMMA CsimInit ==
  ASSUME CsimAssumption, Csim!Init
  PROVE  CsimInv /\ Csim!Lru!Init
<1>1. /\ AddressBits \in Nat /\ LineCount \in Nat \ {0} /\ AddressBits - BlockBits - SetBits \in 0..AddressBits /\ SetBits \in 0..AddressBits
      /\ Csim!pow2 \in [0..AddressBits -> Nat \ {0}]
  BY Powers DEF CsimAssumption
<1> DEFINE set == [j \in 0..LineCount-1 |-> Csim!Unused]
<1>2. simulated = [set |-> [i \in Sets |-> set], timeStamp |-> 0, num_hit |-> 0,
               num_miss |-> 0, num_eviction |-> 0]
  BY DEF Csim!Init, Csim!initCache, Sets
<1>3. SetInv(set, 0) /\ Csim!Recent(set) = <<>>
  BY <1>1, EmptySet
<1>4. set \in Lines
  BY <1>3 DEF SetInv
<1> HIDE DEF set
<1>5. CacheInv(simulated)
  <2>1. simulated \in Caches
    BY <1>2, <1>4 DEF Caches
  <2>2. \A x \in Sets : simulated.set[x] = set
    BY <1>2
  <2>3. simulated.timeStamp = 0
    BY <1>2
  <2> QED
    BY <1>3, <2>1, <2>2, <2>3 DEF CacheInv
<1>6. [i \in DOMAIN simulated.set |-> Csim!Recent(simulated.set[i])] = [i \in Sets |-> <<>>]
  BY <1>2, <1>3
<1>7. simulated.num_hit = 0 /\ simulated.num_miss = 0 /\ simulated.num_eviction = 0
  BY <1>2
<1>8. ~ pending
  BY DEF Csim!Init
<1> QED
  BY <1>5, <1>6, <1>7, <1>8 DEF CsimInv, Csim!Lru!Init, Sets

\* An access of the simulator is one of the abstract cache.
LEMMA CsimAccess ==
  ASSUME CsimAssumption, CsimInv, NEW a \in TraceAddresses, address' = a,
         simulated' = Csim!updateCache(simulated, Csim!SetOf(a), Csim!TagOf(a))
  PROVE  CacheInv(simulated') /\ Csim!Lru!Next
<1> DEFINE x == Csim!SetOf(a)
           tag == Csim!TagOf(a)
<1>1. x \in Sets /\ tag \in Tags /\ LineCount \in Nat \ {0}
  BY Decoded DEF CsimAssumption
<1>2. CacheInv(simulated') /\ (HitStep(simulated, simulated', x, tag) \/ MissStep(simulated, simulated', x, tag))
  BY <1>1, UpdateStep DEF CsimInv
<1>3. <<Csim!SetOf(address), Csim!TagOf(address)>>' = <<x, tag>>
  BY DEF Csim!SetOf, Csim!TagOf
<1>4. /\ [i \in DOMAIN simulated.set |-> Csim!Recent(simulated.set[i])] = Recents(simulated)
      /\ [i \in DOMAIN simulated.set |-> Csim!Recent(simulated.set[i])]' = Recents(simulated')
  BY DEF Recents
<1> HIDE DEF x, tag
<1>5. HitStep(simulated, simulated', x, tag) => Csim!Lru!Hit(x, tag)
  BY <1>4 DEF HitStep, Csim!Lru!Hit, RemoveAt, Csim!Lru!RemoveAt
<1>6. MissStep(simulated, simulated', x, tag) => Csim!Lru!Miss(x, tag)
  BY <1>4 DEF MissStep, Csim!Lru!Miss, Front, Csim!Lru!Front, ToSet, Csim!Lru!ToSet
<1> QED
  BY <1>1, <1>2, <1>3, <1>5, <1>6 DEF Csim!Lru!Next, Sets, Tags

\* The variables of the abstract cache.
lruVars ==
  <<<<Csim!SetOf(address), Csim!TagOf(address)>>, [i \in DOMAIN simulated.set |-> Csim!Recent(simulated.set[i])],
    simulated.num_hit, simulated.num_miss, simulated.num_eviction>>

\* A line of the trace, or the store of an M.
LEMMA CsimStep ==
  ASSUME CsimAssumption, CsimInv, [Csim!Next]_(Csim!vars)
  PROVE  CsimInv' /\ [Csim!Lru!Next]_lruVars
<1>1. CASE UNCHANGED <<simulated, address, pending>>
  <2>1. CsimInv'
    BY <1>1 DEF CsimInv
  <2>2. UNCHANGED lruVars
    BY <1>1 DEF lruVars
  <2> QED
    BY <2>1, <2>2
<1>2. CASE \E action \in {"L", "S", "M"}, a \in TraceAddresses :
             /\ simulated' = Csim!updateCache(simulated, Csim!SetOf(a), Csim!TagOf(a))
             /\ address' = a
             /\ pending' = (action = "M")
  <2>1. PICK a \in TraceAddresses : simulated' = Csim!updateCache(simulated, Csim!SetOf(a), Csim!TagOf(a)) /\ address' = a
    BY <1>2
  <2>2. CacheInv(simulated') /\ Csim!Lru!Next
    BY <2>1, CsimAccess
  <2> QED
    BY <2>1, <2>2 DEF CsimInv
<1>3. CASE Csim!Store
  <2>1. /\ address \in TraceAddresses /\ address' = address /\ ~ pending'
        /\ simulated' = Csim!updateCache(simulated, Csim!SetOf(address), Csim!TagOf(address))
    BY <1>3 DEF Csim!Store, CsimInv
  <2>2. CacheInv(simulated') /\ Csim!Lru!Next
    BY <2>1, CsimAccess
  <2> QED
    BY <2>1, <2>2 DEF CsimInv
<1> QED
  BY <1>1, <1>2, <1>3 DEF Csim!Next, Csim!Access, Csim!vars

\* For every geometry of the cache and every trace, the hits, misses and evictions that
\* csim.c counts are those of a cache that keeps, in each set, the lines used last.
THEOREM SimulatesLru == ASSUME CsimAssumption PROVE LabProgramsSpec => ImplementsLru
<1>1. LabProgramsInit => CsimInv /\ Csim!Lru!Init
  BY CsimInit DEF LabProgramsInit
<1>2. [LabProgramsNext]_labProgramsVars => [Csim!Next]_(Csim!vars)
  BY DEF LabProgramsNext, labProgramsVars, csimVars, Csim!vars
<1>3. CsimInv /\ [LabProgramsNext]_labProgramsVars => CsimInv' /\ [Csim!Lru!Next]_lruVars
  BY <1>2, CsimStep
<1> QED
  BY <1>1, <1>3, PTL DEF LabProgramsSpec, Csim!Lru!Spec, ImplementsLru, Csim!ImplementsLru, lruVars

-----------------------------------------------------------------------------
(* The tiny server: what it holds and what it has answered at each place    *)
(* of doit, and so that nothing of one request is left for the next.       *)
\* The places between Accept and the answer's first line.
Asking == {"request", "headers", "stat", "static", "dynamic"}

\* The descriptors, the mapping and the child that belong to a place.
HoldInv ==
  /\ pc \in {"accept", "exited", "close", "open", "map", "body", "unmap", "wait"} \cup Asking
  /\ pc = "accept" => fds = {"listenfd"}
  /\ pc \notin {"accept", "map", "exited"} => fds = {"listenfd", "connfd"}
  /\ pc = "map" => fds = {"listenfd", "connfd", "srcfd"}
  /\ pc \notin {"body", "unmap", "exited"} => ~mapped
  /\ pc \notin {"wait", "exited"} => child = "none"
  /\ child \in {"none", "forked", "cgi", "zombie"}

Output == IF request.dynamic THEN {"cgi", "log"} ELSE {"file"}

\* What the client was sent before each place; a child adds its output at most
\* once, before the server has waited for it.
Answered ==
  \/ response \in {<<>>, <<"501">>, <<"404">>, <<"403">>, <<"200">>}
  \/ \E part \in Output : response = <<"200", part>>

AnswerInv ==
  /\ pc \in Asking => response = <<>>
  /\ pc \in {"open", "map", "body"} => response = <<"200">> /\ ~request.dynamic
  /\ pc \in {"unmap", "close", "accept", "wait"} => Answered
  /\ pc = "wait" => request.dynamic
  /\ pc = "wait" /\ child \in {"forked", "cgi"} => response = <<"200">>
  /\ pc \in {"unmap", "wait"} => response # <<>>
  /\ pc = "static" => ~request.dynamic
  /\ pc = "dynamic" => request.dynamic
  /\ pc = "close" /\ response = <<>> => request.lines = 0
  /\ pc = "accept" /\ response = <<>> => request.lines = 0
  /\ pc = "request" => unread = request.lines
  /\ request.lines \in Nat

ServerInv == HoldInv /\ AnswerInv

\* What Write makes of what was sent.
LEMMA Writes ==
  ASSUME NEW x, NEW y
  PROVE  Append(<<>>, x) = <<x>> /\ Append(<<x>>, y) = <<x, y>>
<1> DEFINE S == {x, y}
<1>1. <<>> \in Seq(S) /\ <<x>> \in Seq(S) /\ <<x, y>> \in Seq(S) /\ x \in S /\ y \in S
  OBVIOUS
<1> HIDE DEF S
<1>2. /\ Append(<<>>, x) \in Seq(S) /\ Len(Append(<<>>, x)) = 1 /\ Append(<<>>, x)[1] = x
  BY <1>1, AppendProperties
<1>3. /\ Append(<<x>>, y) \in Seq(S) /\ Len(Append(<<x>>, y)) = 2
      /\ Append(<<x>>, y)[1] = x /\ Append(<<x>>, y)[2] = y
  BY <1>1, AppendProperties
<1>4. Append(<<>>, x) = <<x>>
  BY <1>1, <1>2, SeqEqual
<1>5. Append(<<x>>, y) = <<x, y>>
  <2> DEFINE r == Append(<<x>>, y)
             t == <<x, y>>
  <2>1. r \in Seq(S) /\ t \in Seq(S) /\ Len(r) = Len(t) /\ \A i \in 1..Len(r) : r[i] = t[i]
    BY <1>1, <1>3
  <2> HIDE DEF r, t
  <2>2. r = t
    BY <2>1, SeqEqual
  <2> QED
    BY <2>2 DEF r, t
<1> QED
  BY <1>4, <1>5

\* A server that listens, or one that has given up.
LEMMA ServerInit == Tiny!Init => ServerInv
<1> SUFFICES ASSUME Tiny!Init PROVE ServerInv
  OBVIOUS
<1>1. PICK opened : /\ fds = IF opened = {} THEN {} ELSE {"listenfd"}
                    /\ pc = IF opened = {} THEN "exited" ELSE "accept"
  BY DEF Tiny!Init
<1>2. HoldInv
  BY <1>1 DEF Tiny!Init, HoldInv, Asking
<1>3. AnswerInv
  BY <1>1 DEF Tiny!Init, AnswerInv, Asking, Answered, Tiny!NoRequest
<1> QED
  BY <1>2, <1>3 DEF ServerInv

\* A step of the server keeps what it holds and what it sent.
LEMMA ServerStep ==
  ASSUME ServerInv,
         \/ Tiny!Exit \/ Tiny!main_accept \/ Tiny!main_close \/ Tiny!read_request \/ Tiny!read_requesthdrs \/ Tiny!doit
         \/ Tiny!serve_static \/ Tiny!serve_dynamic
  PROVE  ServerInv'
<1> USE DEF ServerInv, HoldInv, Tiny!At, Tiny!Goto
<1>1. CASE Tiny!Exit
  BY <1>1 DEF Tiny!Exit, AnswerInv, Asking
<1>2. CASE Tiny!main_accept
  <2>1. request'.lines \in Nat
    BY <1>2 DEF Tiny!main_accept, Tiny!Requests
  <2> QED
    BY <1>2, <2>1 DEF Tiny!main_accept, AnswerInv, Asking
<1>3. CASE Tiny!main_close
  BY <1>3 DEF Tiny!main_close, AnswerInv, Asking, Answered, Output
<1>4. CASE Tiny!read_request
  <2> USE DEF Tiny!read_request, AnswerInv, Asking
  <2>1. CASE Tiny!Goto("close") /\ unread = 0 /\ UNCHANGED response
    BY <1>4, <2>1 DEF Answered
  <2>2. CASE Tiny!Goto("headers") /\ UNCHANGED response
    BY <1>4, <2>2
  <2>3. CASE Tiny!clienterror("501")
    <3>1. response' = <<"501">>
      BY <1>4, <2>3, Writes DEF Tiny!clienterror, Tiny!Write
    <3> QED
      BY <1>4, <2>3, <3>1 DEF Tiny!clienterror, Answered
  <2> QED
    BY <1>4, <2>1, <2>2, <2>3
<1>5. CASE Tiny!read_requesthdrs
  BY <1>5 DEF Tiny!read_requesthdrs, AnswerInv, Asking
<1>6. CASE Tiny!doit
  <2> USE DEF Tiny!doit, AnswerInv, Asking
  <2>1. CASE Tiny!clienterror("404") \/ Tiny!clienterror("403")
    <3>1. response' \in {<<"404">>, <<"403">>}
      BY <1>6, <2>1, Writes DEF Tiny!clienterror, Tiny!Write
    <3> QED
      BY <1>6, <2>1, <3>1 DEF Tiny!clienterror, Answered
  <2>2. CASE Tiny!Goto(IF request.dynamic THEN "dynamic" ELSE "static") /\ UNCHANGED response
    BY <1>6, <2>2
  <2> QED
    BY <1>6, <2>1, <2>2
<1>7. CASE Tiny!serve_static
  <2> USE DEF Tiny!serve_static, AnswerInv, Asking
  <2>1. CASE Tiny!At("static")
    <3>1. response' = <<"200">>
      BY <1>7, <2>1, Writes DEF Tiny!Write
    <3> QED
      BY <1>7, <2>1, <3>1
  <2>2. CASE Tiny!At("open") \/ Tiny!At("map")
    BY <1>7, <2>2
  <2>3. CASE Tiny!At("body")
    <3>1. response' = <<"200", "file">>
      BY <1>7, <2>3, Writes DEF Tiny!Write
    <3> QED
      BY <1>7, <2>3, <3>1 DEF Answered, Output
  <2>4. CASE Tiny!At("unmap")
    BY <1>7, <2>4 DEF Answered, Output
  <2> QED
    BY <1>7, <2>1, <2>2, <2>3, <2>4
<1>8. CASE Tiny!serve_dynamic
  <2> USE DEF Tiny!serve_dynamic, AnswerInv, Asking
  <2>1. CASE Tiny!At("dynamic")
    <3>1. response' = <<"200">>
      BY <1>8, <2>1, Writes DEF Tiny!Write
    <3> QED
      BY <1>8, <2>1, <3>1 DEF Answered
  <2>2. CASE Tiny!At("wait")
    BY <1>8, <2>2 DEF Answered, Output
  <2> QED
    BY <1>8, <2>1, <2>2
<1> QED
  BY <1>1, <1>2, <1>3, <1>4, <1>5, <1>6, <1>7, <1>8

\* The child adds to the answer only while the server waits for it.
LEMMA ChildStep ==
  ASSUME ServerInv, Tiny!RunChild
  PROVE  ServerInv'
<1> USE DEF ServerInv, HoldInv, Tiny!RunChild, AnswerInv, Asking
<1>1. CASE pc = "exited"
  BY <1>1 DEF Tiny!Child
<1>2. CASE pc # "exited"
  <2>1. pc = "wait" /\ child \in {"forked", "cgi"}
    BY <1>2 DEF Tiny!Child
  <2>2. response' \in {<<"200">>, <<"200", "log">>, <<"200", "cgi">>}
    BY <2>1, Writes DEF Tiny!Child, Tiny!Write
  <2>3. child' = "cgi" => response' = response
    BY <2>1 DEF Tiny!Child
  <2>4. child' \in {"cgi", "zombie"}
    BY DEF Tiny!Child
  <2> QED
    BY <2>1, <2>2, <2>3, <2>4 DEF Answered, Output
<1> QED
  BY <1>1, <1>2

\* Every request of tiny keeps the inductive invariant: what is held and what has
\* been answered at each point of doit, serve_static and serve_dynamic.
THEOREM ServerKeeps == LabProgramsSpec => [](prog = "tiny" => ServerInv)
<1>1. ServerInv /\ [Tiny!Next]_(Tiny!vars) => ServerInv'
  <2>1. CASE UNCHANGED Tiny!vars
    BY <2>1 DEF Tiny!vars, ServerInv, HoldInv, AnswerInv, Answered, Output
  <2> QED
    BY <2>1, ServerStep, ChildStep DEF Tiny!Next
<1>2. LabProgramsInit => (prog = "tiny" => ServerInv)
  BY ServerInit DEF LabProgramsInit
<1>3. (prog = "tiny" => ServerInv) /\ [LabProgramsNext]_labProgramsVars => (prog = "tiny" => ServerInv)'
  <2> SUFFICES ASSUME prog = "tiny" => ServerInv, [LabProgramsNext]_labProgramsVars, prog' = "tiny"
               PROVE  ServerInv'
    OBVIOUS
  <2>1. prog = "tiny" /\ [Tiny!Next]_(Tiny!vars)
    BY DEF LabProgramsNext, labProgramsVars, tinyVars, Tiny!vars
  <2> QED
    BY <1>1, <2>1
<1> QED
  BY <1>2, <1>3, PTL DEF LabProgramsSpec

(* Whatever a request was and however its child ended, the server accepts  *)
(* the next one with only its listening socket, no mapping and no child,   *)
(* and the client has got one status line, and a body only after 200       *)
(* (doit, serve_static and serve_dynamic of tiny.c).                       *)
THEOREM KeepsNothing == LabProgramsSpec => []NothingKept
<1>1. ASSUME ServerInv, pc = "accept"
      PROVE  /\ request.lines > 0 => response # <<>>
             /\ response # <<>> => Head(response) \in {"200", "501", "404", "403"}
             /\ Len(response) = 2 => /\ response[1] = "200"
                                     /\ response[2] \in Output
             /\ Len(response) <= 2
  <2>1. CASE response \in {<<>>, <<"501">>, <<"404">>, <<"403">>, <<"200">>}
    <3>1. Len(response) < 2
      BY <2>1
    <3>2. response # <<>> => Head(response) \in {"200", "501", "404", "403"}
      BY <2>1
    <3> QED
      BY <1>1, <3>1, <3>2 DEF ServerInv, AnswerInv
  <2>2. CASE \E part \in Output : response = <<"200", part>>
    BY <2>2
  <2> QED
    BY <1>1, <2>1, <2>2 DEF ServerInv, AnswerInv, Answered
<1>2. ServerInv => Tiny!NothingKept
  BY <1>1 DEF Tiny!NothingKept, Output, ServerInv, HoldInv
<1>3. (prog = "tiny" => ServerInv) => NothingKept
  BY <1>2 DEF NothingKept
<1> QED
  BY <1>3, ServerKeeps, PTL
=============================================================================
