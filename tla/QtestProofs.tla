---------------------------- MODULE QtestProofs ----------------------------
(***************************************************************************)
(* qtest and queue.c, for every number of blocks, strings, repetitions and *)
(* alarms: the queue that an alarm leaves is still one that the next       *)
(* command can use, and a command that an alarm left reports it; until an  *)
(* alarm, queue.c is a queue open at both ends and loses no block.         *)
(***************************************************************************)
EXTENDS Qtest, RecursionFacts

Link == [Blocks -> Blocks \cup {Null}]

\* The memories that the functions of queue.c leave.
Memory ==
  [live : SUBSET Blocks, allocated : Blocks \cup {Null}, allocated_count : Int, error : BOOLEAN,
   bnext : Link, bprev : Link,
   q : Blocks \cup {Null}, head : Blocks \cup {Null}, tail : Blocks \cup {Null}, sizeL : Int,
   next : Link, value : Link, text : [Blocks -> Strings \cup {Null}]]

-----------------------------------------------------------------------------
(* The blocks that a list's links lead through, in order, to its end. *)
Path(next, first, n, es) ==
  /\ n \in Nat /\ es \in [1..n -> Blocks]
  /\ \A i, j \in 1..n : es[i] = es[j] => i = j
  /\ first = IF n = 0 THEN Null ELSE es[1]
  /\ \A i \in 1..n : next[es[i]] = IF i = n THEN Null ELSE es[i+1]

\* A path is no longer than there are blocks.
LEMMA PathLength ==
  ASSUME NEW next, NEW first, NEW n, NEW es, Path(next, first, n, es)
  PROVE  n <= Cardinality(Blocks) /\ Cardinality(Blocks) \in Nat
<1>1. IsFiniteSet(Blocks)
  BY HeapAssumption
<1>2. es \in Injection(1..n, Blocks)
  BY DEF Path, Injection, IsInjective
<1>3. Cardinality(1..n) <= Cardinality(Blocks)
  BY <1>1, <1>2, FS_Injection
<1>4. Cardinality(1..n) = n
  BY FS_Interval DEF Path
<1> QED
  BY <1>1, <1>3, <1>4, FS_CardinalityType

\* The blocks met from first on, as Walk counts them.
At_(next, first) ==
  LET at[n \in 0..Cardinality(Blocks)] ==
        IF n = 0 THEN first ELSE IF at[n-1] = Null THEN Null ELSE next[at[n-1]]
  IN  at

\* Walk's recursive function exists.
LEMMA AtExists ==
  ASSUME NEW next \in Link, NEW first \in Blocks \cup {Null}
  PROVE  \A k \in 0..Cardinality(Blocks) :
           At_(next, first)[k] =
             IF k = 0 THEN first
             ELSE IF At_(next, first)[k-1] = Null THEN Null ELSE next[At_(next, first)[k-1]]
<1> DEFINE N == Cardinality(Blocks)
           D == Blocks \cup {Null}
           G == [p \in D \X Nat |-> IF p[1] = Null THEN Null ELSE next[p[1]]]
           Rec(f) == f = [k \in 0..N |-> IF k = 0 THEN first
                                         ELSE IF f[k-1] = Null THEN Null ELSE next[f[k-1]]]
<1>1. N \in Nat
  BY HeapAssumption, FS_CardinalityType
<1>2. G \in [D \X Nat -> D]
  BY DEF Link
<1>3. \A x \in D, k \in Nat : G[<<x, k>>] = IF x = Null THEN Null ELSE next[x]
  OBVIOUS
<1>4. first \in D
  OBVIOUS
<1>5. PICK f : Iteration(f, D, first, G, N)
  <2> HIDE DEF D, N, G
  <2> QED
    BY <1>1, <1>2, <1>4, Iterates, Zenon
<1>6. /\ f \in [0..N -> D] /\ f[0] = first
      /\ \A i \in 1..N : f[i] = G[<<f[i-1], i>>]
  BY <1>5 DEF Iteration
<1> HIDE DEF G
<1>7. Rec(f)
  <2>1. ASSUME NEW k \in 0..N
        PROVE  f[k] = IF k = 0 THEN first
                      ELSE IF f[k-1] = Null THEN Null ELSE next[f[k-1]]
    <3>1. CASE k = 0
      BY <1>6, <3>1
    <3>2. CASE k # 0
      <4>1. k \in 1..N /\ k - 1 \in 0..N /\ k \in Nat
        BY <1>1, <3>2
      <4>2. f[k] = G[<<f[k-1], k>>] /\ f[k-1] \in D
        BY <1>6, <4>1
      <4> QED
        BY <1>3, <3>2, <4>1, <4>2
    <3> QED
      BY <3>1, <3>2
  <2> QED
    BY <1>6, <2>1
<1>8. Rec(CHOOSE g : Rec(g))
  BY <1>7
<1>9. At_(next, first) = CHOOSE g : Rec(g)
  BY DEF At_
<1> HIDE DEF N
<1> QED
  BY <1>8, <1>9 DEF N

\* Walk finds the path.
LEMMA WalkIsPath ==
  ASSUME NEW next \in Link, NEW first, NEW n, NEW es, Path(next, first, n, es)
  PROVE  Walk(next, first) = es
<1> DEFINE N == Cardinality(Blocks)
           at == At_(next, first)
           T == {k \in Nat : k <= N => at[k] = IF k < n THEN es[k+1] ELSE Null}
           S == {k \in 0..N : at[k] # Null}
<1>0. N \in Nat /\ n \in 0..N /\ first \in Blocks \cup {Null} /\ Null \notin Blocks
  <2>1. n \in Nat /\ n <= N /\ N \in Nat
    <3>1. n <= N /\ N \in Nat
      BY PathLength
    <3> QED
      BY <3>1 DEF Path
  <2>2. first \in Blocks \cup {Null}
    BY <2>1 DEF Path
  <2> QED
    BY <2>1, <2>2, HeapAssumption
<1>1. \A k \in 0..N : at[k] = IF k = 0 THEN first
                               ELSE IF at[k-1] = Null THEN Null ELSE next[at[k-1]]
  BY <1>0, AtExists
<1>2. Walk(next, first) = [i \in 1..Cardinality(S) |-> at[i-1]]
  BY DEF Walk, At_
<1> HIDE DEF at, N
<1>3. 0 \in T
  BY <1>0, <1>1 DEF Path
<1>4. ASSUME NEW k \in Nat, k \in T
      PROVE  k + 1 \in T
  <2> SUFFICES ASSUME k + 1 <= N PROVE at[k+1] = IF k + 1 < n THEN es[k+2] ELSE Null
    OBVIOUS
  <2>1. at[k] = IF k < n THEN es[k+1] ELSE Null
    BY <1>0, <1>4
  <2>2. k + 1 \in 0..N /\ k + 1 # 0 /\ (k + 1) - 1 = k
    BY <1>0
  <2>3. at[k+1] = IF at[k] = Null THEN Null ELSE next[at[k]]
    BY <1>1, <2>2
  <2>4. CASE k < n
    <3>1. k + 1 \in 1..n /\ es[k+1] \in Blocks
      BY <1>0, <2>4 DEF Path
    <3>2. next[es[k+1]] = IF k + 1 = n THEN Null ELSE es[k+2]
      BY <3>1 DEF Path
    <3> QED
      BY <1>0, <2>1, <2>3, <2>4, <3>1, <3>2
  <2>5. CASE ~ (k < n)
    BY <1>0, <2>1, <2>3, <2>5
  <2> QED
    BY <2>4, <2>5
<1> HIDE DEF T
<1>5. \A k \in Nat : k \in T
  BY <1>3, <1>4, AllNumbers
<1>6. \A k \in 0..N : at[k] = IF k < n THEN es[k+1] ELSE Null
  BY <1>0, <1>5 DEF T
<1>7. S = 0..n-1
  <2>1. \A k \in 0..n-1 : es[k+1] \in Blocks /\ k < n /\ k \in 0..N
    BY <1>0 DEF Path
  <2> QED
    BY <1>0, <1>6, <2>1
<1> HIDE DEF S
<1>8. Cardinality(S) = n
  <2>1. Cardinality(0..n-1) = IF 0 > n - 1 THEN 0 ELSE (n - 1) - 0 + 1
    BY <1>0, FS_Interval
  <2> QED
    BY <1>0, <1>7, <2>1
<1>9. \A i \in 1..n : at[i-1] = es[i]
  BY <1>0, <1>6
<1>10. es = [i \in 1..n |-> es[i]]
  BY DEF Path
<1>11. [i \in 1..n |-> at[i-1]] = [i \in 1..n |-> es[i]]
  BY <1>9
<1> QED
  BY <1>2, <1>8, <1>10, <1>11

\* A path does not depend on other blocks.
LEMMA PathKept ==
  ASSUME NEW next, NEW first, NEW n, NEW es, Path(next, first, n, es),
         NEW links, \A i \in 1..n : links[es[i]] = next[es[i]]
  PROVE  Path(links, first, n, es)
BY DEF Path

\* A block put before a path.
Pushed(e, n, es) == [i \in 1..n+1 |-> IF i = 1 THEN e ELSE es[i-1]]

\* The path with a block before it.
LEMMA PathPush ==
  ASSUME NEW next, NEW first, NEW n, NEW es, Path(next, first, n, es),
         NEW b \in Blocks, \A i \in 1..n : es[i] # b,
         NEW links, links[b] = first, \A i \in 1..n : links[es[i]] = next[es[i]]
  PROVE  Path(links, b, n + 1, Pushed(b, n, es))
<1> DEFINE fs == Pushed(b, n, es)
<1>0. n \in Nat /\ n + 1 \in Nat
  BY DEF Path
<1>1. fs \in [1..n+1 -> Blocks]
  BY <1>0 DEF Path, Pushed
<1>2. fs[1] = b /\ \A i \in 1..n : fs[i+1] = es[i]
  BY <1>0 DEF Pushed
<1>3. \A i \in 1..n+1 : i = 1 \/ (i - 1 \in 1..n /\ fs[i] = es[i-1])
  BY <1>0 DEF Pushed
<1> HIDE DEF fs
<1>4. \A i, j \in 1..n+1 : fs[i] = fs[j] => i = j
  BY <1>0, <1>2, <1>3 DEF Path
<1>5. ASSUME NEW i \in 1..n+1
      PROVE  links[fs[i]] = IF i = n + 1 THEN Null ELSE fs[i+1]
  <2>1. CASE i = 1
    BY <1>0, <1>2, <2>1 DEF Path
  <2>2. CASE i # 1
    <3>1. i - 1 \in 1..n /\ fs[i] = es[i-1]
      BY <1>3, <2>2
    <3>2. next[es[i-1]] = IF i - 1 = n THEN Null ELSE es[i]
      BY <3>1 DEF Path
    <3>3. i # n + 1 => i \in 1..n /\ fs[i+1] = es[i]
      BY <1>0, <1>2
    <3> QED
      BY <1>0, <3>1, <3>2, <3>3
  <2> QED
    BY <2>1, <2>2
<1>6. Path(links, b, n + 1, fs)
  BY <1>0, <1>1, <1>2, <1>4, <1>5 DEF Path
<1> QED
  BY <1>6 DEF fs

\* The path without its first block.
LEMMA PathPop ==
  ASSUME NEW next, NEW first, NEW n, NEW es, Path(next, first, n, es), n # 0
  PROVE  Path(next, next[first], n - 1, [i \in 1..n-1 |-> es[i+1]])
<1> DEFINE fs == [i \in 1..n-1 |-> es[i+1]]
<1>0. n \in Nat /\ n - 1 \in Nat
  BY DEF Path
<1>1. fs \in [1..n-1 -> Blocks] /\ \A i \in 1..n-1 : fs[i] = es[i+1] /\ i + 1 \in 1..n
  BY <1>0 DEF Path
<1> HIDE DEF fs
<1>2. \A i, j \in 1..n-1 : fs[i] = fs[j] => i = j
  BY <1>0, <1>1 DEF Path
<1>3. next[first] = IF n - 1 = 0 THEN Null ELSE fs[1]
  BY <1>0, <1>1 DEF Path
<1>4. \A i \in 1..n-1 : next[fs[i]] = IF i = n - 1 THEN Null ELSE fs[i+1]
  BY <1>0, <1>1 DEF Path
<1>5. Path(next, next[first], n - 1, fs)
  BY <1>0, <1>1, <1>2, <1>3, <1>4 DEF Path
<1> QED
  BY <1>5 DEF fs

\* A block put behind the k-th of a path, where the path then ends.
Ended(b, k, es) == [i \in 1..k+1 |-> IF i = k + 1 THEN b ELSE es[i]]

\* The path with a block behind it.
LEMMA PathEnd ==
  ASSUME NEW next, NEW first, NEW n, NEW es, Path(next, first, n, es),
         NEW k \in 1..n, NEW b \in Blocks, \A i \in 1..n : es[i] # b,
         NEW links, links[b] = Null, links[es[k]] = b,
         \A i \in 1..n : i # k => links[es[i]] = next[es[i]]
  PROVE  Path(links, first, k + 1, Ended(b, k, es))
<1> DEFINE fs == Ended(b, k, es)
<1>0. n \in Nat /\ k \in Nat /\ k + 1 \in Nat /\ k # 0 /\ k <= n
  BY DEF Path
<1>1. fs \in [1..k+1 -> Blocks]
  BY <1>0 DEF Path, Ended
<1>2. fs[k+1] = b /\ \A i \in 1..k : fs[i] = es[i] /\ i \in 1..n
  BY <1>0 DEF Ended
<1> HIDE DEF fs
<1>3. \A i \in 1..k+1 : i = k + 1 \/ i \in 1..k
  BY <1>0
<1>4. ASSUME NEW i \in 1..k+1, NEW j \in 1..k+1, fs[i] = fs[j]
      PROVE  i = j
  <2>1. \A x \in 1..k : fs[x] = es[x] /\ x \in 1..n /\ es[x] # b
    BY <1>2
  <2>2. i \in 1..k /\ j \in 1..k => i = j
    BY <1>4, <2>1 DEF Path
  <2> QED
    BY <1>2, <1>3, <1>4, <2>1, <2>2
<1>5. ASSUME NEW i \in 1..k+1
      PROVE  links[fs[i]] = IF i = k + 1 THEN Null ELSE fs[i+1]
  <2>1. CASE i = k + 1
    BY <1>2, <2>1
  <2>2. CASE i = k
    BY <1>0, <1>2, <2>2
  <2>3. CASE i # k /\ i # k + 1
    <3>1. i \in 1..k /\ i + 1 \in 1..k /\ i \in 1..n /\ i # n
      BY <1>0, <2>3
    <3>2. next[es[i]] = es[i+1] /\ fs[i] = es[i] /\ fs[i+1] = es[i+1]
      BY <1>2, <3>1 DEF Path
    <3> QED
      BY <2>3, <3>1, <3>2
  <2> QED
    BY <2>1, <2>2, <2>3
<1>6. first = fs[1]
  BY <1>0, <1>2 DEF Path
<1>7. Path(links, first, k + 1, fs)
  BY <1>0, <1>1, <1>4, <1>5, <1>6 DEF Path
<1> QED
  BY <1>7 DEF fs

-----------------------------------------------------------------------------
(* What a function leaves behind: the memories of a run, S being those     *)
(* that an alarm may leave.                                                *)
Trace(S) == {t \in Seq(S) : t # <<>>}

\* A run goes through memories and ends in one of them.
LEMMA TraceAt ==
  ASSUME NEW S, NEW t \in Trace(S)
  PROVE  Last(t) \in S /\ \A i \in DOMAIN t : t[i] \in S
BY DEF Trace, Last

\* A run and the one that goes on from it.
LEMMA TraceJoin ==
  ASSUME NEW S, NEW t \in Trace(S), NEW u \in Trace(S)
  PROVE  t \o u \in Trace(S) /\ Last(t \o u) = Last(u)
BY DEF Trace, Last

\* A run and one assignment more.
LEMMA TraceAdd ==
  ASSUME NEW S, NEW t \in Trace(S), NEW x \in S
  PROVE  Append(t, x) \in Trace(S) /\ Last(Append(t, x)) = x
BY DEF Trace, Last

\* What holds of more memories holds of fewer.
LEMMA TraceSub ==
  ASSUME NEW S, NEW R, S \subseteq R, NEW t \in Trace(S)
  PROVE  t \in Trace(R)
BY DEF Trace

\* Runs written out.
LEMMA TraceOf1 ==
  ASSUME NEW S, NEW a \in S
  PROVE  <<a>> \in Trace(S) /\ Last(<<a>>) = a
BY DEF Trace, Last

\* Runs written out.
LEMMA TraceOf3 ==
  ASSUME NEW S, NEW a \in S, NEW b \in S, NEW c \in S
  PROVE  <<a, b, c>> \in Trace(S) /\ Last(<<a, b, c>>) = c
BY DEF Trace, Last

\* Runs written out.
LEMMA TraceOf5 ==
  ASSUME NEW S, NEW a \in S, NEW b \in S, NEW c \in S, NEW d \in S, NEW e \in S
  PROVE  <<a, b, c, d, e>> \in Trace(S) /\ Last(<<a, b, c, d, e>>) = e
BY DEF Trace, Last

\* Runs written out.
LEMMA TraceOf6 ==
  ASSUME NEW S, NEW a \in S, NEW b \in S, NEW c \in S, NEW d \in S, NEW e \in S, NEW f \in S
  PROVE  <<a, b, c, d, e, f>> \in Trace(S) /\ Last(<<a, b, c, d, e, f>>) = f
BY DEF Trace, Last

-----------------------------------------------------------------------------
\* m2 has the queue of m.
SameQueue(m1, m2) ==
  /\ m2.q = m1.q /\ m2.head = m1.head /\ m2.tail = m1.tail /\ m2.sizeL = m1.sizeL
  /\ m2.next = m1.next /\ m2.value = m1.value /\ m2.text = m1.text

\* malloc gives out a block that was not in use.
LEMMA FreshIsFree ==
  ASSUME NEW mem \in Memory, ~Full(mem)
  PROVE  Fresh(mem) \in Blocks \ mem.live
<1>1. mem.live \subseteq Blocks
  BY DEF Memory
<1>2. \E b \in Blocks : b \notin mem.live
  BY <1>1 DEF Full
<1> QED
  BY <1>2 DEF Fresh

\* test_malloc.
LEMMA Mallocs ==
  ASSUME NEW mem \in Memory, ~Full(mem)
  PROVE  /\ test_malloc(mem) \in Trace({x \in Memory : SameQueue(mem, x) /\ mem.live \subseteq x.live})
         /\ Last(test_malloc(mem)) \in Memory
         /\ SameQueue(mem, Last(test_malloc(mem)))
         /\ Last(test_malloc(mem)).live = mem.live \cup {Fresh(mem)}
<1> DEFINE b == Fresh(mem)
           created == Created(mem, b)
           linked == LinkedFront(created, b)
           listed == [linked EXCEPT !.allocated = b]
           counted == [listed EXCEPT !.allocated_count = @ + 1]
<1>1. b \in Blocks
  BY FreshIsFree
<1> HIDE DEF b
<1>2. created \in Memory /\ SameQueue(mem, created) /\ created.live = mem.live \cup {b}
  BY <1>1 DEF Memory, Link, SameQueue, Created
<1>3. linked \in Memory /\ SameQueue(mem, linked) /\ linked.live = mem.live \cup {b}
  <2> HIDE DEF created
  <2> QED
    BY <1>1, <1>2 DEF Memory, Link, SameQueue, LinkedFront
<1>4. listed \in Memory /\ SameQueue(mem, listed) /\ listed.live = mem.live \cup {b}
  <2> HIDE DEF linked
  <2> QED
    BY <1>1, <1>3 DEF Memory, Link, SameQueue
<1>5. counted \in Memory /\ SameQueue(mem, counted) /\ counted.live = mem.live \cup {b}
  <2> HIDE DEF listed
  <2>1. counted \in Memory
    BY <1>4 DEF Memory
  <2>2. SameQueue(listed, counted) /\ counted.live = listed.live
    BY <1>4 DEF Memory, SameQueue
  <2> HIDE DEF counted
  <2> QED
    BY <1>4, <2>1, <2>2 DEF SameQueue
<1>6. test_malloc(mem) = <<mem, created, linked, listed, counted>>
  BY DEF test_malloc, b
<1>7. SameQueue(mem, mem)
  BY DEF SameQueue
<1> HIDE DEF created, linked, listed, counted
<1> DEFINE S == {x \in Memory : SameQueue(mem, x) /\ mem.live \subseteq x.live}
<1>8. mem \in S /\ created \in S /\ linked \in S /\ listed \in S /\ counted \in S
  BY <1>2, <1>3, <1>4, <1>5, <1>7
<1> HIDE DEF S
<1>9. /\ <<mem, created, linked, listed, counted>> \in Trace(S)
      /\ Last(<<mem, created, linked, listed, counted>>) = counted
  BY <1>8, TraceOf5
<1> QED
  BY <1>5, <1>6, <1>9 DEF b, S

\* m2 is m1 without the block b.
Without(m1, b, m2) ==
  /\ m2.q = m1.q /\ m2.head = m1.head /\ m2.tail = m1.tail /\ m2.sizeL = m1.sizeL
  /\ m2.live = m1.live \ {b}
  /\ m2.next = [m1.next EXCEPT ![b] = Null]
  /\ m2.value = [m1.value EXCEPT ![b] = Null]
  /\ m2.text = [m1.text EXCEPT ![b] = Null]

\* test_free.
LEMMA Frees ==
  ASSUME NEW mem \in Memory, NEW b \in Blocks, NEW cautious
  PROVE  LET t == test_free(mem, b, cautious)
         IN  /\ t \in Trace({x \in Memory : (SameQueue(mem, x) /\ x.live = mem.live) \/ Without(mem, b, x)})
             /\ Last(t) \in Memory /\ Without(mem, b, Last(t))
<1> DEFINE bn == mem.bnext[b]
           bp == mem.bprev[b]
           checked == Checked(mem, b, cautious)
           before == LinkedPast(checked, bp, bn)
           after == LinkedBack(before, bp, bn)
           wiped == [after EXCEPT !.next[b] = Null, !.value[b] = Null, !.text[b] = Null]
           freed == Freed(after, b)
           counted == [freed EXCEPT !.allocated_count = @ - 1]
           Same(x) == SameQueue(mem, x) /\ x.live = mem.live
           S == {x \in Memory : Same(x) \/ Without(mem, b, x)}
<1>1. bn \in Blocks \cup {Null} /\ bp \in Blocks \cup {Null}
  BY DEF Memory, Link
<1> HIDE DEF bn, bp
<1>2. mem \in Memory /\ Same(mem)
  BY DEF SameQueue
<1>3. checked \in Memory /\ Same(checked)
  BY DEF Checked, Memory, SameQueue
<1> HIDE DEF checked
<1>4. before \in Memory /\ Same(before)
  BY <1>1, <1>3 DEF LinkedPast, Memory, Link, SameQueue
<1> HIDE DEF before
<1>5. after \in Memory /\ Same(after)
  BY <1>1, <1>4 DEF LinkedBack, Memory, Link, SameQueue
<1> HIDE DEF after
<1>6. /\ wiped \in Memory
      /\ wiped.live = mem.live /\ wiped.q = mem.q /\ wiped.head = mem.head
      /\ wiped.tail = mem.tail /\ wiped.sizeL = mem.sizeL
      /\ wiped.next = [mem.next EXCEPT ![b] = Null]
      /\ wiped.value = [mem.value EXCEPT ![b] = Null]
      /\ wiped.text = [mem.text EXCEPT ![b] = Null]
  BY <1>5 DEF Memory, Link, SameQueue
<1>12. freed = [wiped EXCEPT !.live = @ \ {b}, !.bnext[b] = Null, !.bprev[b] = Null]
  BY DEF Freed
<1> HIDE DEF wiped, freed
<1>11. freed \in Memory /\ Without(mem, b, freed)
  BY <1>6, <1>12 DEF Memory, Link, Without
<1>7. counted \in Memory /\ Without(mem, b, counted)
  BY <1>11 DEF Memory, Link, Without
<1> HIDE DEF counted
<1>8. test_free(mem, b, cautious) = <<mem, checked, before, after, freed, counted>>
  BY DEF test_free, bn, bp, checked, before, after, freed, counted
<1>9. mem \in S /\ checked \in S /\ before \in S /\ after \in S /\ freed \in S /\ counted \in S
  BY <1>2, <1>3, <1>4, <1>5, <1>11, <1>7
<1> HIDE DEF S
<1>10. /\ <<mem, checked, before, after, freed, counted>> \in Trace(S)
       /\ Last(<<mem, checked, before, after, freed, counted>>) = counted
  BY <1>9, TraceOf6
<1> QED
  BY <1>7, <1>8, <1>10 DEF S

-----------------------------------------------------------------------------
(* The queue of x consists of the elements es: they and their strings are  *)
(* blocks in use, each with one purpose, and tail is one of the elements   *)
(* if there is a tail.                                                     *)
Queue(x, n, es) ==
  /\ Path(x.next, x.head, n, es)
  /\ x.q \in x.live
  /\ \A i \in 1..n : es[i] \in x.live /\ x.value[es[i]] \in x.live
  /\ \A i, j \in 1..n : x.value[es[i]] # es[j] /\ (x.value[es[i]] = x.value[es[j]] => i = j)
  /\ \A i \in 1..n : es[i] # x.q /\ x.value[es[i]] # x.q
  /\ x.tail = Null \/ \E i \in 1..n : x.tail = es[i]

HasQueue(x) == \E n, es : Queue(x, n, es)

GoodMemory == {x \in Memory : IF x.q = Null THEN x.tail = Null ELSE HasQueue(x)}

\* Blocks off the queue do not matter to it.
LEMMA QueueKept ==
  ASSUME NEW x, NEW y, NEW n, NEW es, Queue(x, n, es),
         y.q = x.q, y.head = x.head, y.tail = x.tail, y.q \in y.live,
         \A i \in 1..n : /\ y.next[es[i]] = x.next[es[i]] /\ y.value[es[i]] = x.value[es[i]]
                         /\ es[i] \in y.live /\ x.value[es[i]] \in y.live
  PROVE  Queue(y, n, es)
<1>1. Path(y.next, y.head, n, es)
  BY DEF Queue, Path
<1> QED
  BY <1>1 DEF Queue

\* A memory with the queue of a good one, and no fewer blocks, is good.
LEMMA SameGood ==
  ASSUME NEW x \in GoodMemory, NEW y \in Memory, SameQueue(x, y), x.live \subseteq y.live
  PROVE  y \in GoodMemory
<1>1. ASSUME NEW n, NEW es, Queue(x, n, es)
      PROVE  Queue(y, n, es)
  <2>1. \A i \in 1..n : es[i] \in x.live /\ x.value[es[i]] \in x.live
    BY <1>1 DEF Queue
  <2>2. x.q \in x.live
    BY <1>1 DEF Queue
  <2> QED
    BY <1>1, <2>1, <2>2, QueueKept DEF SameQueue
<1> QED
  BY <1>1 DEF GoodMemory, HasQueue, SameQueue

\* A block off the queue may be freed.
LEMMA WithoutKept ==
  ASSUME NEW x \in Memory, NEW n, NEW es, Queue(x, n, es), NEW b \in Blocks, b # x.q,
         \A i \in 1..n : es[i] # b /\ x.value[es[i]] # b,
         NEW y, Without(x, b, y)
  PROVE  Queue(y, n, es)
<1>1. \A i \in 1..n : es[i] \in x.live /\ x.value[es[i]] \in x.live /\ es[i] \in Blocks
  BY DEF Queue, Path
<1>2. x.next \in Link /\ x.value \in Link
  BY DEF Memory
<1>3. y.next = [x.next EXCEPT ![b] = Null] /\ y.value = [x.value EXCEPT ![b] = Null]
      /\ y.live = x.live \ {b}
  BY DEF Without
<1>4. \A i \in 1..n : y.next[es[i]] = x.next[es[i]] /\ y.value[es[i]] = x.value[es[i]]
  BY <1>1, <1>2, <1>3 DEF Link
<1>5. \A i \in 1..n : es[i] \in y.live /\ x.value[es[i]] \in y.live
  BY <1>1, <1>3
<1>6. y.q = x.q /\ y.head = x.head /\ y.tail = x.tail /\ y.q \in y.live
  BY <1>3 DEF Without, Queue
<1> QED
  BY <1>4, <1>5, <1>6, QueueKept

\* Freeing a block off the queue leaves good memories.
LEMMA FreesGood ==
  ASSUME NEW x \in GoodMemory, NEW b \in Blocks, NEW cautious,
         NEW n, NEW es, x.q # Null => Queue(x, n, es) /\ b # x.q,
         x.q # Null => \A i \in 1..n : es[i] # b /\ x.value[es[i]] # b
  PROVE  /\ test_free(x, b, cautious) \in Trace(GoodMemory)
         /\ Without(x, b, Last(test_free(x, b, cautious)))
         /\ x.q # Null => Queue(Last(test_free(x, b, cautious)), n, es)
<1> DEFINE S == {y \in Memory : (SameQueue(x, y) /\ y.live = x.live) \/ Without(x, b, y)}
<1>1. x \in Memory
  BY DEF GoodMemory
<1>2. /\ test_free(x, b, cautious) \in Trace(S)
      /\ Without(x, b, Last(test_free(x, b, cautious)))
  BY <1>1, Frees
<1>3. ASSUME NEW y, Without(x, b, y), x.q # Null
      PROVE  Queue(y, n, es)
  BY <1>1, <1>3, WithoutKept
<1>4. ASSUME NEW y \in Memory, Without(x, b, y)
      PROVE  y \in GoodMemory
  BY <1>3, <1>4 DEF GoodMemory, HasQueue, Without
<1>5. S \subseteq GoodMemory
  BY <1>4, SameGood
<1> QED
  BY <1>2, <1>3, <1>5, TraceSub

\* So does giving one out.
LEMMA MallocsGood ==
  ASSUME NEW x \in GoodMemory, ~Full(x)
  PROVE  LET l == Last(test_malloc(x))
         IN  /\ test_malloc(x) \in Trace(GoodMemory)
             /\ l \in Memory /\ SameQueue(x, l) /\ l.live = x.live \cup {Fresh(x)}
             /\ Fresh(x) \in Blocks \ x.live
<1> DEFINE S == {y \in Memory : SameQueue(x, y) /\ x.live \subseteq y.live}
<1>1. x \in Memory
  BY DEF GoodMemory
<1>2. /\ test_malloc(x) \in Trace(S)
      /\ Last(test_malloc(x)) \in Memory /\ SameQueue(x, Last(test_malloc(x)))
      /\ Last(test_malloc(x)).live = x.live \cup {Fresh(x)}
  BY <1>1, Mallocs
<1>3. S \subseteq GoodMemory
  BY SameGood
<1>4. test_malloc(x) \in Trace(GoodMemory)
  <2> HIDE DEF S
  <2> QED
    BY <1>2, <1>3, TraceSub
<1> QED
  BY <1>1, <1>2, <1>4, FreshIsFree

\* A queue stays one while the fields it consists of stay.
LEMMA SameQueueKept ==
  ASSUME NEW x, NEW y, NEW n, NEW es, Queue(x, n, es), SameQueue(x, y), x.live \subseteq y.live
  PROVE  Queue(y, n, es)
<1>1. \A i \in 1..n : es[i] \in x.live /\ x.value[es[i]] \in x.live
  BY DEF Queue
<1>2. x.q \in x.live
  BY DEF Queue
<1> QED
  BY <1>1, <1>2, QueueKept DEF SameQueue

\* An insertion without memory for the string.
LEMMA RefusedGood ==
  ASSUME NEW x \in GoodMemory, x.q # Null, NEW r \in Refused(x)
  PROVE  /\ r.trace \in Trace(GoodMemory)
         /\ \A n, es : Queue(x, n, es) => Queue(Last(r.trace), n, es)
<1> DEFINE t == test_malloc(x)
           l == Last(t)
           b == Fresh(x)
           u == test_free(l, b, TRUE)
<1>1. CASE r = Ran(<<x>>, FALSE)
  <2>1. r.trace = <<x>>
    BY <1>1 DEF Ran
  <2> QED
    BY <2>1, TraceOf1
<1>2. CASE ~Full(x) /\ r = Ran(t \o u, FALSE)
  <2>1. t \in Trace(GoodMemory) /\ SameQueue(x, l) /\ l.live = x.live \cup {b} /\ b \in Blocks \ x.live
    BY <1>2, MallocsGood
  <2> HIDE DEF t, b
  <2>2. l \in GoodMemory
    BY <2>1, TraceAt
  <2> HIDE DEF l
  <2>3. ASSUME NEW n, NEW es, Queue(x, n, es)
        PROVE  /\ u \in Trace(GoodMemory) /\ Queue(Last(u), n, es)
    <3>1. Queue(l, n, es)
      BY <2>1, <2>3, SameQueueKept
    <3>2. b # l.q /\ \A i \in 1..n : es[i] # b /\ l.value[es[i]] # b
      BY <2>1, <2>3 DEF Queue, SameQueue
    <3>3. l.q # Null
      BY <2>1 DEF SameQueue
    <3> QED
      BY <2>1, <2>2, <3>1, <3>2, <3>3, FreesGood
  <2>4. PICK n, es : Queue(x, n, es)
    BY DEF GoodMemory, HasQueue
  <2>5. u \in Trace(GoodMemory)
    BY <2>3, <2>4
  <2>6. r.trace = t \o u
    BY <1>2 DEF Ran
  <2> HIDE DEF u
  <2>7. r.trace \in Trace(GoodMemory) /\ Last(r.trace) = Last(u)
    BY <2>1, <2>5, <2>6, TraceJoin
  <2> QED
    BY <2>3, <2>7
<1> QED
  BY <1>1, <1>2 DEF Refused

\* y is x with a new element e whose string is the block v.
NewElement(x, y, e, v, s) ==
  /\ e \in Blocks \ x.live /\ v \in Blocks \ x.live /\ e # v
  /\ y.live = x.live \cup {e, v}
  /\ y.q = x.q /\ y.head = x.head /\ y.tail = x.tail /\ y.sizeL = x.sizeL
  /\ y.next = x.next
  /\ y.value = [x.value EXCEPT ![e] = v]
  /\ y.text = [x.text EXCEPT ![v] = s]

\* Two blocks can be given out one after the other.
LEMMA RoomForTwo ==
  ASSUME NEW x \in Memory, Cardinality(x.live) + 2 <= Cardinality(Blocks)
  PROVE  ~Full(x) /\ \A b \in Blocks : x.live \cup {b} # Blocks
<1>1. IsFiniteSet(x.live) /\ IsFiniteSet(Blocks)
  BY HeapAssumption, FS_Subset DEF Memory
<1>2. Cardinality(x.live) \in Nat /\ Cardinality(Blocks) \in Nat
  BY <1>1, FS_CardinalityType
<1>3. ASSUME NEW b \in Blocks
      PROVE  Cardinality(x.live \cup {b}) <= Cardinality(x.live) + 1
  <2> DEFINE L == x.live
  <2> HIDE DEF L
  <2>1. Cardinality(L \cup {b}) = IF b \in L THEN Cardinality(L) ELSE Cardinality(L) + 1
    BY <1>1, FS_AddElement DEF L
  <2> QED
    BY <1>2, <2>1 DEF L
<1> QED
  BY <1>2, <1>3 DEF Full

\* The two allocations of an insertion.
LEMMA AllocatedGood ==
  ASSUME NEW x \in GoodMemory, x.q # Null, NEW s \in Strings, NEW r \in Allocated(x, s)
  PROVE  /\ r.trace \in Trace(GoodMemory) /\ r.ret = Fresh(x)
         /\ \E v : NewElement(x, Last(r.trace), r.ret, v, s)
         /\ \A n, es : Queue(x, n, es) => Queue(Last(r.trace), n, es)
<1> DEFINE t == test_malloc(x)
           l == Last(t)
           e == Fresh(x)
           w == test_malloc(l)
           k == Last(w)
           v == Fresh(l)
           y == [k EXCEPT !.text[v] = s, !.value[e] = v]
<1>1. /\ Cardinality(x.live) + 2 <= Cardinality(Blocks)
      /\ r.ret = e /\ r.trace = Append(t \o w, [Last(t \o w) EXCEPT !.text[v] = s, !.value[e] = v])
  <2>1. ~(Cardinality(x.live) + 2 > Cardinality(Blocks))
    BY DEF Allocated
  <2>2. Cardinality(x.live) \in Nat /\ Cardinality(Blocks) \in Nat
    BY HeapAssumption, FS_Subset, FS_CardinalityType DEF GoodMemory, Memory
  <2> QED
    BY <2>1, <2>2 DEF Allocated
<1>2. x \in Memory
  BY DEF GoodMemory
<1>3. t \in Trace(GoodMemory) /\ SameQueue(x, l) /\ l.live = x.live \cup {e} /\ e \in Blocks \ x.live
  BY <1>1, <1>2, RoomForTwo, MallocsGood
<1>4. ~Full(l)
  BY <1>1, <1>2, <1>3, RoomForTwo DEF Full
<1> HIDE DEF t, e
<1>5. l \in GoodMemory
  BY <1>3, TraceAt
<1> HIDE DEF l
<1>6. w \in Trace(GoodMemory) /\ SameQueue(l, k) /\ k.live = l.live \cup {v} /\ v \in Blocks \ l.live
  BY <1>4, <1>5, MallocsGood
<1> HIDE DEF w, v
<1>7. k \in GoodMemory /\ t \o w \in Trace(GoodMemory) /\ Last(t \o w) = k
  BY <1>3, <1>6, TraceAt, TraceJoin
<1> HIDE DEF k
<1>8. k \in Memory
  BY <1>7 DEF GoodMemory
<1>9. y \in Memory /\ NewElement(x, y, e, v, s)
  BY <1>3, <1>6, <1>8 DEF Memory, Link, SameQueue, NewElement
<1> HIDE DEF y
<1>10. ASSUME NEW n, NEW es, Queue(x, n, es)
       PROVE  Queue(y, n, es)
  <2>1. \A i \in 1..n : es[i] \in x.live /\ x.value[es[i]] \in x.live /\ es[i] \in Blocks
    BY <1>10 DEF Queue, Path
  <2>2. y.value = [x.value EXCEPT ![e] = v] /\ x.value \in Link /\ e \notin x.live
    BY <1>2, <1>9 DEF NewElement, Memory
  <2>3. \A i \in 1..n : y.value[es[i]] = x.value[es[i]]
    BY <2>1, <2>2 DEF Link
  <2>4. y.next = x.next /\ y.q = x.q /\ y.head = x.head /\ y.tail = x.tail /\ x.live \subseteq y.live
    BY <1>9 DEF NewElement
  <2>5. y.q \in y.live
    BY <1>10, <2>4 DEF Queue
  <2> QED
    BY <1>10, <2>1, <2>3, <2>4, <2>5, QueueKept
<1>11. y \in GoodMemory
  <2>1. \E n, es : Queue(x, n, es)
    BY DEF GoodMemory, HasQueue
  <2>2. \E n, es : Queue(y, n, es)
    BY <1>10, <2>1
  <2>3. y.q # Null
    BY <1>9 DEF NewElement
  <2> QED
    BY <1>9, <2>2, <2>3 DEF GoodMemory, HasQueue
<1>12. r.trace = Append(t \o w, y)
  BY <1>1, <1>7 DEF y
<1>13. r.trace \in Trace(GoodMemory) /\ Last(r.trace) = y
  BY <1>7, <1>11, <1>12, TraceAdd
<1> QED
  BY <1>1, <1>9, <1>10, <1>13 DEF e

-----------------------------------------------------------------------------
\* tail may become Null or any element.
LEMMA TailMoved ==
  ASSUME NEW x, NEW y, NEW n, NEW es, Queue(x, n, es),
         y.q = x.q, y.head = x.head, y.next = x.next, y.value = x.value, y.live = x.live,
         y.tail = x.tail \/ y.tail = Null \/ \E i \in 1..n : y.tail = es[i]
  PROVE  Queue(y, n, es)
BY DEF Queue

\* What a path with a block before it holds.
LEMMA PushFacts ==
  ASSUME NEW n \in Nat, NEW e, NEW es
  PROVE  /\ Pushed(e, n, es)[1] = e /\ \A i \in 1..n : Pushed(e, n, es)[i+1] = es[i]
         /\ \A i \in 1..n+1 : i = 1 \/ (i - 1 \in 1..n /\ Pushed(e, n, es)[i] = es[i-1])
         /\ \A i \in 1..n : i + 1 \in 1..n+1
BY DEF Pushed

\* A new element has nothing in common with the list.
Apart(x, y, n, es, e, v) ==
  /\ \A i \in 1..n : es[i] \in x.live /\ y.value[es[i]] \in x.live /\ es[i] \in Blocks
  /\ x.q \in x.live
  /\ \A i \in 1..n : es[i] # e /\ es[i] # v /\ y.value[es[i]] # e /\ y.value[es[i]] # v
  /\ e # v /\ y.value[e] = v /\ e \in y.live /\ v \in y.live /\ e # x.q /\ v # x.q

\* A new element and its string are apart from the queue.
LEMMA NewApart ==
  ASSUME NEW x \in Memory, NEW y, NEW n, NEW es, Queue(x, n, es),
         NEW e, NEW v, NEW s, NewElement(x, y, e, v, s)
  PROVE  Apart(x, y, n, es, e, v)
<1>1. \A i \in 1..n : es[i] \in x.live /\ x.value[es[i]] \in x.live /\ es[i] \in Blocks
  BY DEF Queue, Path
<1>2. y.value = [x.value EXCEPT ![e] = v] /\ x.value \in Link /\ e \notin x.live /\ v \notin x.live
  BY DEF NewElement, Memory
<1>3. \A i \in 1..n : y.value[es[i]] = x.value[es[i]]
  BY <1>1, <1>2 DEF Link
<1>4. x.q \in x.live
  BY DEF Queue
<1>5. e # v /\ y.value[e] = v /\ e \in y.live /\ v \in y.live
  BY <1>2 DEF NewElement, Link
<1> QED
  BY <1>1, <1>2, <1>3, <1>4, <1>5 DEF Apart

\* The list after an element is put before it.
LEMMA QueuePush ==
  ASSUME NEW x \in Memory, NEW y \in Memory, NEW z \in Memory, NEW n, NEW es,
         Queue(x, n, es), Queue(y, n, es), NEW e, NEW v, NEW s, NewElement(x, y, e, v, s),
         z.next = [y.next EXCEPT ![e] = y.head], z.head = e, z.q = y.q, z.tail = y.tail,
         z.value = y.value, z.live = y.live
  PROVE  Queue(z, n + 1, Pushed(e, n, es))
<1> DEFINE fs == Pushed(e, n, es)
<1>1. n \in Nat /\ e \in Blocks
  BY DEF Queue, Path, NewElement
<1>2. /\ \A i \in 1..n : es[i] \in x.live /\ y.value[es[i]] \in x.live /\ es[i] \in Blocks
      /\ x.q \in x.live
      /\ \A i \in 1..n : es[i] # e /\ es[i] # v /\ y.value[es[i]] # e /\ y.value[es[i]] # v
      /\ e # v /\ y.value[e] = v /\ e \in y.live /\ v \in y.live /\ e # x.q /\ v # x.q
  <2>1. Apart(x, y, n, es, e, v)
    BY NewApart
  <2> QED
    BY <2>1 DEF Apart
<1>3. e \notin x.live /\ v \notin x.live /\ e # v /\ y.value[e] = v /\ e \in y.live /\ v \in y.live
  BY <1>2 DEF NewElement
<1>4. Path(z.next, e, n + 1, fs)
  <2>1. y.next \in Link
    BY DEF Memory
  <2>2. z.next[e] = y.head
    BY <1>1, <2>1 DEF Link
  <2>3. \A i \in 1..n : es[i] # e
    BY <1>2, <1>3
  <2>4. \A i \in 1..n : z.next[es[i]] = y.next[es[i]]
    BY <1>2, <2>1, <2>3 DEF Link
  <2>5. Path(y.next, y.head, n, es)
    BY DEF Queue
  <2> DEFINE links == z.next
             next == y.next
             first == y.head
  <2>6. links[e] = first /\ \A i \in 1..n : links[es[i]] = next[es[i]]
    BY <2>2, <2>4
  <2>7. Path(next, first, n, es)
    BY <2>5
  <2> HIDE DEF links, next, first
  <2>8. Path(links, e, n + 1, Pushed(e, n, es))
    BY <1>1, <2>3, <2>6, <2>7, PathPush
  <2> QED
    BY <2>8 DEF links
<1>5. /\ fs[1] = e /\ \A i \in 1..n : fs[i+1] = es[i]
      /\ \A i \in 1..n+1 : i = 1 \/ (i - 1 \in 1..n /\ fs[i] = es[i-1])
      /\ \A i \in 1..n : i + 1 \in 1..n+1
  BY <1>1 DEF Pushed
<1> HIDE DEF fs
<1>6. \A i \in 1..n+1 : fs[i] \in y.live /\ y.value[fs[i]] \in y.live
  BY <1>1, <1>3, <1>5 DEF Queue
<1>7. ASSUME NEW i \in 1..n+1, NEW j \in 1..n+1
      PROVE  y.value[fs[i]] # fs[j] /\ (y.value[fs[i]] = y.value[fs[j]] => i = j)
  <2>1. CASE i = 1 /\ j = 1
    BY <1>3, <1>5, <2>1
  <2>2. CASE i = 1 /\ j # 1
    <3>1. j - 1 \in 1..n /\ fs[j] = es[j-1]
      BY <1>5, <2>2
    <3> QED
      BY <1>2, <1>3, <1>5, <2>2, <3>1
  <2>3. CASE i # 1 /\ j = 1
    <3>1. i - 1 \in 1..n /\ fs[i] = es[i-1]
      BY <1>5, <2>3
    <3> QED
      BY <1>2, <1>3, <1>5, <2>3, <3>1
  <2>4. CASE i # 1 /\ j # 1
    <3>1. i - 1 \in 1..n /\ fs[i] = es[i-1] /\ j - 1 \in 1..n /\ fs[j] = es[j-1]
      BY <1>5, <2>4
    <3>2. y.value[es[i-1]] # es[j-1] /\ (y.value[es[i-1]] = y.value[es[j-1]] => i - 1 = j - 1)
      BY <3>1 DEF Queue
    <3> QED
      BY <1>1, <3>1, <3>2
  <2> QED
    BY <2>1, <2>2, <2>3, <2>4
<1>8. \A i \in 1..n+1 : fs[i] # y.q /\ y.value[fs[i]] # y.q
  BY <1>2, <1>3, <1>5 DEF Queue, NewElement
<1>9. y.tail = Null \/ \E i \in 1..n+1 : y.tail = fs[i]
  <2>1. ASSUME NEW i \in 1..n, y.tail = es[i]
        PROVE  i + 1 \in 1..n+1 /\ y.tail = fs[i+1]
    BY <1>5, <2>1
  <2> QED
    BY <2>1 DEF Queue
<1>10. z.q \in z.live
  BY DEF Queue
<1>11. Queue(z, n + 1, fs)
  BY <1>4, <1>6, <1>7, <1>8, <1>9, <1>10 DEF Queue
<1> QED
  BY <1>11 DEF fs

\* The assignments of q_insert_head.
LEMMA HeadInserted ==
  ASSUME NEW x \in GoodMemory, x.q # Null, NEW s \in Strings, NEW r \in Allocated(x, s)
  PROVE  LET t == head_inserted(r.trace, r.ret)
         IN  /\ t \in Trace(GoodMemory)
             /\ \A n, es : Queue(x, n, es) => Queue(Last(t), n + 1, Pushed(r.ret, n, es))
<1> DEFINE y == Last(r.trace)
           e == r.ret
           entered == [y EXCEPT !.next[e] = y.head, !.head = e]
           counted == [entered EXCEPT !.sizeL = @ + 1]
           z == IF y.tail = Null THEN [counted EXCEPT !.tail = e] ELSE counted
           Is(w, n, es) == Queue(w, n + 1, Pushed(e, n, es))
<1>1. /\ r.trace \in Trace(GoodMemory)
      /\ \E v : NewElement(x, y, e, v, s)
      /\ \A n, es : Queue(x, n, es) => Queue(y, n, es)
  BY AllocatedGood
<1>2. y \in GoodMemory
  BY <1>1, TraceAt
<1>3. head_inserted(r.trace, r.ret) = r.trace \o <<entered, counted, z>>
  BY DEF head_inserted
<1> HIDE DEF y, e
<1>4. PICK v : NewElement(x, y, e, v, s)
  BY <1>1
<1>5. x \in Memory /\ y \in Memory /\ e \in Blocks /\ y.q # Null
  BY <1>2, <1>4 DEF GoodMemory, NewElement
<1>6. /\ entered \in Memory /\ entered.next = [y.next EXCEPT ![e] = y.head] /\ entered.head = e
      /\ entered.q = y.q /\ entered.tail = y.tail /\ entered.value = y.value /\ entered.live = y.live
  BY <1>5 DEF Memory, Link
<1>7. \A n, es : Queue(x, n, es) => Is(entered, n, es)
  BY <1>1, <1>4, <1>5, <1>6, QueuePush
<1> HIDE DEF entered
<1>8. /\ counted \in Memory /\ counted.next = entered.next /\ counted.head = entered.head
      /\ counted.q = entered.q /\ counted.tail = entered.tail /\ counted.value = entered.value
      /\ counted.live = entered.live
  BY <1>6 DEF Memory
<1> HIDE DEF counted
<1>9. \A n, es : Queue(x, n, es) => Is(counted, n, es)
  BY <1>7, <1>8, TailMoved
<1>10. /\ z \in Memory /\ z.next = counted.next /\ z.head = counted.head
       /\ z.q = counted.q /\ (z.tail = counted.tail \/ z.tail = e) /\ z.value = counted.value
       /\ z.live = counted.live
  BY <1>5, <1>8 DEF Memory
<1> HIDE DEF z
<1>11. ASSUME NEW n, NEW es, Queue(x, n, es)
       PROVE  Is(z, n, es)
  <2>1. n \in Nat
    BY <1>11 DEF Queue, Path
  <2>2. 1 \in 1..n+1 /\ Pushed(e, n, es)[1] = e
    BY <2>1, PushFacts
  <2>3. z.tail = counted.tail \/ \E i \in 1..n+1 : z.tail = Pushed(e, n, es)[i]
    BY <1>10, <2>2
  <2> QED
    BY <1>9, <1>10, <1>11, <2>3, TailMoved
<1>12. PICK n, es : Queue(x, n, es)
  BY DEF GoodMemory, HasQueue
<1>13. entered \in GoodMemory /\ counted \in GoodMemory /\ z \in GoodMemory
  BY <1>5, <1>6, <1>7, <1>8, <1>9, <1>10, <1>11, <1>12 DEF GoodMemory, HasQueue
<1>14. <<entered, counted, z>> \in Trace(GoodMemory) /\ Last(<<entered, counted, z>>) = z
  BY <1>13, TraceOf3
<1> DEFINE u == <<entered, counted, z>>
<1> HIDE DEF u
<1>15. r.trace \o u \in Trace(GoodMemory) /\ Last(r.trace \o u) = z
  BY <1>1, <1>14, TraceJoin DEF u
<1> QED
  BY <1>3, <1>11, <1>15 DEF e, u

\* The list that ends in a new element, behind its k-th.
LEMMA QueueEnd ==
  ASSUME NEW x \in Memory, NEW y \in Memory, NEW z \in Memory, NEW n, NEW es,
         Queue(x, n, es), Queue(y, n, es), NEW e, NEW v, NEW s, NewElement(x, y, e, v, s),
         NEW k \in 1..n, z.next = [[y.next EXCEPT ![e] = Null] EXCEPT ![es[k]] = e],
         z.head = y.head, z.q = y.q, z.value = y.value, z.live = y.live,
         z.tail \in {Null, es[k], e}
  PROVE  Queue(z, k + 1, Ended(e, k, es))
<1> DEFINE fs == Ended(e, k, es)
<1>1. n \in Nat /\ k \in Nat /\ k <= n /\ e \in Blocks
  BY DEF Queue, Path, NewElement
<1>2. /\ \A i \in 1..n : es[i] \in x.live /\ y.value[es[i]] \in x.live /\ es[i] \in Blocks
      /\ x.q \in x.live
      /\ \A i \in 1..n : es[i] # e /\ es[i] # v /\ y.value[es[i]] # e /\ y.value[es[i]] # v
      /\ e # v /\ y.value[e] = v /\ e \in y.live /\ v \in y.live /\ e # x.q /\ v # x.q
  <2>1. Apart(x, y, n, es, e, v)
    BY NewApart
  <2> QED
    BY <2>1 DEF Apart
<1>3. Path(z.next, z.head, k + 1, fs)
  <2>1. y.next \in Link /\ z.next \in Link
    BY DEF Memory
  <2>2. z.next[e] = Null /\ z.next[es[k]] = e
    BY <1>1, <1>2, <2>1 DEF Link
  <2>3. ASSUME NEW i \in 1..n, i # k
        PROVE  z.next[es[i]] = y.next[es[i]]
    <3>1. es[i] # es[k] /\ es[i] # e /\ es[i] \in Blocks
      BY <1>2, <2>3 DEF Queue, Path
    <3> QED
      BY <2>1, <3>1 DEF Link
  <2> DEFINE links == z.next
             next == y.next
             first == y.head
  <2>4. links[e] = Null /\ links[es[k]] = e
    BY <2>2
  <2>5. \A i \in 1..n : i # k => links[es[i]] = next[es[i]]
    BY <2>3
  <2>6. Path(next, first, n, es)
    BY DEF Queue
  <2>7. \A i \in 1..n : es[i] # e
    BY <1>2
  <2> HIDE DEF links, next, first
  <2>8. Path(links, first, k + 1, Ended(e, k, es))
    BY <1>1, <2>4, <2>5, <2>6, <2>7, PathEnd
  <2> QED
    BY <2>8 DEF links, first
<1>4. /\ fs[k+1] = e /\ \A i \in 1..k : fs[i] = es[i] /\ i \in 1..n
      /\ \A i \in 1..k+1 : i = k + 1 \/ i \in 1..k
      /\ k \in 1..k+1 /\ k + 1 \in 1..k+1
  BY <1>1 DEF Ended
<1> HIDE DEF fs
<1>5. \A i \in 1..k+1 : fs[i] = e \/ \E j \in 1..n : fs[i] = es[j]
  BY <1>4
<1>6. \A i \in 1..k+1 : fs[i] \in y.live /\ y.value[fs[i]] \in y.live
  BY <1>2, <1>5 DEF Queue
<1>7. ASSUME NEW i \in 1..k+1, NEW j \in 1..k+1
      PROVE  y.value[fs[i]] # fs[j] /\ (y.value[fs[i]] = y.value[fs[j]] => i = j)
  <2>1. CASE i = k + 1 /\ j = k + 1
    BY <1>2, <1>4, <2>1
  <2>2. CASE i = k + 1 /\ j \in 1..k
    BY <1>2, <1>4, <2>2
  <2>3. CASE i \in 1..k /\ j = k + 1
    BY <1>2, <1>4, <2>3
  <2>4. CASE i \in 1..k /\ j \in 1..k
    <3>1. fs[i] = es[i] /\ i \in 1..n /\ fs[j] = es[j] /\ j \in 1..n
      BY <1>4, <2>4
    <3> QED
      BY <3>1 DEF Queue
  <2> QED
    BY <1>4, <2>1, <2>2, <2>3, <2>4
<1>8. y.q = x.q
  BY DEF NewElement
<1>9. \A i \in 1..k+1 : fs[i] # y.q /\ y.value[fs[i]] # y.q
  BY <1>2, <1>5, <1>8 DEF Queue
<1>10. z.tail = Null \/ \E i \in 1..k+1 : z.tail = fs[i]
  <2>1. k \in 1..k
    BY <1>1
  <2> QED
    BY <1>4, <2>1
<1>11. z.q \in z.live
  BY DEF Queue
<1>12. Queue(z, k + 1, fs)
  BY <1>3, <1>6, <1>7, <1>9, <1>10, <1>11 DEF Queue
<1> QED
  BY <1>12 DEF fs

\* A list of one new element.
LEMMA QueueOne ==
  ASSUME NEW x \in Memory, NEW y \in Memory, NEW z \in Memory, NEW n, NEW es,
         Queue(x, n, es), NEW e, NEW v, NEW s, NewElement(x, y, e, v, s),
         z.next[e] = Null, z.head = e, z.q = y.q, z.value = y.value, z.live = y.live,
         z.tail \in {Null, e}
  PROVE  Queue(z, 1, <<e>>)
<1>1. /\ e # v /\ y.value[e] = v /\ e \in y.live /\ v \in y.live /\ e # x.q /\ v # x.q
      /\ x.q \in x.live
  <2>1. Apart(x, y, n, es, e, v)
    BY NewApart
  <2> QED
    BY <2>1 DEF Apart
<1>2. e \in Blocks /\ y.q = x.q /\ x.live \subseteq y.live
  BY DEF NewElement
<1>3. Path(z.next, e, 1, <<e>>)
  BY <1>2 DEF Path
<1> QED
  BY <1>1, <1>2, <1>3 DEF Queue

\* The assignments of q_insert_tail.
LEMMA TailInserted ==
  ASSUME NEW x \in GoodMemory, x.q # Null, NEW s \in Strings, NEW r \in Allocated(x, s)
  PROVE  LET t == tail_inserted(r.trace, r.ret)
         IN  /\ t \in Trace(GoodMemory)
             /\ \A n, es : Queue(x, n, es) /\ x.tail = Null => Queue(Last(t), 1, <<r.ret>>)
             /\ \A n, es : Queue(x, n, es) => \A k \in 1..n :
                  x.tail = es[k] => Queue(Last(t), k + 1, Ended(r.ret, k, es))
<1> DEFINE y == Last(r.trace)
           e == r.ret
           entered == IF y.tail = Null THEN [y EXCEPT !.next[e] = Null, !.head = e]
                      ELSE [y EXCEPT !.next[e] = Null, !.next[y.tail] = e]
           moved == [entered EXCEPT !.tail = e]
           counted == [moved EXCEPT !.sizeL = @ + 1]
<1>1. /\ r.trace \in Trace(GoodMemory)
      /\ \E v : NewElement(x, y, e, v, s)
      /\ \A n, es : Queue(x, n, es) => Queue(y, n, es)
  BY AllocatedGood
<1>2. y \in GoodMemory
  BY <1>1, TraceAt
<1>3. tail_inserted(r.trace, r.ret) = r.trace \o <<entered, moved, counted>>
  BY DEF tail_inserted
<1> HIDE DEF y, e
<1>4. PICK v : NewElement(x, y, e, v, s)
  BY <1>1
<1>5. x \in Memory /\ y \in Memory /\ e \in Blocks /\ y.q # Null /\ y.tail = x.tail /\ Null \notin Blocks
  BY <1>2, <1>4, HeapAssumption DEF GoodMemory, NewElement
<1>6. /\ entered \in Memory /\ entered.q = y.q /\ entered.tail = y.tail
      /\ entered.value = y.value /\ entered.live = y.live
      /\ y.tail = Null => entered.next[e] = Null /\ entered.head = e
      /\ y.tail # Null => /\ entered.next = [[y.next EXCEPT ![e] = Null] EXCEPT ![y.tail] = e]
                         /\ entered.head = y.head
  BY <1>5 DEF Memory, Link
<1> HIDE DEF entered
<1>7. /\ moved \in Memory /\ moved.next = entered.next /\ moved.head = entered.head
      /\ moved.q = entered.q /\ moved.tail = e /\ moved.value = entered.value
      /\ moved.live = entered.live
  BY <1>5, <1>6 DEF Memory
<1> HIDE DEF moved
<1>8. /\ counted \in Memory /\ counted.next = entered.next /\ counted.head = entered.head
      /\ counted.q = entered.q /\ counted.tail = e /\ counted.value = entered.value
      /\ counted.live = entered.live
  BY <1>7 DEF Memory
<1> HIDE DEF counted
<1>9. ASSUME NEW n, NEW es, Queue(x, n, es), x.tail = Null
      PROVE  /\ Queue(entered, 1, <<e>>) /\ Queue(moved, 1, <<e>>) /\ Queue(counted, 1, <<e>>)
  <2>1. y.tail = Null
    BY <1>5, <1>9
  <2>2. Queue(entered, 1, <<e>>)
    BY <1>4, <1>5, <1>6, <1>9, <2>1, QueueOne
  <2>3. Queue(moved, 1, <<e>>)
    BY <1>4, <1>5, <1>6, <1>7, <1>9, <2>1, QueueOne
  <2>4. Queue(counted, 1, <<e>>)
    BY <1>4, <1>5, <1>6, <1>8, <1>9, <2>1, QueueOne
  <2> QED
    BY <2>2, <2>3, <2>4
<1>10. ASSUME NEW n, NEW es, Queue(x, n, es), NEW k \in 1..n, x.tail = es[k]
       PROVE  /\ Queue(entered, k + 1, Ended(e, k, es)) /\ Queue(moved, k + 1, Ended(e, k, es))
              /\ Queue(counted, k + 1, Ended(e, k, es))
  <2>1. y.tail = es[k] /\ y.tail # Null
    BY <1>5, <1>10 DEF Queue, Path
  <2>2. Queue(y, n, es)
    BY <1>1, <1>10
  <2>3. /\ entered.next = [[y.next EXCEPT ![e] = Null] EXCEPT ![es[k]] = e]
        /\ entered.head = y.head /\ entered.tail = es[k]
    BY <1>6, <2>1
  <2>4. Queue(entered, k + 1, Ended(e, k, es))
    BY <1>4, <1>5, <1>6, <1>10, <2>2, <2>3, QueueEnd
  <2>5. Queue(moved, k + 1, Ended(e, k, es))
    BY <1>4, <1>5, <1>6, <1>7, <1>10, <2>2, <2>3, QueueEnd
  <2>6. Queue(counted, k + 1, Ended(e, k, es))
    BY <1>4, <1>5, <1>6, <1>8, <1>10, <2>2, <2>3, QueueEnd
  <2> QED
    BY <2>4, <2>5, <2>6
<1>11. PICK n, es : Queue(x, n, es)
  BY DEF GoodMemory, HasQueue
<1>12. x.tail = Null \/ \E k \in 1..n : x.tail = es[k]
  BY <1>11 DEF Queue
<1>13. HasQueue(entered) /\ HasQueue(moved) /\ HasQueue(counted)
  BY <1>9, <1>10, <1>11, <1>12 DEF HasQueue
<1>14. entered \in GoodMemory /\ moved \in GoodMemory /\ counted \in GoodMemory
  BY <1>5, <1>6, <1>7, <1>8, <1>13 DEF GoodMemory
<1> DEFINE u == <<entered, moved, counted>>
<1>15. u \in Trace(GoodMemory) /\ Last(u) = counted
  BY <1>14, TraceOf3
<1> HIDE DEF u
<1>16. r.trace \o u \in Trace(GoodMemory) /\ Last(r.trace \o u) = counted
  BY <1>1, <1>15, TraceJoin
<1> QED
  BY <1>3, <1>9, <1>10, <1>16 DEF e, u

-----------------------------------------------------------------------------
Popped(n, es) == [i \in 1..n-1 |-> es[i+1]]

\* The list after its first element is unlinked.
LEMMA QueuePop ==
  ASSUME NEW x, NEW z, NEW n, NEW es, Queue(x, n, es), n # 0, x.tail # x.head,
         z.head = x.next[x.head], z.next = x.next, z.q = x.q, z.value = x.value, z.live = x.live,
         z.tail = x.tail
  PROVE  Queue(z, n - 1, Popped(n, es))
<1> DEFINE fs == Popped(n, es)
<1>1. n \in Nat /\ 1 \in 1..n /\ x.head = es[1]
  BY DEF Queue, Path
<1>2. \A i \in 1..n-1 : fs[i] = es[i+1] /\ i + 1 \in 1..n /\ i + 1 # 1
  BY <1>1 DEF Popped
<1>3. Path(z.next, z.head, n - 1, fs)
  <2> DEFINE next == x.next
             first == x.head
  <2>1. Path(next, first, n, es)
    BY DEF Queue
  <2> HIDE DEF next, first
  <2>2. Path(next, next[first], n - 1, Popped(n, es))
    BY <2>1, PathPop DEF Popped
  <2> QED
    BY <2>2 DEF next, first
<1> HIDE DEF fs
<1>4. \A i \in 1..n-1 : fs[i] \in x.live /\ x.value[fs[i]] \in x.live
  BY <1>2 DEF Queue
<1>5. \A i, j \in 1..n-1 : x.value[fs[i]] # fs[j] /\ (x.value[fs[i]] = x.value[fs[j]] => i = j)
  <2> SUFFICES ASSUME NEW i \in 1..n-1, NEW j \in 1..n-1
               PROVE  x.value[fs[i]] # fs[j] /\ (x.value[fs[i]] = x.value[fs[j]] => i = j)
    OBVIOUS
  <2>1. fs[i] = es[i+1] /\ fs[j] = es[j+1] /\ i + 1 \in 1..n /\ j + 1 \in 1..n
    BY <1>2
  <2>2. x.value[es[i+1]] # es[j+1] /\ (x.value[es[i+1]] = x.value[es[j+1]] => i + 1 = j + 1)
    BY <2>1 DEF Queue
  <2> QED
    BY <1>1, <2>1, <2>2
<1>6. \A i \in 1..n-1 : fs[i] # x.q /\ x.value[fs[i]] # x.q
  BY <1>2 DEF Queue
<1>7. x.tail = Null \/ \E i \in 1..n-1 : x.tail = fs[i]
  <2>1. ASSUME NEW i \in 1..n, x.tail = es[i]
        PROVE  i - 1 \in 1..n-1 /\ x.tail = fs[i-1]
    <3>1. i # 1
      BY <1>1, <2>1
    <3>2. i - 1 \in 1..n-1 /\ (i - 1) + 1 = i
      BY <1>1, <3>1
    <3> QED
      BY <1>2, <2>1, <3>2
  <2> QED
    BY <2>1 DEF Queue
<1>8. z.q \in z.live
  BY DEF Queue
<1>9. Queue(z, n - 1, fs)
  BY <1>3, <1>4, <1>5, <1>6, <1>7, <1>8 DEF Queue
<1> QED
  BY <1>9 DEF fs

\* The unlinked element and its string are not the list's any more.
LEMMA PopApart ==
  ASSUME NEW x, NEW n, NEW es, Queue(x, n, es), n # 0
  PROVE  \A i \in 1..n-1 : /\ Popped(n, es)[i] # x.head /\ Popped(n, es)[i] # x.value[x.head]
                          /\ x.value[Popped(n, es)[i]] # x.head
                          /\ x.value[Popped(n, es)[i]] # x.value[x.head]
<1> DEFINE fs == Popped(n, es)
<1>1. n \in Nat /\ 1 \in 1..n /\ x.head = es[1]
  BY DEF Queue, Path
<1> SUFFICES ASSUME NEW i \in 1..n-1
             PROVE  /\ fs[i] # x.head /\ fs[i] # x.value[x.head]
                    /\ x.value[fs[i]] # x.head /\ x.value[fs[i]] # x.value[x.head]
  OBVIOUS
<1>2. fs[i] = es[i+1] /\ i + 1 \in 1..n /\ i + 1 # 1
  BY <1>1 DEF Popped
<1>3. es[i+1] # es[1]
  BY <1>1, <1>2 DEF Queue, Path
<1>4. /\ x.value[es[i+1]] # es[1] /\ x.value[es[1]] # es[i+1]
      /\ (x.value[es[i+1]] = x.value[es[1]] => i + 1 = 1)
  BY <1>1, <1>2 DEF Queue
<1> QED
  BY <1>1, <1>2, <1>3, <1>4

\* q_remove_head, and an alarm in it, leaves a good memory.
LEMMA RemoveGood ==
  ASSUME NEW x \in GoodMemory, NEW r \in q_remove_head(x)
  PROVE  /\ r.trace \in Trace(GoodMemory)
         /\ \A n, es : Queue(x, n, es) => IF n = 0 THEN Last(r.trace) = x
                                                  ELSE Queue(Last(r.trace), n - 1, Popped(n, es))
<1>1. CASE x.q = Null \/ x.head = Null
  <2>1. r.trace = <<x>>
    <3>1. q_remove_head(x) = {Ran(<<x>>, FALSE)}
      BY <1>1, Zenon DEF q_remove_head
    <3> QED
      BY <3>1 DEF Ran
  <2>2. \A n, es : Queue(x, n, es) => n = 0
    <3>1. ASSUME NEW n, NEW es, Queue(x, n, es), n # 0
          PROVE  FALSE
      <4>1. x.q # Null /\ x.head = es[1] /\ es[1] \in Blocks
        BY <3>1, HeapAssumption DEF Queue, Path, GoodMemory, Memory
      <4> QED
        BY <1>1, <4>1, HeapAssumption
    <3> QED
      BY <3>1
  <2> QED
    BY <2>1, <2>2, TraceOf1
<1>2. CASE x.q # Null /\ x.head # Null
  <2> DEFINE h == x.head
             b == x.value[h]
             trimmed == IF h = x.tail THEN [x EXCEPT !.tail = x.next[h]] ELSE x
             unlinked == [trimmed EXCEPT !.head = x.next[h]]
             counted == [unlinked EXCEPT !.sizeL = @ - 1]
             t == test_free(counted, b, TRUE)
             u == test_free(Last(t), h, TRUE)
  <2>1. r.trace = (<<x, trimmed, unlinked>> \o t) \o u
    <3>1. q_remove_head(x) = {Ran((<<x, trimmed, unlinked>> \o t) \o u, TRUE)}
      BY <1>2, Zenon DEF q_remove_head
    <3> HIDE DEF trimmed, unlinked, t, u
    <3> QED
      BY <3>1 DEF Ran
  <2>2. x \in Memory /\ h \in Blocks /\ x.next[h] \in Blocks \cup {Null}
    BY <1>2 DEF GoodMemory, Memory, Link
  <2>3. b \in Blocks \cup {Null}
    BY <2>2 DEF Memory, Link
  <2> HIDE DEF h, b
  <2>4. /\ trimmed \in Memory /\ trimmed.head = x.head /\ trimmed.next = x.next /\ trimmed.q = x.q
        /\ trimmed.value = x.value /\ trimmed.live = x.live
        /\ trimmed.tail = IF h = x.tail THEN x.next[h] ELSE x.tail
    BY <2>2 DEF Memory
  <2> HIDE DEF trimmed
  <2>5. /\ unlinked \in Memory /\ unlinked.head = x.next[h] /\ unlinked.next = x.next /\ unlinked.q = x.q
        /\ unlinked.value = x.value /\ unlinked.live = x.live /\ unlinked.tail = trimmed.tail
    BY <2>2, <2>4 DEF Memory
  <2> HIDE DEF unlinked
  <2>6. /\ counted \in Memory /\ counted.head = x.next[h] /\ counted.next = x.next /\ counted.q = x.q
        /\ counted.value = x.value /\ counted.live = x.live /\ counted.tail = trimmed.tail
    BY <2>2, <2>5 DEF Memory
  <2> HIDE DEF counted
  <2>7. ASSUME NEW n, NEW es, Queue(x, n, es)
        PROVE  /\ n # 0 /\ trimmed \in GoodMemory /\ unlinked \in GoodMemory
               /\ t \in Trace(GoodMemory) /\ u \in Trace(GoodMemory)
               /\ Queue(Last(u), n - 1, Popped(n, es))
    <3> DEFINE fs == Popped(n, es)
    <3>1. n \in Nat /\ n # 0 /\ h = es[1] /\ 1 \in 1..n
      BY <1>2, <2>7 DEF Queue, Path, h
    <3>2. x.next[h] = IF n = 1 THEN Null ELSE es[2]
      BY <2>7, <3>1 DEF Queue, Path
    <3>3. trimmed.tail = x.tail \/ trimmed.tail = Null \/ \E i \in 1..n : trimmed.tail = es[i]
      <4>1. n # 1 => 2 \in 1..n
        BY <3>1
      <4> QED
        BY <2>4, <3>2, <4>1
    <3>4. Queue(trimmed, n, es)
      BY <2>4, <2>7, <3>3, TailMoved
    <3>5. trimmed.tail # trimmed.head
      <4>1. x.next[h] # h
        <5>1. n # 1 => 2 \in 1..n /\ es[2] # es[1]
          BY <2>7, <3>1 DEF Queue, Path
        <5> QED
          BY <2>2, <3>1, <3>2, <5>1, HeapAssumption
      <4> QED
        BY <2>4, <4>1 DEF h
    <3>6. /\ Queue(unlinked, n - 1, fs) /\ Queue(counted, n - 1, fs)
      <4>1. x.next[h] = trimmed.next[trimmed.head]
        BY <2>4 DEF h
      <4>2. Queue(unlinked, n - 1, fs)
        BY <2>4, <2>5, <3>1, <3>4, <3>5, <4>1, QueuePop
      <4>3. Queue(counted, n - 1, fs)
        BY <2>4, <2>6, <3>1, <3>4, <3>5, <4>1, QueuePop
      <4> QED
        BY <4>2, <4>3
    <3>7. \A i \in 1..n-1 : fs[i] # h /\ fs[i] # b /\ x.value[fs[i]] # h /\ x.value[fs[i]] # b
      BY <2>7, <3>1, PopApart DEF h, b
    <3>8. b \in Blocks /\ b # x.q /\ h # x.q /\ b # h
      BY <2>2, <2>7, <3>1 DEF Queue, Memory, b
    <3>9. trimmed \in GoodMemory /\ unlinked \in GoodMemory /\ counted \in GoodMemory
      BY <1>2, <2>4, <2>5, <2>6, <3>4, <3>6 DEF GoodMemory, HasQueue
    <3> HIDE DEF fs
    <3>10. /\ t \in Trace(GoodMemory) /\ Without(counted, b, Last(t))
           /\ Queue(Last(t), n - 1, fs)
      <4>1. counted.q # Null /\ b # counted.q
        BY <1>2, <2>6, <3>8
      <4>2. \A i \in 1..n-1 : fs[i] # b /\ counted.value[fs[i]] # b
        BY <2>6, <3>7
      <4> HIDE DEF t
      <4> QED
        BY <3>6, <3>8, <3>9, <4>1, <4>2, FreesGood DEF t
    <3> DEFINE l == Last(t)
    <3>11. l \in GoodMemory
      BY <3>10, TraceAt
    <3>12. l.q = x.q /\ l.value = [x.value EXCEPT ![b] = Null]
      BY <2>6, <3>10 DEF Without
    <3>13. \A i \in 1..n-1 : fs[i] # h /\ l.value[fs[i]] # h
      <4>1. \A i \in 1..n-1 : fs[i] \in Blocks
        BY <3>6 DEF Queue, Path
      <4>2. x.value \in Link
        BY <2>2 DEF Memory
      <4> QED
        BY <3>7, <3>12, <4>1, <4>2 DEF Link
    <3>14. Queue(l, n - 1, fs)
      BY <3>10
    <3> HIDE DEF l
    <3>15. test_free(l, h, TRUE) \in Trace(GoodMemory) /\ Queue(Last(test_free(l, h, TRUE)), n - 1, fs)
      <4>1. l.q # Null /\ h # l.q
        BY <1>2, <3>8, <3>12
      <4> QED
        BY <2>2, <3>11, <3>13, <3>14, <4>1, FreesGood
    <3> QED
      BY <3>1, <3>9, <3>10, <3>15 DEF l, fs
  <2>8. PICK n, es : Queue(x, n, es)
    BY <1>2 DEF GoodMemory, HasQueue
  <2>9. <<x, trimmed, unlinked>> \in Trace(GoodMemory)
    BY <2>7, <2>8, TraceOf3
  <2> DEFINE a == <<x, trimmed, unlinked>>
  <2>10. t \in Trace(GoodMemory) /\ u \in Trace(GoodMemory) /\ a \in Trace(GoodMemory)
    BY <2>7, <2>8, <2>9
  <2> HIDE DEF a, t, u
  <2>11. a \o t \in Trace(GoodMemory)
    BY <2>10, TraceJoin
  <2>12. r.trace = (a \o t) \o u
    BY <2>1 DEF a
  <2>13. r.trace \in Trace(GoodMemory) /\ Last(r.trace) = Last(u)
    BY <2>10, <2>11, <2>12, TraceJoin
  <2> QED
    BY <2>7, <2>13
<1> QED
  BY <1>1, <1>2

-----------------------------------------------------------------------------
\* q_new, and an alarm in it, leaves a good memory.
LEMMA NewGood ==
  ASSUME NEW x \in GoodMemory, x.q = Null, NEW r \in q_new(x)
  PROVE  /\ r.trace \in Trace(GoodMemory)
         /\ [Last(r.trace) EXCEPT !.q = r.ret] \in GoodMemory
<1>0. x \in Memory /\ x.tail = Null
  BY DEF GoodMemory
<1>1. CASE r = Ran(<<x>>, Null)
  <2>1. r.trace = <<x>> /\ r.ret = Null
    BY <1>1 DEF Ran
  <2>2. r.trace \in Trace(GoodMemory) /\ Last(r.trace) = x
    BY <2>1, TraceOf1
  <2>3. [x EXCEPT !.q = Null] = x
    BY <1>0 DEF Memory
  <2> QED
    BY <2>1, <2>2, <2>3
<1>2. CASE r # Ran(<<x>>, Null)
  <2> DEFINE t == test_malloc(x)
             l == Last(t)
             b == Fresh(x)
             k == [l EXCEPT !.head = Null, !.tail = Null, !.sizeL = 0]
             z == [k EXCEPT !.q = b]
  <2>1. ~Full(x) /\ r = Ran(Append(t, k), b)
    BY <1>2 DEF q_new
  <2>2. r.trace = Append(t, k) /\ r.ret = b
    BY <2>1 DEF Ran
  <2>3. /\ t \in Trace(GoodMemory) /\ l \in Memory /\ SameQueue(x, l)
        /\ l.live = x.live \cup {b} /\ b \in Blocks \ x.live
    BY <2>1, MallocsGood
  <2> HIDE DEF t, l, b
  <2>4. k \in Memory /\ k.q = Null /\ k.tail = Null /\ k.head = Null /\ k.live = x.live \cup {b}
    <3>1. l.q = Null
      BY <2>3 DEF SameQueue
    <3>2. l \in Memory /\ l.live = x.live \cup {b}
      BY <2>3
    <3>3. k \in Memory
      <4> DEFINE k1 == [l EXCEPT !.head = Null, !.tail = Null]
      <4>1. k1 \in Memory
        BY <3>2 DEF Memory
      <4>2. k = [k1 EXCEPT !.sizeL = 0]
        OBVIOUS
      <4> HIDE DEF k1, k
      <4> QED
        BY <4>1, <4>2 DEF Memory
    <3>4. k.q = l.q
      BY <3>2 DEF Memory
    <3>5. k.tail = Null /\ k.head = Null
      BY <3>2 DEF Memory
    <3>6. k.live = l.live
      BY <3>2 DEF Memory
    <3> QED
      BY <3>1, <3>2, <3>3, <3>4, <3>5, <3>6
  <2>5. k \in GoodMemory
    BY <2>4 DEF GoodMemory
  <2> HIDE DEF k
  <2>6. /\ z \in Memory /\ z.q = b /\ z.tail = Null /\ z.head = Null
        /\ z.live = x.live \cup {b}
    BY <2>3, <2>4 DEF Memory
  <2> HIDE DEF z
  <2>7. Queue(z, 0, <<>>)
    BY <2>6 DEF Queue, Path
  <2>8. b # Null
    BY <2>3, HeapAssumption
  <2>9. z \in GoodMemory
    BY <2>6, <2>7, <2>8 DEF GoodMemory, HasQueue
  <2>10. r.trace \in Trace(GoodMemory) /\ Last(r.trace) = k
    BY <2>2, <2>3, <2>5, TraceAdd
  <2> QED
    BY <2>2, <2>9, <2>10 DEF z
<1> QED
  BY <1>1, <1>2

\* A function of queue.c that walks the list finds its elements.
LEMMA ElementsFound ==
  ASSUME NEW x \in GoodMemory, NEW n, NEW es, Queue(x, n, es), x.q # Null
  PROVE  Elements(x) = es /\ Len(es) = n /\ n \in Nat /\ es \in [1..n -> Blocks]
<1>1. x.next \in Link
  BY DEF GoodMemory, Memory
<1> DEFINE next == x.next
           first == x.head
<1>2. Path(next, first, n, es) /\ next \in Link
  BY <1>1 DEF Queue
<1> HIDE DEF next, first
<1>3. Walk(next, first) = es
  BY <1>2, WalkIsPath
<1>4. n \in Nat /\ es \in [1..n -> Blocks]
  BY <1>2 DEF Path
<1>5. Len(es) = n
  BY <1>4
<1> QED
  BY <1>3, <1>4, <1>5 DEF Elements, next, first

\* The memories of q_free are typed; nothing uses the queue after it.
FreeTurn(t, x, e, cautious) ==
  LET u == t \o test_free(Last(t), x.value[e], cautious)
  IN  u \o test_free(Last(u), e, cautious)

\* test_free keeps the types, whatever is freed.
LEMMA FreeTyped ==
  ASSUME NEW t \in Trace(Memory), NEW b \in Blocks, NEW cautious
  PROVE  t \o test_free(Last(t), b, cautious) \in Trace(Memory)
<1> DEFINE l == Last(t)
           u == test_free(l, b, cautious)
           S == {x \in Memory : (SameQueue(l, x) /\ x.live = l.live) \/ Without(l, b, x)}
<1>1. l \in Memory
  BY TraceAt
<1> HIDE DEF l
<1>2. u \in Trace(S)
  BY <1>1, Frees
<1>3. S \subseteq Memory
  OBVIOUS
<1> HIDE DEF u, S
<1>4. u \in Trace(Memory)
  BY <1>2, <1>3, TraceSub
<1> QED
  BY <1>4, TraceJoin DEF u, l

\* The turns of the loop of q_free: f[i] is the run up to the i-th.
FreeTurns(f, x, n, es, cautious) ==
  /\ f[0] = <<x>>
  /\ \A i \in 1..n : f[i] = FreeTurn(f[i-1], x, es[i], cautious)

\* The run of q_free is that of its loop's turns and of the queue's block.
FreeRun(f, x, n, es, cautious, r) ==
  /\ f \in [0..n -> Trace(Memory)]
  /\ FreeTurns(f, x, n, es, cautious)
  /\ r = Ran(f[n] \o test_free(Last(f[n]), x.q, cautious), TRUE)

\* Every run of q_free that frees a queue is such a run.
LEMMA FreeLoop ==
  ASSUME NEW x \in GoodMemory, x.q # Null, NEW n, NEW es, Queue(x, n, es), NEW cautious,
         NEW r \in q_free(x, cautious)
  PROVE  \E f : FreeRun(f, x, n, es, cautious, r)
<1>0. x \in Memory
  BY DEF GoodMemory
<1>2. Elements(x) = es /\ Len(es) = n /\ n \in Nat /\ es \in [1..n -> Blocks]
  BY ElementsFound
<1> DEFINE D == Trace(Memory)
           base == <<x>>
           G == [p \in D \X Nat |-> IF p[2] \in 1..n THEN FreeTurn(p[1], x, es[p[2]], cautious) ELSE p[1]]
           ee == Elements(x)
           Rec(f) == f = [i \in 0..Len(ee) |-> IF i = 0 THEN <<x>> ELSE FreeTurn(f[i-1], x, ee[i], cautious)]
           freed == CHOOSE f : Rec(f)
           all == freed[Len(ee)]
<1>13. q_free(x, cautious) = {Ran(all \o test_free(Last(all), x.q, cautious), TRUE)}
  BY Zenon DEF q_free, FreeTurn
<1>21. ee = es /\ Len(ee) = n
  BY <1>2
<1> HIDE DEF ee
<1>3. \A i \in 1..n : es[i] \in Blocks /\ x.value[es[i]] \in Blocks
  BY <1>0, <1>2 DEF Queue, Memory
<1>4. ASSUME NEW t \in D, NEW i \in 1..n
      PROVE  FreeTurn(t, x, es[i], cautious) \in D
  <2> DEFINE u == t \o test_free(Last(t), x.value[es[i]], cautious)
  <2>1. u \in Trace(Memory)
    BY <1>3, FreeTyped
  <2> HIDE DEF u
  <2>2. u \o test_free(Last(u), es[i], cautious) \in Trace(Memory)
    BY <1>3, <2>1, FreeTyped
  <2> QED
    BY <2>2 DEF FreeTurn, u
<1>5. base \in D
  BY <1>0, TraceOf1
<1> HIDE DEF D, base
<1>6. G \in [D \X Nat -> D]
  BY <1>4
<1>7. \A t \in D, i \in 1..n : G[<<t, i>>] = FreeTurn(t, x, es[i], cautious)
  BY <1>2
<1> HIDE DEF G
<1>8. PICK f : Iteration(f, D, base, G, n)
  BY <1>2, <1>5, <1>6, Iterates, Zenon
<1>9. /\ f \in [0..n -> D] /\ f[0] = base
      /\ \A i \in 1..n : f[i] = G[<<f[i-1], i>>]
  BY <1>8 DEF Iteration
<1>10. Rec(f)
  <2>1. ASSUME NEW i \in 0..n
        PROVE  f[i] = IF i = 0 THEN <<x>> ELSE FreeTurn(f[i-1], x, es[i], cautious)
    <3>1. CASE i = 0
      BY <1>9, <3>1 DEF base
    <3>2. CASE i # 0
      <4>1. i \in 1..n /\ i - 1 \in 0..n
        BY <1>2, <3>2
      <4>2. f[i] = G[<<f[i-1], i>>] /\ f[i-1] \in D
        BY <1>9, <4>1
      <4> QED
        BY <1>7, <3>2, <4>1, <4>2
    <3> QED
      BY <3>1, <3>2
  <2> QED
    BY <1>9, <1>21, <2>1
<1>11. Rec(freed)
  BY <1>10
<1>20. r = Ran(freed[n] \o test_free(Last(freed[n]), x.q, cautious), TRUE)
  BY <1>13, <1>21
<1> HIDE DEF freed
<1>12. freed = [i \in 0..n |-> IF i = 0 THEN <<x>> ELSE FreeTurn(freed[i-1], x, es[i], cautious)]
  BY <1>11, <1>21
<1> HIDE DEF Rec
<1>22. FreeTurns(freed, x, n, es, cautious)
  <2>1. freed[0] = <<x>>
    BY <1>2, <1>12
  <2>2. ASSUME NEW i \in 1..n
        PROVE  freed[i] = FreeTurn(freed[i-1], x, es[i], cautious)
    <3>1. i \in 0..n /\ i # 0
      BY <1>2
    <3> QED
      BY <1>12, <3>1
  <2> QED
    BY <2>1, <2>2 DEF FreeTurns
<1> DEFINE T == {i \in Nat : i \in 0..n => freed[i] \in D}
<1>14. 0 \in T
  BY <1>5, <1>22 DEF FreeTurns, base
<1>15. ASSUME NEW i \in Nat, i \in T
       PROVE  i + 1 \in T
  <2> SUFFICES ASSUME i + 1 \in 0..n PROVE freed[i+1] \in D
    OBVIOUS
  <2>1. i \in 0..n /\ i + 1 \in 1..n /\ (i + 1) - 1 = i
    BY <1>2
  <2>2. freed[i] \in D
    BY <1>15, <2>1
  <2>3. freed[i+1] = FreeTurn(freed[i], x, es[i+1], cautious)
    BY <1>22, <2>1 DEF FreeTurns
  <2> QED
    BY <1>4, <2>1, <2>2, <2>3
<1> HIDE DEF T
<1>16. \A i \in Nat : i \in T
  BY <1>14, <1>15, AllNumbers
<1>17. \A i \in 0..n : freed[i] \in D
  BY <1>2, <1>16 DEF T
<1>18. freed \in [0..n -> D]
  BY <1>12, <1>17
<1> QED
  BY <1>18, <1>20, <1>22 DEF D, FreeRun

\* The memories that q_free leaves behind are typed.
LEMMA FreeGood ==
  ASSUME NEW x \in GoodMemory, NEW cautious, NEW r \in q_free(x, cautious)
  PROVE  r.trace \in Trace(Memory)
<1>0. x \in Memory
  BY DEF GoodMemory
<1>1. CASE x.q = Null
  <2>1. q_free(x, cautious) = {Ran(<<x>>, TRUE)}
    BY <1>1 DEF q_free
  <2>2. r.trace = <<x>>
    BY <2>1 DEF Ran
  <2> QED
    BY <1>0, <2>2, TraceOf1
<1>2. CASE x.q # Null
  <2>1. PICK n, es : Queue(x, n, es)
    BY <1>2 DEF GoodMemory, HasQueue
  <2>2. PICK f : FreeRun(f, x, n, es, cautious, r)
    BY <1>2, <2>1, FreeLoop
  <2>3. n \in 0..n /\ x.q \in Blocks
    BY <1>0, <2>1 DEF Queue, Path, Memory
  <2>4. f[n] \in Trace(Memory)
    BY <2>2, <2>3 DEF FreeRun
  <2>5. f[n] \o test_free(Last(f[n]), x.q, cautious) \in Trace(Memory)
    BY <2>3, <2>4, FreeTyped
  <2> QED
    BY <2>2, <2>5 DEF Ran, FreeRun
<1> QED
  BY <1>1, <1>2

-----------------------------------------------------------------------------
(* q_reverse turns one link after the other; until it moves head, the list *)
(* is its first element.                                                   *)
Turned(es, i) == IF i = 1 THEN Null ELSE es[i-1]

LinkTurned(t, es, i) == Append(t, [Last(t) EXCEPT !.next[es[i]] = Turned(es, i)])

\* y has the harness's list of x.
SameList(x, y) ==
  /\ y.allocated = x.allocated /\ y.allocated_count = x.allocated_count
  /\ y.bnext = x.bnext /\ y.bprev = x.bprev /\ y.error = x.error

\* The memory with the first i links turned.
HalfTurned(x, n, es, i, y) ==
  /\ y \in GoodMemory
  /\ SameList(x, y)
  /\ y.q = x.q /\ y.head = x.head /\ y.tail = x.head /\ y.sizeL = x.sizeL
  /\ y.value = x.value /\ y.live = x.live /\ y.text = x.text
  /\ \A j \in 1..n : y.next[es[j]] = IF j <= i THEN Turned(es, j) ELSE x.next[es[j]]

\* One turn of the loop of q_reverse.
LEMMA TurnKeeps ==
  ASSUME NEW x \in GoodMemory, NEW n, NEW es, Queue(x, n, es), x.q # Null,
         NEW i \in 1..n, NEW y, HalfTurned(x, n, es, i - 1, y)
  PROVE  HalfTurned(x, n, es, i, [y EXCEPT !.next[es[i]] = Turned(es, i)])
<1> DEFINE z == [y EXCEPT !.next[es[i]] = Turned(es, i)]
<1>1. /\ n \in Nat /\ i \in Nat /\ 1 \in 1..n /\ es \in [1..n -> Blocks] /\ x.head = es[1]
      /\ \A j, k \in 1..n : es[j] = es[k] => j = k
  BY DEF Queue, Path
<1>2. Turned(es, i) \in Blocks \cup {Null}
  BY <1>1 DEF Turned
<1>3. y \in Memory /\ y \in GoodMemory
  BY DEF HalfTurned, GoodMemory
<1>4. /\ z \in Memory /\ z.next = [y.next EXCEPT ![es[i]] = Turned(es, i)]
      /\ z.q = y.q /\ z.head = y.head /\ z.tail = y.tail /\ z.sizeL = y.sizeL
      /\ z.value = y.value /\ z.live = y.live /\ z.text = y.text /\ SameList(y, z)
  <2> DEFINE c == Turned(es, i)
             b == es[i]
             w == [y EXCEPT !.next[b] = c]
  <2>1. c \in Blocks \cup {Null} /\ b \in Blocks
    BY <1>1, <1>2
  <2>2. z = w
    OBVIOUS
  <2> HIDE DEF b, c, z
  <2>3. /\ w \in Memory /\ w.next = [y.next EXCEPT ![b] = c]
        /\ w.q = y.q /\ w.head = y.head /\ w.tail = y.tail /\ w.sizeL = y.sizeL
        /\ w.value = y.value /\ w.live = y.live /\ w.text = y.text /\ SameList(y, w)
    BY <1>3, <2>1 DEF Memory, Link, SameList
  <2> HIDE DEF w
  <2> QED
    BY <2>2, <2>3 DEF b, c
<1> HIDE DEF z
<1>5. ASSUME NEW j \in 1..n
      PROVE  z.next[es[j]] = IF j <= i THEN Turned(es, j) ELSE x.next[es[j]]
  <2>1. y.next \in Link /\ es[j] \in Blocks /\ es[i] \in Blocks
    BY <1>1, <1>3 DEF Memory
  <2>2. y.next[es[j]] = IF j <= i - 1 THEN Turned(es, j) ELSE x.next[es[j]]
    BY DEF HalfTurned
  <2>3. CASE j = i
    <3>1. z.next[es[i]] = Turned(es, i)
      BY <1>4, <2>1 DEF Link
    <3> QED
      BY <1>1, <2>3, <3>1
  <2>4. CASE j # i
    <3>1. es[j] # es[i]
      BY <1>1, <2>4
    <3>2. z.next[es[j]] = y.next[es[j]]
      BY <1>4, <2>1, <3>1 DEF Link
    <3>3. j <= i <=> j <= i - 1
      BY <1>1, <2>4
    <3> QED
      BY <2>2, <3>2, <3>3
  <2> QED
    BY <2>3, <2>4
<1>6. Queue(z, 1, <<es[1]>>)
  <2>1. z.next[es[1]] = Null
    BY <1>1, <1>5 DEF Turned
  <2>2. z.head = es[1] /\ z.tail = es[1] /\ z.q = x.q /\ z.live = x.live /\ z.value = x.value
    BY <1>1, <1>4 DEF HalfTurned
  <2>3. Path(z.next, z.head, 1, <<es[1]>>)
    BY <1>1, <2>1, <2>2 DEF Path
  <2>4. /\ es[1] \in x.live /\ x.value[es[1]] \in x.live /\ x.value[es[1]] # es[1]
        /\ es[1] # x.q /\ x.value[es[1]] # x.q /\ x.q \in x.live
    BY <1>1 DEF Queue
  <2> QED
    BY <2>2, <2>3, <2>4 DEF Queue
<1>7. z \in GoodMemory
  BY <1>4, <1>6 DEF GoodMemory, HasQueue, HalfTurned
<1>8. HalfTurned(x, n, es, i, z)
  BY <1>4, <1>5, <1>7 DEF HalfTurned, SameList
<1> QED
  BY <1>8 DEF z

Reversed(n, es) == [i \in 1..n |-> es[n + 1 - i]]

\* z has the blocks of x, with their strings, and the end where x begins.
SameStrings(x, z) ==
  /\ SameList(x, z) /\ z.q = x.q /\ z.live = x.live /\ z.sizeL = x.sizeL
  /\ z.tail = x.head /\ z.value = x.value /\ z.text = x.text

\* The end of q_reverse.
LEMMA ReverseEnds ==
  ASSUME NEW x \in GoodMemory, NEW n, NEW es, Queue(x, n, es), x.q # Null, n # 0,
         NEW y, HalfTurned(x, n, es, n, y)
  PROVE  LET z == [y EXCEPT !.head = es[n]]
         IN  z \in GoodMemory /\ Queue(z, n, Reversed(n, es)) /\ SameStrings(x, z)
<1> DEFINE z == [y EXCEPT !.head = es[n]]
           fs == Reversed(n, es)
<1>1. /\ n \in Nat /\ 1 \in 1..n /\ n \in 1..n /\ es \in [1..n -> Blocks] /\ x.head = es[1]
      /\ \A j, k \in 1..n : es[j] = es[k] => j = k
  BY DEF Queue, Path
<1>2. y \in Memory
  BY DEF HalfTurned, GoodMemory
<1>3. /\ z \in Memory /\ z.head = es[n] /\ z.next = y.next
      /\ z.q = x.q /\ z.tail = es[1] /\ z.value = x.value /\ z.live = x.live
      /\ SameStrings(x, z)
  <2> DEFINE b == es[n]
  <2>1. b \in Blocks
    BY <1>1
  <2> HIDE DEF b
  <2> QED
    BY <1>1, <1>2, <2>1 DEF HalfTurned, Memory, SameStrings, SameList
<1> HIDE DEF z
<1>4. \A i \in 1..n : n + 1 - i \in 1..n /\ fs[i] = es[n + 1 - i]
  BY <1>1 DEF Reversed
<1>5. fs \in [1..n -> Blocks]
  <2>1. \A i \in 1..n : es[n + 1 - i] \in Blocks
    BY <1>1, <1>4
  <2> QED
    BY <2>1 DEF Reversed
<1> HIDE DEF fs
<1>6. \A i, j \in 1..n : fs[i] = fs[j] => i = j
  <2> SUFFICES ASSUME NEW i \in 1..n, NEW j \in 1..n, fs[i] = fs[j]
               PROVE  i = j
    OBVIOUS
  <2>1. n + 1 - i = n + 1 - j
    BY <1>1, <1>4
  <2> QED
    BY <1>1, <2>1
<1>7. z.head = fs[1]
  BY <1>1, <1>3, <1>4
<1>8. ASSUME NEW i \in 1..n
      PROVE  z.next[fs[i]] = IF i = n THEN Null ELSE fs[i+1]
  <2> DEFINE j == n + 1 - i
  <2>1. j \in 1..n /\ fs[i] = es[j] /\ j <= n
    BY <1>1, <1>4
  <2>2. z.next[es[j]] = Turned(es, j)
    <3>1. \A k \in 1..n : y.next[es[k]] = IF k <= n THEN Turned(es, k) ELSE x.next[es[k]]
      BY DEF HalfTurned
    <3> HIDE DEF j
    <3> QED
      BY <1>3, <2>1, <3>1
  <2>3. CASE i = n
    BY <1>1, <2>1, <2>2, <2>3 DEF Turned
  <2>4. CASE i # n
    <3>1. i + 1 \in 1..n /\ n + 1 - (i + 1) = j - 1 /\ j # 1
      BY <1>1, <2>4
    <3>2. fs[i+1] = es[j-1]
      BY <1>4, <3>1
    <3> QED
      BY <2>1, <2>2, <2>4, <3>1, <3>2 DEF Turned
  <2> QED
    BY <2>3, <2>4
<1>9. Path(z.next, z.head, n, fs)
  BY <1>1, <1>5, <1>6, <1>7, <1>8 DEF Path
<1>10. \A i \in 1..n : fs[i] \in x.live /\ x.value[fs[i]] \in x.live /\ fs[i] # x.q /\ x.value[fs[i]] # x.q
  BY <1>4 DEF Queue
<1>11. \A i, j \in 1..n : x.value[fs[i]] # fs[j] /\ (x.value[fs[i]] = x.value[fs[j]] => i = j)
  <2> SUFFICES ASSUME NEW i \in 1..n, NEW j \in 1..n
               PROVE  x.value[fs[i]] # fs[j] /\ (x.value[fs[i]] = x.value[fs[j]] => i = j)
    OBVIOUS
  <2> DEFINE k == n + 1 - i
             l == n + 1 - j
  <2>1. k \in 1..n /\ l \in 1..n /\ fs[i] = es[k] /\ fs[j] = es[l] /\ (k = l => i = j)
    BY <1>1, <1>4
  <2> HIDE DEF k, l
  <2>2. x.value[es[k]] # es[l] /\ (x.value[es[k]] = x.value[es[l]] => k = l)
    BY <2>1 DEF Queue
  <2> QED
    BY <2>1, <2>2
<1>12. fs[n] = es[1] /\ x.q \in x.live
  <2>1. n + 1 - n = 1
    BY <1>1
  <2> QED
    BY <1>1, <1>4, <2>1 DEF Queue
<1>13. Queue(z, n, fs)
  BY <1>1, <1>3, <1>9, <1>10, <1>11, <1>12 DEF Queue
<1>14. z \in GoodMemory
  BY <1>3, <1>13 DEF GoodMemory, HasQueue
<1> QED
  BY <1>3, <1>13, <1>14 DEF z, fs

\* q_reverse, and an alarm in it, leaves a good memory.
LEMMA ReverseGood ==
  ASSUME NEW x \in GoodMemory, NEW r \in q_reverse(x)
  PROVE  /\ r.trace \in Trace(GoodMemory)
         /\ \A n, es : Queue(x, n, es) =>
              /\ Queue(Last(r.trace), n, Reversed(n, es))
              /\ IF n = 0 THEN Last(r.trace) = x ELSE SameStrings(x, Last(r.trace))
<1>0. x \in Memory
  BY DEF GoodMemory
<1>1. CASE x.q = Null \/ x.head = Null
  <2>1. r.trace = <<x>>
    <3>1. q_reverse(x) = {Ran(<<x>>, TRUE)}
      BY <1>1, Zenon DEF q_reverse
    <3> QED
      BY <3>1 DEF Ran
  <2>2. ASSUME NEW n, NEW es, Queue(x, n, es)
        PROVE  n = 0 /\ Queue(x, n, Reversed(n, es))
    <3>1. n = 0
      <4>1. n # 0 => x.head = es[1] /\ es[1] \in Blocks
        BY <2>2 DEF Queue, Path
      <4>2. x.q # Null
        BY <1>0, <2>2, HeapAssumption DEF Queue, Memory
      <4> QED
        BY <1>1, <4>1, <4>2, HeapAssumption
    <3>2. Path(x.next, x.head, 0, Reversed(0, es))
      BY <2>2, <3>1 DEF Queue, Path, Reversed
    <3> QED
      BY <2>2, <3>1, <3>2 DEF Queue
  <2>3. r.trace \in Trace(GoodMemory) /\ Last(r.trace) = x
    BY <2>1, TraceOf1
  <2> QED
    BY <2>2, <2>3
<1>2. CASE x.q # Null /\ x.head # Null
  <2> SUFFICES ASSUME NEW n, NEW es, Queue(x, n, es)
               PROVE  /\ r.trace \in Trace(GoodMemory)
                      /\ Queue(Last(r.trace), n, Reversed(n, es))
                      /\ IF n = 0 THEN Last(r.trace) = x ELSE SameStrings(x, Last(r.trace))
    BY <1>2 DEF GoodMemory, HasQueue
  <2>2. Elements(x) = es /\ Len(es) = n /\ n \in Nat /\ es \in [1..n -> Blocks]
    BY <1>2, ElementsFound
  <2>3. n # 0 /\ x.head = es[1] /\ 1 \in 1..n /\ x.head \in Blocks
    BY <1>2, <2>2 DEF Queue, Path
  <2> DEFINE D == Trace(Memory)
             first == [x EXCEPT !.tail = x.head]
             base == <<x, first>>
             G == [p \in D \X Nat |-> IF p[2] \in 1..n THEN LinkTurned(p[1], es, p[2]) ELSE p[1]]
             ee == Elements(x)
             Rec(f) == f = [i \in 0..Len(ee) |-> IF i = 0 THEN base ELSE LinkTurned(f[i-1], ee, i)]
             turned == CHOOSE f : Rec(f)
             all == turned[Len(ee)]
  <2>4. q_reverse(x) = {Ran(Append(all, [Last(all) EXCEPT !.head = ee[Len(ee)]]), TRUE)}
    BY <1>2, Zenon DEF q_reverse, LinkTurned, Turned
  <2>5. ee = es /\ Len(ee) = n
    BY <2>2
  <2> HIDE DEF ee
  <2>6. first \in Memory /\ HalfTurned(x, n, es, 0, first)
    <3>1. /\ first \in Memory /\ first.q = x.q /\ first.head = x.head /\ first.tail = x.head
          /\ first.sizeL = x.sizeL /\ first.value = x.value /\ first.live = x.live
          /\ first.text = x.text /\ first.next = x.next /\ SameList(x, first)
      BY <1>0, <2>3 DEF Memory, SameList
    <3> HIDE DEF first
    <3>2. Queue(first, n, es)
      BY <2>3, <3>1, TailMoved
    <3>3. first \in GoodMemory
      BY <1>2, <3>1, <3>2 DEF GoodMemory, HasQueue
    <3>4. \A j \in 1..n : ~(j <= 0)
      BY <2>2
    <3> QED
      BY <3>1, <3>3, <3>4 DEF HalfTurned
  <2> HIDE DEF first
  <2>7. base \in D /\ base \in Trace(GoodMemory) /\ Last(base) = first
    <3>1. first \in GoodMemory
      BY <2>6 DEF HalfTurned
    <3> QED
      BY <1>0, <2>6, <3>1 DEF Trace, Last
  <2> HIDE DEF base
  <2>8. ASSUME NEW t \in D, NEW i \in 1..n
        PROVE  LinkTurned(t, es, i) \in D
    <3> DEFINE l == Last(t)
               c == Turned(es, i)
               b == es[i]
               z == [l EXCEPT !.next[b] = c]
    <3>1. l \in Memory
      BY TraceAt
    <3>2. c \in Blocks \cup {Null} /\ b \in Blocks
      BY <2>2 DEF Turned
    <3> HIDE DEF l, b, c
    <3>3. z \in Memory
      BY <3>1, <3>2 DEF Memory, Link
    <3>4. LinkTurned(t, es, i) = Append(t, z)
      BY DEF LinkTurned, l, b, c
    <3> HIDE DEF z
    <3> QED
      BY <3>3, <3>4, TraceAdd
  <2> HIDE DEF D
  <2>9. G \in [D \X Nat -> D]
    BY <2>8
  <2>10. \A t \in D, i \in 1..n : G[<<t, i>>] = LinkTurned(t, es, i)
    BY <2>2
  <2> HIDE DEF G
  <2>11. PICK f : Iteration(f, D, base, G, n)
    BY <2>2, <2>7, <2>9, Iterates, Zenon
  <2>12. /\ f \in [0..n -> D] /\ f[0] = base
         /\ \A i \in 1..n : f[i] = G[<<f[i-1], i>>]
    BY <2>11 DEF Iteration
  <2>13. Rec(f)
    <3>1. ASSUME NEW i \in 0..n
          PROVE  f[i] = IF i = 0 THEN base ELSE LinkTurned(f[i-1], es, i)
      <4>1. CASE i = 0
        BY <2>12, <4>1
      <4>2. CASE i # 0
        <5>1. i \in 1..n /\ i - 1 \in 0..n
          BY <2>2, <4>2
        <5>2. f[i] = G[<<f[i-1], i>>] /\ f[i-1] \in D
          BY <2>12, <5>1
        <5> QED
          BY <2>10, <4>2, <5>1, <5>2
      <4> QED
        BY <4>1, <4>2
    <3> QED
      BY <2>5, <2>12, <3>1
  <2>14. Rec(turned)
    BY <2>13
  <2>15. turned = [i \in 0..n |-> IF i = 0 THEN base ELSE LinkTurned(turned[i-1], es, i)]
    BY <2>5, <2>14
  <2> HIDE DEF turned, Rec
  <2> DEFINE T == {i \in Nat : i \in 0..n => turned[i] \in Trace(GoodMemory)
                                              /\ HalfTurned(x, n, es, i, Last(turned[i]))}
  <2>16. 0 \in T
    <3>1. turned[0] = base
      BY <2>2, <2>15
    <3> QED
      BY <2>6, <2>7, <3>1
  <2>17. ASSUME NEW i \in Nat, i \in T
         PROVE  i + 1 \in T
    <3> SUFFICES ASSUME i + 1 \in 0..n
                 PROVE  /\ turned[i+1] \in Trace(GoodMemory)
                        /\ HalfTurned(x, n, es, i + 1, Last(turned[i+1]))
      OBVIOUS
    <3>1. i \in 0..n /\ i + 1 \in 1..n /\ i + 1 # 0 /\ (i + 1) - 1 = i
      BY <2>2
    <3> DEFINE t == turned[i]
               l == Last(t)
               z == [l EXCEPT !.next[es[i+1]] = Turned(es, i + 1)]
    <3>2. t \in Trace(GoodMemory) /\ HalfTurned(x, n, es, i, l)
      BY <2>17, <3>1
    <3>3. turned[i+1] = LinkTurned(t, es, i + 1)
      BY <2>15, <3>1
    <3> HIDE DEF t
    <3>4. turned[i+1] = Append(t, z)
      BY <3>3 DEF LinkTurned
    <3> HIDE DEF l
    <3>5. HalfTurned(x, n, es, i + 1, z)
      BY <1>2, <3>1, <3>2, TurnKeeps
    <3> HIDE DEF z
    <3>6. z \in GoodMemory
      BY <3>5 DEF HalfTurned
    <3> QED
      BY <3>2, <3>4, <3>5, <3>6, TraceAdd
  <2> HIDE DEF T
  <2>18. n \in T
    BY <2>2, <2>16, <2>17, AllNumbers
  <2>19. all \in Trace(GoodMemory) /\ HalfTurned(x, n, es, n, Last(all))
    BY <2>2, <2>5, <2>18 DEF T
  <2> DEFINE y == Last(all)
             z == [y EXCEPT !.head = es[n]]
  <2>20. r.trace = Append(all, z)
    <3>1. r = Ran(Append(all, z), TRUE)
      BY <2>4, <2>5
    <3> HIDE DEF all, z
    <3> QED
      BY <3>1 DEF Ran
  <2> HIDE DEF all
  <2>21. HalfTurned(x, n, es, n, y)
    BY <2>19
  <2> HIDE DEF y
  <2>22. z \in GoodMemory /\ Queue(z, n, Reversed(n, es)) /\ SameStrings(x, z)
    BY <1>2, <2>3, <2>21, ReverseEnds
  <2> HIDE DEF z
  <2> QED
    BY <2>3, <2>19, <2>20, <2>22, TraceAdd
<1> QED
  BY <1>1, <1>2

\* An insertion, and an alarm in it, leaves a good memory.
LEMMA InsertGood ==
  ASSUME NEW x \in GoodMemory, NEW s \in Strings, NEW r \in q_insert_head(x, s) \cup q_insert_tail(x, s)
  PROVE  r.trace \in Trace(GoodMemory)
<1>1. CASE r = Ran(<<x>>, FALSE)
  BY <1>1, TraceOf1 DEF Ran
<1>2. CASE x.q # Null /\ r \in Refused(x)
  BY <1>2, RefusedGood
<1>3. CASE x.q # Null /\ \E a \in Allocated(x, s) : r = Ran(head_inserted(a.trace, a.ret), TRUE)
  <2>1. PICK a \in Allocated(x, s) : r = Ran(head_inserted(a.trace, a.ret), TRUE)
    BY <1>3
  <2>2. r.trace = head_inserted(a.trace, a.ret)
    BY <2>1 DEF Ran
  <2> QED
    BY <1>3, <2>2, HeadInserted
<1>4. CASE x.q # Null /\ \E a \in Allocated(x, s) : r = Ran(tail_inserted(a.trace, a.ret), TRUE)
  <2>1. PICK a \in Allocated(x, s) : r = Ran(tail_inserted(a.trace, a.ret), TRUE)
    BY <1>4
  <2>2. r.trace = tail_inserted(a.trace, a.ret)
    BY <2>1 DEF Ran
  <2> QED
    BY <1>4, <2>2, TailInserted
<1> QED
  BY <1>1, <1>2, <1>3, <1>4 DEF q_insert_head, q_insert_tail

-----------------------------------------------------------------------------
(* What an alarm may leave at any time: outside of the commands that give  *)
(* the queue up there is always a good one, and what an alarm left is      *)
(* known to be wrong until the command is over.                            *)
Ops == {"none", "new", "renew", "free", "reverse", "size", "remove_head", "insert_head",
        "insert_tail", "quit", "exited", "aborted"}

Running ==
  [op : Ops, s : Strings \cup {Null}, reps : Nat, ok : BOOLEAN, raised : BOOLEAN,
   rval : BOOLEAN, got : Strings \cup {Null}, cnt : Int]

TypeInv ==
  /\ m \in Memory
  /\ running \in Running
  /\ verbose \in BOOLEAN
  /\ running.op \in {"insert_head", "insert_tail"} => running.s \in Strings

QueueInv ==
  /\ ~(running.reps = 0 /\ running.op \in {"free", "renew", "quit", "exited"}) => m \in GoodMemory
  /\ running.reps > 0 => running.op \notin {"none", "exited", "aborted"}
  /\ (running.reps > 0 /\ running.op = "new") => m.q = Null

AlarmInv ==
  running.raised => \/ (m.error /\ running.reps = 0)
                    \/ (running.op = "new" /\ ~running.ok)

IInv == TypeInv /\ QueueInv /\ AlarmInv

\* Nothing but the error differs.
LEMMA ErrorGood ==
  ASSUME NEW x \in Memory, NEW e \in BOOLEAN
  PROVE  /\ [x EXCEPT !.error = e] \in Memory /\ [x EXCEPT !.error = e].error = e
         /\ [x EXCEPT !.error = e].q = x.q
         /\ x \in GoodMemory => [x EXCEPT !.error = e] \in GoodMemory
<1> DEFINE y == [x EXCEPT !.error = e]
<1>1. y \in Memory /\ SameQueue(x, y) /\ y.live = x.live /\ y.error = e
  BY DEF Memory, SameQueue
<1> HIDE DEF y
<1>2. x \in GoodMemory => y \in GoodMemory
  BY <1>1, SameGood
<1> QED
  BY <1>1, <1>2 DEF y, SameQueue

\* A memory without a queue is good.
LEMMA NoQueueGood ==
  ASSUME NEW x \in Memory
  PROVE  /\ NoQueue(x) \in GoodMemory /\ NoQueue(x).error = x.error /\ NoQueue(x).q = Null
<1> DEFINE y == [x EXCEPT !.q = Null, !.head = Null, !.tail = Null]
           z == [y EXCEPT !.sizeL = 0]
<1>1. y \in Memory /\ y.q = Null /\ y.tail = Null /\ y.error = x.error
  BY DEF Memory
<1>2. NoQueue(x) = z
  BY DEF NoQueue
<1> HIDE DEF y
<1>3. z \in Memory /\ z.q = Null /\ z.tail = Null /\ z.error = x.error
  BY <1>1 DEF Memory
<1> HIDE DEF z
<1> QED
  BY <1>2, <1>3 DEF GoodMemory

\* The program begins with a good memory.
LEMMA EmptyGood == EmptyMemory \in GoodMemory
<1> DEFINE y == EmptyMemory
<1>1. y.live = {} /\ y.q = Null /\ y.tail = Null /\ NoBlock \in Link
  BY DEF EmptyMemory, NoBlock, Link
<1>2. NoBlock \in [Blocks -> Strings \cup {Null}]
  BY DEF NoBlock
<1>3. EmptyMemory \in Memory
  BY <1>1, <1>2 DEF EmptyMemory, Memory
<1> QED
  BY <1>1, <1>3 DEF GoodMemory

\* The invariant holds at the beginning.
LEMMA Typing == Init => IInv
<1> SUFFICES ASSUME Init PROVE IInv
  OBVIOUS
<1>1. m \in GoodMemory /\ m \in Memory
  BY EmptyGood DEF Init, queue_init, GoodMemory
<1>2. running \in Running /\ running.op = "none" /\ running.reps = 0 /\ running.raised = FALSE
  BY DEF Init, queue_init, Idle, Running, Ops
<1> QED
  BY <1>1, <1>2 DEF Init, queue_init, IInv, TypeInv, QueueInv, AlarmInv

\* A command that begins.
LEMMA CommandStep == IInv /\ Command => IInv'
<1> SUFFICES ASSUME IInv, Command PROVE IInv'
  OBVIOUS
<1>1. ASSUME NEW op \in Ops \ {"none", "exited", "aborted", "quit"}, NEW s \in Strings \cup {Null},
             NEW reps \in Nat, reps > 0, Begin(op, s, reps),
             op \in {"insert_head", "insert_tail"} => s \in Strings,
             op = "new" => m.q = Null
      PROVE  IInv'
  <2>1. m \in Memory /\ m \in GoodMemory
    BY <1>1 DEF Begin, Idle, IInv, TypeInv, QueueInv
  <2>2. m' \in Memory /\ m'.q = m.q /\ m' \in GoodMemory
    BY <1>1, <2>1, ErrorGood DEF Begin
  <2>3. /\ running' \in Running /\ running'.op = op /\ running'.reps = reps /\ running'.s = s
        /\ running'.raised = FALSE
    <3>1. Idle \in Running /\ Idle.raised = FALSE
      BY DEF Idle, Running, Ops
    <3>2. running' = [Idle EXCEPT !.op = op, !.s = s, !.reps = reps]
      BY <1>1 DEF Begin
    <3> QED
      BY <3>1, <3>2 DEF Running
  <2>4. verbose' \in BOOLEAN
    BY <1>1 DEF Begin, IInv, TypeInv
  <2> QED
    BY <1>1, <2>2, <2>3, <2>4 DEF IInv, TypeInv, QueueInv, AlarmInv
<1>2. CASE \E op \in {IF m.q = Null THEN "new" ELSE "renew", "free", "reverse"} : Begin(op, Null, 1)
  <2>1. PICK op \in {IF m.q = Null THEN "new" ELSE "renew", "free", "reverse"} : Begin(op, Null, 1)
    BY <1>2
  <2>2. op \in Ops \ {"none", "exited", "aborted", "quit"} /\ op \notin {"insert_head", "insert_tail"}
        /\ (op = "new" => m.q = Null)
    BY <2>1 DEF Ops
  <2> QED
    BY <1>1, <2>1, <2>2
<1>3. CASE \E reps \in 1..MaxReps : Begin("size", Null, reps)
  <2>1. PICK reps \in 1..MaxReps : Begin("size", Null, reps)
    BY <1>3
  <2> QED
    BY <1>1, <2>1 DEF Ops
<1>4. CASE \E check \in Strings \cup {Null} : Begin("remove_head", check, 1)
  <2>1. PICK check \in Strings \cup {Null} : Begin("remove_head", check, 1)
    BY <1>4
  <2> QED
    BY <1>1, <2>1 DEF Ops
<1>5. CASE \E op \in {"insert_head", "insert_tail"}, s \in Strings, reps \in 1..MaxReps : Begin(op, s, reps)
  <2>1. PICK op \in {"insert_head", "insert_tail"}, s \in Strings, reps \in 1..MaxReps : Begin(op, s, reps)
    BY <1>5
  <2>2. op \in Ops \ {"none", "exited", "aborted", "quit"} /\ op # "new"
    BY DEF Ops
  <2> QED
    BY <1>1, <2>1, <2>2
<1> QED
  BY <1>2, <1>3, <1>4, <1>5 DEF Command

\* The memories that a risky call goes through.
LEMMA RunsGood ==
  ASSUME IInv, Risky, NEW r \in Runs
  PROVE  /\ r.trace \in Trace(Memory)
         /\ running.op \notin {"free", "renew", "quit"} => r.trace \in Trace(GoodMemory)
         /\ running.op = "new" => [Last(r.trace) EXCEPT !.q = r.ret] \in GoodMemory
<1>0. running.reps > 0 /\ m \in GoodMemory /\ running.op \in Ops \ {"none", "exited", "aborted"}
      /\ (running.op = "new" => m.q = Null)
  BY DEF IInv, TypeInv, QueueInv, Risky, Running
<1>1. GoodMemory \subseteq Memory
  BY DEF GoodMemory
<1>2. r.trace \in Trace(GoodMemory) => r.trace \in Trace(Memory)
  BY <1>1, TraceSub
<1>3. CASE running.op \in {"free", "renew", "quit"}
  <2>1. r \in q_free(m, Cautious)
    BY <1>3 DEF Runs
  <2> QED
    BY <1>0, <1>3, <2>1, FreeGood
<1>4. CASE running.op = "new"
  <2>1. r \in q_new(m)
    BY <1>4 DEF Runs
  <2>2. /\ r.trace \in Trace(GoodMemory)
        /\ [Last(r.trace) EXCEPT !.q = r.ret] \in GoodMemory
    BY <1>0, <1>4, <2>1, NewGood
  <2> QED
    BY <1>2, <2>2
<1>5. CASE running.op \in {"insert_head", "insert_tail"}
  <2>1. r \in q_insert_head(m, running.s) \cup q_insert_tail(m, running.s)
    BY <1>5 DEF Runs
  <2>2. running.s \in Strings
    BY <1>5 DEF IInv, TypeInv
  <2>3. r.trace \in Trace(GoodMemory)
    BY <1>0, <2>1, <2>2, InsertGood
  <2> QED
    BY <1>2, <1>5, <2>3
<1>6. CASE running.op = "remove_head"
  <2>1. r \in q_remove_head(m)
    BY <1>6 DEF Runs
  <2>2. r.trace \in Trace(GoodMemory)
    BY <1>0, <2>1, RemoveGood
  <2> QED
    BY <1>2, <1>6, <2>2
<1>7. CASE running.op = "reverse"
  <2>1. r \in q_reverse(m)
    BY <1>7 DEF Runs
  <2>2. r.trace \in Trace(GoodMemory)
    BY <1>0, <2>1, ReverseGood
  <2> QED
    BY <1>2, <1>7, <2>2
<1>8. CASE running.op = "size"
  <2>1. r \in {Ran(<<m>>, q_size(m))}
    BY <1>8 DEF Runs
  <2>2. r.trace = <<m>>
    BY <2>1 DEF Ran
  <2>3. r.trace \in Trace(GoodMemory)
    BY <1>0, <2>2, TraceOf1
  <2> QED
    BY <1>2, <1>8, <2>3
<1> QED
  BY <1>0, <1>3, <1>4, <1>5, <1>6, <1>7, <1>8 DEF Ops

\* An alarm keeps the invariant.
LEMMA AlarmStep == IInv /\ Alarm => IInv'
<1> SUFFICES ASSUME IInv, Alarm PROVE IInv'
  OBVIOUS
<1>1. PICK r \in Runs : \E i \in DOMAIN r.trace : m' = [r.trace[i] EXCEPT !.error = TRUE]
  BY DEF Alarm
<1>2. PICK i \in DOMAIN r.trace : m' = [r.trace[i] EXCEPT !.error = TRUE]
  BY <1>1
<1>3. /\ r.trace \in Trace(Memory)
      /\ running.op \notin {"free", "renew", "quit"} => r.trace \in Trace(GoodMemory)
  BY RunsGood DEF Alarm
<1> DEFINE x == r.trace[i]
<1>4. x \in Memory /\ (running.op \notin {"free", "renew", "quit"} => x \in GoodMemory)
  BY <1>2, <1>3, TraceAt
<1> HIDE DEF x
<1>5. m' = [x EXCEPT !.error = TRUE]
  BY <1>2 DEF x
<1>6. /\ m' \in Memory /\ m'.error = TRUE
      /\ running.op \notin {"free", "renew", "quit"} => m' \in GoodMemory
  BY <1>4, <1>5, ErrorGood
<1>7. /\ running' \in Running /\ running'.op = running.op /\ running'.s = running.s /\ running'.reps = 0
  BY DEF Alarm, IInv, TypeInv, Running
<1>8. verbose' \in BOOLEAN
  BY DEF Alarm, IInv, TypeInv
<1> QED
  BY <1>6, <1>7, <1>8 DEF IInv, TypeInv, QueueInv, AlarmInv

\* Between commands.
LEMMA IdleIsRunning == Idle \in Running /\ Idle.op = "none" /\ Idle.reps = 0 /\ Idle.raised = FALSE
BY DEF Idle, Running, Ops

\* So does the end of a program without memory.
LEMMA AbortStep == IInv /\ OutOfMemory => IInv'
<1> SUFFICES ASSUME IInv, OutOfMemory PROVE IInv'
  OBVIOUS
<1>1. /\ running' = [Idle EXCEPT !.op = "aborted"] /\ m' = m /\ verbose' = verbose
      /\ running.op \in {"new", "insert_head", "insert_tail"}
  BY DEF OutOfMemory
<1>2. running' \in Running /\ running'.op = "aborted" /\ running'.reps = 0 /\ running'.raised = FALSE
  BY <1>1, IdleIsRunning DEF Running, Ops
<1> QED
  BY <1>1, <1>2 DEF IInv, TypeInv, QueueInv, AlarmInv

\* An insertion keeps it.
LEMMA InsertStep == IInv /\ Insert => IInv'
<1> SUFFICES ASSUME IInv, Insert PROVE IInv'
  OBVIOUS
<1>0. Risky /\ running.op \in {"insert_head", "insert_tail"}
  BY DEF Insert
<1>1. PICK r \in Runs :
        LET after == Last(r.trace)
            allowed == r.ret \/ fail_count + 1 < fail_limit
            ok == allowed /\ ~after.error
        IN  /\ m' = [after EXCEPT !.error = @ /\ ~allowed]
            /\ running' = [running EXCEPT !.ok = ok, !.reps = IF ok THEN @ - 1 ELSE 0]
  BY DEF Insert
<1> DEFINE after == Last(r.trace)
           allowed == r.ret \/ fail_count + 1 < fail_limit
           ok == allowed /\ ~after.error
           err == after.error /\ ~allowed
           left == IF ok THEN running.reps - 1 ELSE 0
<1>2. after \in GoodMemory
  BY <1>0, RunsGood, TraceAt
<1>3. after \in Memory
  BY <1>2 DEF GoodMemory
<1>4. /\ m' = [after EXCEPT !.error = err]
      /\ running' = [running EXCEPT !.ok = ok, !.reps = left]
  BY <1>1
<1>5. err \in BOOLEAN /\ ok \in BOOLEAN
  OBVIOUS
<1>10. left \in Nat
  BY <1>0 DEF IInv, TypeInv, Running, Risky
<1> HIDE DEF after, err, ok, left
<1>6. m' \in Memory /\ m' \in GoodMemory
  BY <1>2, <1>3, <1>4, <1>5, ErrorGood
<1>7. /\ running \in Running /\ running.reps > 0
      /\ running.s \in Strings /\ running.raised = FALSE
  BY <1>0 DEF IInv, TypeInv, AlarmInv, Risky, Running
<1>8. /\ running' \in Running /\ running'.op = running.op /\ running'.s = running.s
      /\ running'.raised = FALSE
  BY <1>4, <1>5, <1>7, <1>10 DEF Running
<1>9. verbose' \in BOOLEAN
  BY DEF Insert, IInv, TypeInv
<1> QED
  BY <1>0, <1>6, <1>7, <1>8, <1>9 DEF IInv, TypeInv, QueueInv, AlarmInv

\* A call of q_size keeps it.
LEMMA SizeStep == IInv /\ Size => IInv'
<1> SUFFICES ASSUME IInv, Size PROVE IInv'
  OBVIOUS
<1>1. PICK r \in Runs : running' = [running EXCEPT !.cnt = r.ret, !.reps = @ - 1]
  BY DEF Size
<1>2. r.ret \in Int
  <2>1. r = Ran(<<m>>, q_size(m))
    BY DEF Size, Runs
  <2>2. q_size(m) \in Int
    BY DEF q_size, IInv, TypeInv, Memory
  <2> QED
    BY <2>1, <2>2 DEF Ran
<1>3. running \in Running /\ running.reps - 1 \in Nat
  BY DEF IInv, TypeInv, Running, Size, Risky
<1>4. /\ running' \in Running /\ running'.op = running.op /\ running'.s = running.s
      /\ running'.raised = running.raised /\ running'.ok = running.ok
  <2> DEFINE c == r.ret
             left == running.reps - 1
  <2>1. running' = [running EXCEPT !.cnt = c, !.reps = left] /\ c \in Int /\ left \in Nat
    BY <1>1, <1>2, <1>3
  <2> HIDE DEF c, left
  <2> QED
    BY <1>3, <2>1 DEF Running
<1> QED
  BY <1>4 DEF Size, Risky, IInv, TypeInv, QueueInv, AlarmInv

\* q_remove_head copies a string out of the first element.
LEMMA RemovedText ==
  ASSUME NEW x \in GoodMemory, NEW r \in q_remove_head(x), r.ret
  PROVE  x.text[x.value[x.head]] \in Strings \cup {Null}
<1>0. x \in Memory
  BY DEF GoodMemory
<1>1. x.q # Null /\ x.head # Null
  <2> SUFFICES ASSUME ~(x.q # Null /\ x.head # Null) PROVE FALSE
    OBVIOUS
  <2>1. q_remove_head(x) = {Ran(<<x>>, FALSE)}
    BY Zenon DEF q_remove_head
  <2> QED
    BY <2>1 DEF Ran
<1>2. PICK n, es : Queue(x, n, es)
  BY <1>1 DEF GoodMemory, HasQueue
<1>3. 1 \in 1..n /\ x.head = es[1]
  BY <1>1, <1>2 DEF Queue, Path
<1>4. x.value[x.head] \in Blocks
  BY <1>0, <1>2, <1>3 DEF Queue, Memory
<1> QED
  BY <1>0, <1>4 DEF Memory

\* The other calls keep it.
LEMMA CallStep == IInv /\ Call => IInv'
<1> SUFFICES ASSUME IInv, Call PROVE IInv'
  OBVIOUS
<1>0. Risky /\ running.op \notin {"insert_head", "insert_tail", "size"}
  BY DEF Call
<1>1. PICK r \in Runs :
       /\ m' = IF running.op = "new" THEN [Last(r.trace) EXCEPT !.q = r.ret] ELSE Last(r.trace)
       /\ running' = [running EXCEPT !.reps = 0, !.rval = running.op \in {"remove_head"} /\ r.ret,
                        !.got = IF running.op = "remove_head" /\ r.ret
                                THEN m.text[m.value[m.head]] ELSE Null]
  BY DEF Call
<1> DEFINE after == Last(r.trace)
           rval == running.op \in {"remove_head"} /\ r.ret
           got == IF running.op = "remove_head" /\ r.ret THEN m.text[m.value[m.head]] ELSE Null
<1>2. /\ after \in Memory
      /\ running.op \notin {"free", "renew", "quit"} => after \in GoodMemory
      /\ running.op = "new" => [after EXCEPT !.q = r.ret] \in GoodMemory
  BY <1>0, RunsGood, TraceAt
<1>3. got \in Strings \cup {Null}
  <2>1. CASE running.op = "remove_head" /\ r.ret
    <3>1. r \in q_remove_head(m)
      BY <2>1 DEF Runs
    <3>2. m \in GoodMemory
      BY <1>0, <2>1 DEF IInv, QueueInv
    <3> QED
      BY <2>1, <3>1, <3>2, RemovedText
  <2>2. CASE ~(running.op = "remove_head" /\ r.ret)
    BY <2>2
  <2> QED
    BY <2>1, <2>2
<1>4. rval \in BOOLEAN
  OBVIOUS
<1>5. running' = [running EXCEPT !.reps = 0, !.rval = rval, !.got = got]
  BY <1>1
<1>6. m' = IF running.op = "new" THEN [after EXCEPT !.q = r.ret] ELSE after
  BY <1>1
<1> HIDE DEF after, rval, got
<1>7. m' \in Memory /\ (running.op \notin {"free", "renew", "quit"} => m' \in GoodMemory)
  BY <1>2, <1>6 DEF GoodMemory
<1>8. running \in Running
  BY DEF IInv, TypeInv
<1>9. /\ running' \in Running /\ running'.op = running.op /\ running'.s = running.s
      /\ running'.reps = 0 /\ running'.raised = running.raised /\ running'.ok = running.ok
  BY <1>3, <1>4, <1>5, <1>8 DEF Running
<1>10. verbose' \in BOOLEAN
  BY DEF Call, IInv, TypeInv
<1> QED
  BY <1>0, <1>7, <1>9, <1>10 DEF Risky, IInv, TypeInv, QueueInv, AlarmInv

-----------------------------------------------------------------------------
(* The end of a command. *)
\* What show_queue may leave: the memory with or without its error, or with the
\* error of an alarm.
Shown(x, shown) ==
  \/ shown.m = x /\ shown.alarms = alarms
  \/ shown.m = [x EXCEPT !.error = FALSE] /\ shown.alarms = alarms
  \/ shown.m = [x EXCEPT !.error = TRUE] /\ shown.alarms = alarms + 1

\* show_queue leaves one of these; if it shows nothing, the memory it was given.
LEMMA ShowsAny ==
  ASSUME NEW shows, NEW x, NEW count, NEW shown \in show_queue(shows, x, count)
  PROVE  /\ Shown(x, shown)
         /\ ~shows => shown.m = x
         /\ ~Above(count, 0) => shown.m = x \/ shown.m = [x EXCEPT !.error = TRUE]
<1> DEFINE tries == shows /\ x.q # Null
           walks == tries /\ x.head # Null /\ Above(count, 0)
           whole == count < 0 \/ Len(Elements(x)) <= count
           said == whole /\ ~(walks /\ x.error)
           over == [m |-> IF walks THEN [x EXCEPT !.error = FALSE] ELSE x, alarms |-> alarms, ok |-> said]
           S == IF tries /\ alarms < MaxAlarms THEN {whole, Elements(x) = <<>>} ELSE {}
           left(ok) == [m |-> [x EXCEPT !.error = TRUE], alarms |-> alarms + 1, ok |-> ok]
<1>1. show_queue(shows, x, count) = {over} \cup {left(ok) : ok \in S}
  BY DEF show_queue
<1>2. ~shows => S = {}
  OBVIOUS
<1>3. /\ over.m = (IF walks THEN [x EXCEPT !.error = FALSE] ELSE x) /\ over.alarms = alarms
      /\ \A ok : left(ok).m = [x EXCEPT !.error = TRUE] /\ left(ok).alarms = alarms + 1
  OBVIOUS
<1>4. (~shows => ~walks) /\ (~Above(count, 0) => ~walks)
  OBVIOUS
<1> HIDE DEF over, left, S, walks
<1>5. shown = over \/ \E ok \in S : shown = left(ok)
  BY <1>1
<1> QED
  BY <1>2, <1>3, <1>4, <1>5, Zenon DEF Shown

\* The parts of this.
LEMMA Shows ==
  ASSUME NEW shows, NEW x, NEW count, NEW shown \in show_queue(shows, x, count)
  PROVE  Shown(x, shown)
BY ShowsAny

\* At low verbosity nothing is shown.
LEMMA ShowsNothing ==
  ASSUME NEW x, NEW count, NEW shown \in show_queue(FALSE, x, count)
  PROVE  shown.m = x
BY ShowsAny

\* Nothing is shown of a queue thought to be empty.
LEMMA ShowsEmpty ==
  ASSUME NEW shows, NEW x, NEW count, NEW shown \in show_queue(shows, x, count)
  PROVE  ~Above(count, 0) => shown.m = x \/ shown.m = [x EXCEPT !.error = TRUE]
BY ShowsAny

\* show_queue changes at most the error.
LEMMA ShowGood ==
  ASSUME NEW shows, NEW x \in GoodMemory, NEW count, NEW shown \in show_queue(shows, x, count)
  PROVE  /\ shown.m \in GoodMemory
         /\ shown.alarms = alarms \/ shown.m.error
         /\ (~Above(count, 0) /\ x.error) => shown.m.error
<1>1. x \in Memory
  BY DEF GoodMemory
<1> DEFINE y == [x EXCEPT !.error = FALSE]
           z == [x EXCEPT !.error = TRUE]
<1>2. y \in GoodMemory /\ z \in GoodMemory /\ z.error
  BY <1>1, ErrorGood
<1>3. Shown(x, shown)
  BY Shows, Zenon
<1>5. ~Above(count, 0) => shown.m = x \/ shown.m = z
  BY ShowsEmpty
<1>4. \/ shown.m = x /\ shown.alarms = alarms
      \/ shown.m = y /\ shown.alarms = alarms
      \/ shown.m = z /\ shown.alarms = alarms + 1
  BY <1>3 DEF Shown
<1> HIDE DEF y, z
<1> QED
  BY <1>2, <1>4, <1>5, Zenon

\* A command that looks at the error keeps the invariant and reports it.
LEMMA Returned ==
  ASSUME NEW x \in GoodMemory, NEW ok, ReturnChecked(x, ok), verbose' = verbose, IInv
  PROVE  IInv' /\ (x.error => ~returned') /\ (~ok => ~returned')
<1>1. x \in Memory
  BY DEF GoodMemory
<1>2. m' \in GoodMemory
  BY <1>1, ErrorGood DEF ReturnChecked
<1>3. m' \in Memory
  BY <1>2 DEF GoodMemory
<1>4. running' = Idle /\ verbose' \in BOOLEAN
  BY DEF ReturnChecked, IInv, TypeInv
<1>5. IInv'
  BY <1>2, <1>3, <1>4, IdleIsRunning DEF IInv, TypeInv, QueueInv, AlarmInv
<1>6. (x.error => ~returned') /\ (~ok => ~returned')
  BY DEF ReturnChecked
<1> QED
  BY <1>5, <1>6

\* A command other than those that give the queue up finds a good memory.
LEMMA EndGood ==
  ASSUME IInv, NEW op \in Ops \ {"free", "renew", "quit", "exited"}, Ends(op)
  PROVE  m \in GoodMemory /\ verbose' = verbose
BY DEF Ends, IInv, QueueInv

\* What AlarmsCount says of a step.
Counted ==
  /\ running' = Idle
  /\ \/ running.raised /\ running.op \in {"free", "new"} \cup
                            (IF verbose THEN {} ELSE {"remove_head", "reverse", "size"})
     \/ alarms' > alarms /\ running.op \in {"new", "remove_head", "reverse", "size"}

\* The end of a command keeps the invariant and reports an alarm.
LEMMA EndStep ==
  ASSUME IInv, alarms \in Nat, do_free \/ do_new \/ do_insert \/ do_remove_head \/ do_reverse \/ do_size
  PROVE  IInv' /\ (Counted => ~returned')
<1> USE DEF Counted
<1>0. m \in Memory /\ running \in Running /\ ~(alarms > alarms)
  BY DEF IInv, TypeInv
<1>1. CASE do_free
  <2>1. NoQueue(m) \in GoodMemory /\ NoQueue(m).error = m.error
    BY <1>0, NoQueueGood
  <2>2. verbose' = verbose /\ ReturnChecked(NoQueue(m), Balanced(m)) /\ running.op = "free"
    BY <1>1 DEF do_free, Ends
  <2>3. running.raised => m.error
    BY <2>2 DEF IInv, AlarmInv
  <2>4. alarms' = alarms
    BY <1>1 DEF do_free
  <2> QED
    BY <1>0, <2>1, <2>2, <2>3, <2>4, Returned
<1>2. CASE Ends("renew") /\ do_new
  <2>1. /\ m' = [NoQueue(m) EXCEPT !.error = FALSE]
        /\ running' = [running EXCEPT !.op = "new", !.reps = 1, !.ok = Balanced(m) /\ ~m.error]
    BY <1>2 DEF do_new, Ends
  <2>2. NoQueue(m) \in GoodMemory /\ NoQueue(m) \in Memory /\ NoQueue(m).q = Null
    BY <1>0, NoQueueGood DEF GoodMemory
  <2>3. m' \in GoodMemory /\ m' \in Memory /\ m'.q = Null
    BY <2>1, <2>2, ErrorGood
  <2> DEFINE ok == Balanced(m) /\ ~m.error
  <2>4. ok \in BOOLEAN /\ (m.error => ~ok)
    OBVIOUS
  <2> HIDE DEF ok
  <2>5. running' = [running EXCEPT !.op = "new", !.reps = 1, !.ok = ok]
    BY <2>1 DEF ok
  <2>6. /\ running' \in Running /\ running'.op = "new" /\ running'.reps = 1
        /\ running'.raised = running.raised /\ running'.ok = ok
    BY <1>0, <2>4, <2>5 DEF Running, Ops
  <2>7. running.raised => ~running'.ok
    BY <1>2, <2>4, <2>6 DEF IInv, AlarmInv, Ends
  <2>8. verbose' \in BOOLEAN
    BY <1>2 DEF Ends, IInv, TypeInv
  <2>9. IInv'
    BY <2>3, <2>6, <2>7, <2>8 DEF IInv, TypeInv, QueueInv, AlarmInv
  <2>10. running' # Idle
    BY <2>6, IdleIsRunning
  <2> QED
    BY <2>9, <2>10
<1>3. CASE Ends("new") /\ do_new
  <2>1. running.op = "new" /\ running.reps = 0 /\ verbose' = verbose
    BY <1>0, <1>3 DEF Ends, Risky, Running
  <2>2. m \in GoodMemory
    BY <2>1 DEF IInv, QueueInv
  <2>3. PICK shown \in show_queue(verbose, m, 0) :
          alarms' = shown.alarms /\ ReturnChecked(shown.m, running.ok)
    BY <2>1, <1>3 DEF do_new, Ends
  <2>7. ~Above(0, 0)
    BY DEF Above
  <2>4. /\ shown.m \in GoodMemory
        /\ shown.alarms = alarms \/ shown.m.error
        /\ m.error => shown.m.error
    BY <2>2, <2>3, <2>7, ShowGood
  <2>5. running.raised => m.error \/ ~running.ok
    BY DEF IInv, AlarmInv
  <2>6. IInv' /\ (shown.m.error => ~returned') /\ (~running.ok => ~returned')
    BY <2>1, <2>3, <2>4, Returned
  <2> QED
    BY <1>0, <2>3, <2>4, <2>5, <2>6
<1>4. CASE do_insert
  <2>1. running.op \in {"insert_head", "insert_tail"} /\ verbose' = verbose
    BY <1>4 DEF do_insert, Ends
  <2>2. m \in GoodMemory
    BY <2>1 DEF IInv, QueueInv
  <2>7. PICK shown \in show_queue(verbose, m, qcnt) : m' = shown.m
    BY <1>4 DEF do_insert
  <2>8. shown.m \in GoodMemory
    BY <2>2, ShowGood, Zenon
  <2>3. m' \in GoodMemory
    BY <2>7, <2>8
  <2>4. m' \in Memory
    BY <2>3 DEF GoodMemory
  <2>5. running' = Idle /\ verbose' \in BOOLEAN
    BY <1>4, <2>1 DEF do_insert, IInv, TypeInv
  <2>6. IInv'
    BY <2>3, <2>4, <2>5, IdleIsRunning DEF IInv, TypeInv, QueueInv, AlarmInv
  <2> QED
    BY <2>1, <2>6
<1>5. CASE do_remove_head \/ do_reverse \/ do_size
  <2>1. PICK op \in {"remove_head", "reverse", "size"} : Ends(op)
    BY <1>5 DEF do_remove_head, do_reverse, do_size
  <2>2. m \in GoodMemory /\ verbose' = verbose /\ running.op = op
    BY <2>1, EndGood DEF Ends, Ops
  <2>7. PICK count, ok : \E shown \in show_queue(verbose, m, count) :
                           alarms' = shown.alarms /\ ReturnChecked(shown.m, ok)
    BY <1>5 DEF do_remove_head, do_reverse, do_size
  <2>3. PICK shown \in show_queue(verbose, m, count) :
          alarms' = shown.alarms /\ ReturnChecked(shown.m, ok)
    BY <2>7
  <2>4. /\ shown.m \in GoodMemory /\ (~verbose => shown.m = m)
        /\ shown.alarms = alarms \/ shown.m.error
    <3>1. shown.m \in GoodMemory /\ (shown.alarms = alarms \/ shown.m.error)
      BY <2>2, <2>3, ShowGood, Zenon
    <3>2. ASSUME ~verbose PROVE shown.m = m
      <4>1. verbose = FALSE
        BY <3>2, Zenon DEF IInv, TypeInv
      <4>2. shown \in show_queue(FALSE, m, count)
        BY <2>3, <4>1
      <4> QED
        BY <4>2, ShowsNothing
    <3> QED
      BY <3>1, <3>2
  <2>5. IInv' /\ (shown.m.error => ~returned')
    BY <2>2, <2>3, <2>4, Returned
  <2>6. running.raised => m.error
    BY <2>2 DEF IInv, AlarmInv
  <2> QED
    BY <1>0, <2>2, <2>3, <2>4, <2>5, <2>6
<1>6. do_new => Ends("renew") \/ Ends("new")
  BY DEF do_new
<1> QED
  BY <1>1, <1>2, <1>3, <1>4, <1>5, <1>6

\* show_queue between commands keeps the invariant.
LEMMA ShowStep == IInv /\ do_show => IInv'
<1> SUFFICES ASSUME IInv, do_show PROVE IInv'
  OBVIOUS
<1>1. m \in GoodMemory /\ m \in Memory
  BY IdleIsRunning DEF do_show, IInv, TypeInv, QueueInv
<1>5. PICK shown \in show_queue(TRUE, m, qcnt) : m' = shown.m
  BY DEF do_show
<1>6. shown.m \in GoodMemory
  BY <1>1, ShowGood, Zenon
<1>2. m' \in GoodMemory
  BY <1>5, <1>6
<1>3. m' \in Memory
  BY <1>2 DEF GoodMemory
<1>4. running' = Idle /\ verbose' \in BOOLEAN
  BY DEF do_show, IInv, TypeInv
<1> QED
  BY <1>2, <1>3, <1>4, IdleIsRunning DEF IInv, TypeInv, QueueInv, AlarmInv

\* The end of the program keeps it.
LEMMA QuitStep == IInv /\ queue_quit => IInv'
<1> SUFFICES ASSUME IInv, queue_quit PROVE IInv'
  OBVIOUS
<1>1. m \in Memory /\ m' = m /\ verbose' = verbose /\ verbose \in BOOLEAN
  BY DEF queue_quit, Ends, IInv, TypeInv
<1>2. CASE running = Idle
  <2>1. m \in GoodMemory
    BY <1>2, IdleIsRunning DEF IInv, QueueInv
  <2>2. running' \in Running /\ running'.op = "quit" /\ running'.reps = 1 /\ running'.raised = FALSE
    <3>1. running' = [Idle EXCEPT !.op = "quit", !.reps = 1]
      BY <1>2, IdleIsRunning DEF queue_quit, Ends
    <3> QED
      BY <3>1, IdleIsRunning DEF Running, Ops
  <2> QED
    BY <1>1, <2>1, <2>2 DEF IInv, TypeInv, QueueInv, AlarmInv
<1>3. CASE running # Idle
  <2>1. running' = [Idle EXCEPT !.op = "exited"]
    BY <1>3 DEF queue_quit
  <2>2. running' \in Running /\ running'.op = "exited" /\ running'.reps = 0 /\ running'.raised = FALSE
    BY <2>1, IdleIsRunning DEF Running, Ops
  <2> QED
    BY <1>1, <2>2 DEF IInv, TypeInv, QueueInv, AlarmInv
<1> QED
  BY <1>2, <1>3

\* The alarms are counted.
LEMMA AlarmsGrow ==
  ASSUME alarms \in Nat, [Next]_vars
  PROVE  alarms' \in Nat /\ (alarms # 0 => alarms' # 0)
<1>1. ASSUME NEW shows, NEW x, NEW count, NEW shown \in show_queue(shows, x, count)
      PROVE  shown.alarms \in Nat /\ (alarms # 0 => shown.alarms # 0)
  <2>1. Shown(x, shown)
    BY <1>1, Shows, Zenon
  <2> QED
    BY <2>1 DEF Shown
<1>2. CASE Command
  <2>1. \E op, s, reps : Begin(op, s, reps)
    BY <1>2 DEF Command
  <2> QED
    BY <2>1 DEF Begin
<1>3. CASE Alarm \/ OutOfMemory \/ Insert \/ Size \/ Call
  <2>1. alarms' = alarms + 1 \/ alarms' = alarms
    BY <1>3, Zenon DEF Alarm, OutOfMemory, Insert, Size, Call
  <2> QED
    BY <2>1
<1>4. CASE do_free \/ queue_quit
  BY <1>4 DEF do_free, queue_quit
<1>5. CASE do_new
  <2>1. alarms' = alarms \/ \E shown \in show_queue(verbose, m, 0) : alarms' = shown.alarms
    BY <1>5 DEF do_new
  <2> QED
    BY <1>1, <2>1
<1>6. CASE do_insert \/ do_remove_head \/ do_reverse \/ do_size \/ do_show
  <2>1. \E shows, count : \E shown \in show_queue(shows, m, count) : alarms' = shown.alarms
    BY <1>6 DEF do_insert, do_remove_head, do_reverse, do_size, do_show
  <2> QED
    BY <1>1, <2>1
<1>7. CASE UNCHANGED vars
  BY <1>7 DEF vars
<1> QED
  BY <1>2, <1>3, <1>4, <1>5, <1>6, <1>7 DEF Next

\* Every step keeps the invariant.
LEMMA Preserved == IInv /\ alarms \in Nat /\ [Next]_vars => IInv' /\ alarms' \in Nat
<1> SUFFICES ASSUME IInv, alarms \in Nat, [Next]_vars PROVE IInv'
  BY AlarmsGrow
<1>1. CASE Command
  BY <1>1, CommandStep
<1>2. CASE Alarm
  BY <1>2, AlarmStep
<1>3. CASE Insert
  BY <1>3, InsertStep
<1>4. CASE Size
  BY <1>4, SizeStep
<1>5. CASE Call
  BY <1>5, CallStep
<1>6. CASE do_free \/ do_new \/ do_insert \/ do_remove_head \/ do_reverse \/ do_size
  BY <1>6, EndStep
<1>7. CASE do_show
  BY <1>7, ShowStep
<1>8. CASE queue_quit
  BY <1>8, QuitStep
<1>9. CASE UNCHANGED vars
  BY <1>9 DEF vars, IInv, TypeInv, QueueInv, AlarmInv
<1>11. CASE OutOfMemory
  BY <1>11, AbortStep
<1> QED
  BY <1>1, <1>2, <1>3, <1>4, <1>5, <1>6, <1>7, <1>8, <1>9, <1>11 DEF Next

\* The inductive invariant of a qtest session holds after every command.
LEMMA Invariance == Spec => [](IInv /\ alarms \in Nat)
<1>1. Init => IInv /\ alarms \in Nat
  BY Typing DEF Init, queue_init
<1>2. IInv /\ alarms \in Nat /\ [Next]_vars => IInv' /\ (alarms \in Nat)'
  BY Preserved
<1> QED
  BY <1>1, <1>2, PTL DEF Spec

\* The invariant says what a command may count on.
LEMMA IntactNow == IInv => QueueIntact
<1> SUFFICES ASSUME IInv, running.op \notin {"free", "renew", "quit", "exited"}
             PROVE  LET es == Elements(m)
                    IN  /\ Len(es) <= Cardinality(Blocks)
                        /\ m.q # Null => m.q \in m.live
                        /\ \A i \in DOMAIN es : es[i] \in m.live /\ m.value[es[i]] \in m.live
                        /\ m.tail # Null => m.tail \in ToSet(es)
  BY DEF QueueIntact
<1>1. m \in GoodMemory
  BY DEF IInv, QueueInv
<1>2. CASE m.q = Null
  <2>1. Elements(m) = <<>> /\ m.tail = Null
    BY <1>1, <1>2 DEF Elements, GoodMemory
  <2>2. Cardinality(Blocks) \in Nat
    BY HeapAssumption, FS_CardinalityType
  <2> QED
    BY <1>2, <2>1, <2>2
<1>3. CASE m.q # Null
  <2>1. PICK n, es : Queue(m, n, es)
    BY <1>1, <1>3 DEF GoodMemory, HasQueue
  <2>2. Elements(m) = es /\ Len(es) = n /\ n \in Nat /\ es \in [1..n -> Blocks]
    BY <1>1, <1>3, <2>1, ElementsFound
  <2>3. n <= Cardinality(Blocks)
    BY <2>1, PathLength DEF Queue
  <2>4. DOMAIN es = 1..n
    BY <2>2
  <2>5. m.tail # Null => m.tail \in ToSet(es)
    BY <2>1, <2>4 DEF Queue, ToSet
  <2>6. /\ m.q \in m.live
        /\ \A i \in 1..n : es[i] \in m.live /\ m.value[es[i]] \in m.live
    BY <2>1 DEF Queue
  <2> QED
    BY <2>2, <2>3, <2>4, <2>5, <2>6
<1> QED
  BY <1>2, <1>3

(* However often alarms leave insertions, removals and reversals between   *)
(* two of their assignments, and in whatever order, the queue that the     *)
(* next command of qtest finds is a finite list of blocks not freed, each  *)
(* with a string not freed, and tail is one of them.                       *)
THEOREM Intact == Spec => []QueueIntact
BY Invariance, IntactNow, PTL

\* Only the end of a command makes it idle.
LEMMA AlarmCounted == IInv /\ alarms \in Nat /\ [Next]_vars => [Counted => ~returned']_vars
<1> SUFFICES ASSUME IInv, alarms \in Nat, Next, Counted PROVE ~returned'
  BY DEF vars
<1>0. running' = Idle /\ (running.raised \/ running.op # "none")
  BY DEF Counted
<1>1. running # Idle /\ running' # running
  BY <1>0, IdleIsRunning
<1>2. CASE Command
  <2>1. \E op, s : \E reps : Begin(op, s, reps)
    BY <1>2 DEF Command
  <2> QED
    BY <1>1, <2>1 DEF Begin
<1>3. CASE Alarm
  <2>1. running'.raised
    BY <1>3 DEF Alarm, IInv, TypeInv, Running
  <2> QED
    BY <1>0, <2>1, IdleIsRunning
<1>4. CASE Insert \/ Size \/ Call
  <2>1. running'.op = running.op /\ alarms' = alarms /\ running'.raised = running.raised
    BY <1>4 DEF Insert, Size, Call, IInv, TypeInv, Running
  <2> QED
    BY <1>0, <2>1, IdleIsRunning DEF Counted
<1>5. CASE do_free \/ do_new \/ do_insert \/ do_remove_head \/ do_reverse \/ do_size
  BY <1>5, EndStep
<1>6. CASE do_show
  BY <1>1, <1>6 DEF do_show
<1>7. CASE queue_quit
  BY <1>0, <1>1, <1>7 DEF queue_quit, Idle
<1>8. CASE OutOfMemory
  <2>1. running'.op = "aborted"
    BY <1>8 DEF OutOfMemory, Idle
  <2> QED
    BY <1>0, <2>1, IdleIsRunning
<1> QED
  BY <1>2, <1>3, <1>4, <1>5, <1>6, <1>7, <1>8 DEF Next

(* A command that the time limit left, other than an insertion, and at     *)
(* high verbosity other than one that shows the queue, never returns TRUE, *)
(* nor does one whose show_queue it left: error_check finds what           *)
(* trigger_exception set, and do_new keeps the alarm of the queue it freed *)
(* first in ok.                                                            *)
THEOREM AlarmsReported == Spec => AlarmsCount
<1>1. IInv /\ alarms \in Nat /\ [Next]_vars => [Counted => ~returned']_vars
  BY AlarmCounted
<1> QED
  BY <1>1, Invariance, PTL DEF Spec, AlarmsCount, Counted

-----------------------------------------------------------------------------
(* The harness's list of x is ls: the blocks in use, once each, with right *)
(* back links and a right count.                                           *)
Listed(x, n, ls) ==
  /\ Path(x.bnext, x.allocated, n, ls)
  /\ x.live = {ls[i] : i \in 1..n}
  /\ \A i \in 1..n : x.bprev[ls[i]] = IF i = 1 THEN Null ELSE ls[i-1]
  /\ x.allocated_count = n

HasList(x) == \E n, ls : Listed(x, n, ls)

\* The list does not depend on the queue.
LEMMA ListKept ==
  ASSUME NEW x, NEW y, HasList(x), y.live = x.live, y.allocated = x.allocated,
         y.allocated_count = x.allocated_count, y.bnext = x.bnext, y.bprev = x.bprev
  PROVE  HasList(y)
BY DEF HasList, Listed

\* test_malloc puts the block at the front of the list.
LEMMA MallocListed ==
  ASSUME NEW x \in Memory, ~Full(x), HasList(x)
  PROVE  HasList(Last(test_malloc(x))) /\ Last(test_malloc(x)).error = x.error
<1> DEFINE b == Fresh(x)
           created == Created(x, b)
           linked == LinkedFront(created, b)
           listed == [linked EXCEPT !.allocated = b]
           y == [listed EXCEPT !.allocated_count = @ + 1]
<1>1. b \in Blocks /\ b \notin x.live
  BY FreshIsFree
<1>2. test_malloc(x) = <<x, created, linked, listed, y>>
  BY DEF test_malloc
<1> HIDE DEF b
<1>3. /\ created \in Memory /\ created.live = x.live \cup {b} /\ created.error = x.error
      /\ created.bnext = [x.bnext EXCEPT ![b] = x.allocated]
      /\ created.bprev = [x.bprev EXCEPT ![b] = Null]
      /\ created.allocated_count = x.allocated_count /\ created.allocated = x.allocated
  BY <1>1 DEF Memory, Link, Created
<1> HIDE DEF created
<1>4. /\ linked \in Memory /\ linked.live = x.live \cup {b} /\ linked.error = x.error
      /\ linked.bnext = created.bnext /\ linked.allocated_count = x.allocated_count
      /\ linked.bprev = IF x.allocated = Null THEN created.bprev
                        ELSE [created.bprev EXCEPT ![x.allocated] = b]
  BY <1>1, <1>3 DEF Memory, Link, LinkedFront
<1> HIDE DEF linked
<1>5. /\ listed \in Memory /\ listed.live = x.live \cup {b} /\ listed.error = x.error
      /\ listed.bnext = created.bnext /\ listed.allocated_count = x.allocated_count
      /\ listed.bprev = linked.bprev /\ listed.allocated = b
  BY <1>1, <1>4 DEF Memory
<1> HIDE DEF listed
<1>6. /\ y.live = x.live \cup {b} /\ y.error = x.error
      /\ y.bnext = created.bnext /\ y.allocated_count = x.allocated_count + 1
      /\ y.bprev = linked.bprev /\ y.allocated = b
  BY <1>5 DEF Memory
<1> HIDE DEF y
<1>7. PICK n, ls : Listed(x, n, ls)
  BY DEF HasList
<1>8. /\ n \in Nat /\ ls \in [1..n -> Blocks] /\ x.allocated = IF n = 0 THEN Null ELSE ls[1]
      /\ \A i, j \in 1..n : ls[i] = ls[j] => i = j
      /\ Path(x.bnext, x.allocated, n, ls)
  BY <1>7 DEF Listed, Path
<1>9. \A i \in 1..n : ls[i] # b /\ ls[i] \in Blocks
  BY <1>1, <1>7, <1>8 DEF Listed
<1> DEFINE fs == Pushed(b, n, ls)
<1>10. Path(y.bnext, y.allocated, n + 1, fs)
  <2>1. x.bnext \in Link
    BY DEF Memory
  <2> DEFINE links == y.bnext
             next == x.bnext
             first == x.allocated
  <2>2. links[b] = first /\ \A i \in 1..n : links[ls[i]] = next[ls[i]]
    BY <1>1, <1>3, <1>6, <1>9, <2>1 DEF Link
  <2>3. Path(next, first, n, ls)
    BY <1>8
  <2> HIDE DEF links, next, first
  <2>4. Path(links, b, n + 1, Pushed(b, n, ls))
    BY <1>1, <1>9, <2>2, <2>3, PathPush
  <2> QED
    BY <1>6, <2>4 DEF links
<1>11. /\ fs[1] = b /\ \A i \in 1..n : fs[i+1] = ls[i] /\ i + 1 \in 1..n+1
       /\ \A i \in 1..n+1 : i = 1 \/ (i - 1 \in 1..n /\ fs[i] = ls[i-1])
       /\ 1 \in 1..n+1
  BY <1>8, PushFacts
<1> HIDE DEF fs
<1>12. y.live = {fs[i] : i \in 1..n+1}
  <2>1. x.live = {ls[i] : i \in 1..n}
    BY <1>7 DEF Listed
  <2> QED
    BY <1>6, <1>11, <2>1
<1>13. ASSUME NEW i \in 1..n+1
       PROVE  y.bprev[fs[i]] = IF i = 1 THEN Null ELSE fs[i-1]
  <2>1. x.bprev \in Link
    BY DEF Memory
  <2>2. CASE i = 1
    <3>1. x.allocated # b
      BY <1>1, <1>8, <1>9, HeapAssumption
    <3>2. created.bprev[b] = Null /\ created.bprev \in Link
      BY <1>1, <1>3, <2>1 DEF Memory, Link
    <3> QED
      BY <1>1, <1>4, <1>6, <1>11, <2>2, <3>1, <3>2 DEF Link
  <2>3. CASE i # 1
    <3>1. i - 1 \in 1..n /\ fs[i] = ls[i-1] /\ ls[i-1] # b /\ ls[i-1] \in Blocks
      BY <1>9, <1>11, <2>3
    <3>2. created.bprev[ls[i-1]] = IF i - 1 = 1 THEN Null ELSE ls[i-2]
      <4>1. x.bprev[ls[i-1]] = IF i - 1 = 1 THEN Null ELSE ls[(i-1)-1]
        BY <1>7, <3>1 DEF Listed
      <4>2. created.bprev[ls[i-1]] = x.bprev[ls[i-1]]
        BY <1>1, <1>3, <2>1, <3>1 DEF Link
      <4>3. (i - 1) - 1 = i - 2
        BY <1>8
      <4> QED
        BY <4>1, <4>2, <4>3
    <3>3. 1 \in 1..n /\ n # 0 /\ x.allocated = ls[1] /\ ls[1] \in Blocks
      BY <1>8, <1>9, <3>1
    <3>4. created.bprev \in Link /\ x.allocated # Null
      BY <1>3, <3>3, HeapAssumption DEF Memory
    <3>5. CASE i = 2
      <4>1. fs[i] = ls[1] /\ i - 1 = 1
        BY <3>1, <3>5
      <4> QED
        BY <1>4, <1>6, <1>11, <2>3, <3>3, <3>4, <4>1 DEF Link
    <3>6. CASE i # 2
      <4>1. i - 1 # 1 /\ i - 2 \in 1..n /\ (i - 2) + 1 = i - 1
        BY <1>8, <2>3, <3>1, <3>6
      <4>2. fs[i-1] = ls[i-2]
        BY <1>11, <4>1
      <4>3. ls[i-1] # ls[1]
        BY <1>8, <3>1, <3>3, <4>1
      <4>4. y.bprev[ls[i-1]] = created.bprev[ls[i-1]]
        BY <1>4, <1>6, <3>1, <3>3, <3>4, <4>3 DEF Link
      <4> QED
        BY <2>3, <3>1, <3>2, <4>1, <4>2, <4>4
    <3> QED
      BY <3>5, <3>6
  <2> QED
    BY <2>2, <2>3
<1>14. y.allocated_count = n + 1
  BY <1>6, <1>7 DEF Listed
<1>15. Listed(y, n + 1, fs)
  BY <1>10, <1>12, <1>13, <1>14 DEF Listed
<1>16. Last(<<x, created, linked, listed, y>>) = y
  BY DEF Last
<1> QED
  BY <1>2, <1>6, <1>15, <1>16 DEF HasList

\* A list without its j-th.
Dropped(j, n, ls) == [i \in 1..n-1 |-> IF i < j THEN ls[i] ELSE ls[i+1]]

\* What a list without its j-th block holds.
LEMMA DropFacts ==
  ASSUME NEW n \in Nat, NEW j \in 1..n, NEW ls
  PROVE  /\ \A i \in 1..n-1 : i < j => i \in 1..n /\ i # j /\ Dropped(j, n, ls)[i] = ls[i]
         /\ \A i \in 1..n-1 : ~(i < j) => i + 1 \in 1..n /\ i + 1 # j /\ Dropped(j, n, ls)[i] = ls[i+1]
         /\ \A i \in 1..n : i < j => i \in 1..n-1
         /\ \A i \in 1..n : j < i => i - 1 \in 1..n-1 /\ ~(i - 1 < j) /\ (i - 1) + 1 = i
BY DEF Dropped

\* The path that leads past its j-th block.
LEMMA PathDrop ==
  ASSUME NEW next, NEW first, NEW n, NEW es, Path(next, first, n, es), NEW j \in 1..n,
         NEW links, NEW start, NEW bn, bn = next[es[j]],
         start = IF j = 1 THEN bn ELSE first,
         \A i \in 1..n : i # j => links[es[i]] = IF i = j - 1 THEN bn ELSE next[es[i]]
  PROVE  Path(links, start, n - 1, Dropped(j, n, es))
<1> DEFINE fs == Dropped(j, n, es)
<1>1. n \in Nat /\ j \in Nat /\ n - 1 \in Nat /\ 1 <= j /\ j <= n
  BY DEF Path
<1>2. /\ \A i \in 1..n-1 : i < j => i \in 1..n /\ i # j /\ fs[i] = es[i]
      /\ \A i \in 1..n-1 : ~(i < j) => i + 1 \in 1..n /\ i + 1 # j /\ fs[i] = es[i+1]
  BY <1>1, DropFacts
<1>3. bn = IF j = n THEN Null ELSE es[j+1]
  BY DEF Path
<1>4. fs \in [1..n-1 -> Blocks]
  <2>1. \A i \in 1..n-1 : fs[i] \in Blocks
    BY <1>2 DEF Path
  <2>2. fs = [i \in 1..n-1 |-> fs[i]]
    BY DEF Dropped
  <2> HIDE DEF fs
  <2> QED
    BY <2>1, <2>2
<1> HIDE DEF fs
<1>5. \A i, k \in 1..n-1 : fs[i] = fs[k] => i = k
  <2> SUFFICES ASSUME NEW i \in 1..n-1, NEW k \in 1..n-1, fs[i] = fs[k]
               PROVE  i = k
    OBVIOUS
  <2>1. \A a, b \in 1..n : es[a] = es[b] => a = b
    BY DEF Path
  <2>2. CASE i < j /\ k < j
    BY <1>2, <2>1, <2>2
  <2>3. CASE i < j /\ ~(k < j)
    <3>1. i = k + 1
      BY <1>2, <2>1, <2>3
    <3> QED
      BY <1>1, <2>3, <3>1
  <2>4. CASE ~(i < j) /\ k < j
    <3>1. i + 1 = k
      BY <1>2, <2>1, <2>4
    <3> QED
      BY <1>1, <2>4, <3>1
  <2>5. CASE ~(i < j) /\ ~(k < j)
    <3>1. i + 1 = k + 1
      BY <1>2, <2>1, <2>5
    <3> QED
      BY <1>1, <3>1
  <2> QED
    BY <2>2, <2>3, <2>4, <2>5
<1>6. start = IF n - 1 = 0 THEN Null ELSE fs[1]
  <2>1. CASE n = 1
    BY <1>1, <1>3, <2>1
  <2>2. CASE n # 1 /\ j = 1
    <3>1. 1 \in 1..n-1 /\ ~(1 < j)
      BY <1>1, <2>2
    <3> QED
      BY <1>1, <1>2, <1>3, <2>2, <3>1
  <2>3. CASE n # 1 /\ j # 1
    <3>1. 1 \in 1..n-1 /\ 1 < j /\ first = es[1]
      BY <1>1, <2>3 DEF Path
    <3> QED
      BY <1>1, <1>2, <2>3, <3>1
  <2> QED
    BY <2>1, <2>2, <2>3
<1>7. ASSUME NEW i \in 1..n-1
      PROVE  links[fs[i]] = IF i = n - 1 THEN Null ELSE fs[i+1]
  <2>1. CASE i < j - 1
    <3>1. i \in 1..n /\ i < j /\ i # n /\ i # n - 1 /\ i + 1 \in 1..n-1 /\ i + 1 < j
      BY <1>1, <2>1
    <3>2. links[es[i]] = next[es[i]] /\ next[es[i]] = es[i+1]
      BY <2>1, <3>1 DEF Path
    <3> QED
      BY <1>2, <3>1, <3>2
  <2>2. CASE i = j - 1
    <3>1. i < j /\ i \in 1..n /\ i # j
      BY <1>1, <2>2
    <3>2. links[fs[i]] = bn
      BY <1>2, <2>2, <3>1
    <3>3. i # n - 1 => i + 1 \in 1..n-1 /\ ~(i + 1 < j) /\ j # n /\ (i + 1) + 1 = j + 1
      BY <1>1, <2>2
    <3>4. i # n - 1 => fs[i+1] = es[j+1]
      BY <1>2, <3>3
    <3> QED
      BY <1>1, <1>3, <2>2, <3>2, <3>3, <3>4
  <2>3. CASE ~(i < j)
    <3>1. i + 1 \in 1..n /\ i + 1 # j /\ i + 1 # j - 1 /\ fs[i] = es[i+1]
      BY <1>1, <1>2, <2>3
    <3>2. links[fs[i]] = next[es[i+1]]
      BY <3>1
    <3>3. next[es[i+1]] = IF i + 1 = n THEN Null ELSE es[(i+1)+1]
      BY <3>1 DEF Path
    <3>4. i # n - 1 => i + 1 \in 1..n-1 /\ ~(i + 1 < j)
      BY <1>1, <2>3
    <3>5. i # n - 1 => fs[i+1] = es[(i+1)+1]
      BY <1>2, <3>4
    <3> QED
      BY <1>1, <3>2, <3>3, <3>5
  <2> QED
    BY <1>1, <2>1, <2>2, <2>3
<1>8. Path(links, start, n - 1, fs)
  BY <1>1, <1>4, <1>5, <1>6, <1>7 DEF Path
<1> QED
  BY <1>8 DEF fs

\* test_free takes a block of the list out of it, and finds no error.
LEMMA FreeListed ==
  ASSUME NEW x \in Memory, NEW b \in x.live, NEW cautious, HasList(x)
  PROVE  LET y == Last(test_free(x, b, cautious))
         IN  HasList(y) /\ y \in Memory /\ Without(x, b, y) /\ y.error = x.error
<1> DEFINE bn == x.bnext[b]
           bp == x.bprev[b]
           checked == Checked(x, b, cautious)
           before == LinkedPast(checked, bp, bn)
           after == LinkedBack(before, bp, bn)
           wiped == [after EXCEPT !.next[b] = Null, !.value[b] = Null, !.text[b] = Null]
           freed == Freed(after, b)
           y == [freed EXCEPT !.allocated_count = @ - 1]
<1>1. test_free(x, b, cautious) = <<x, checked, before, after, freed, y>>
  BY DEF test_free
<1>2. b \in Blocks /\ x.bnext \in Link /\ x.bprev \in Link
  BY DEF Memory
<1>3. PICK n, ls : Listed(x, n, ls)
  BY DEF HasList
<1>4. /\ n \in Nat /\ ls \in [1..n -> Blocks] /\ x.allocated = IF n = 0 THEN Null ELSE ls[1]
      /\ \A i, k \in 1..n : ls[i] = ls[k] => i = k
      /\ \A i \in 1..n : x.bnext[ls[i]] = IF i = n THEN Null ELSE ls[i+1]
      /\ Path(x.bnext, x.allocated, n, ls)
  BY <1>3 DEF Listed, Path
<1>5. x.live = {ls[i] : i \in 1..n}
  BY <1>3 DEF Listed
<1>6. PICK j \in 1..n : b = ls[j]
  BY <1>5
<1>7. /\ bn = IF j = n THEN Null ELSE ls[j+1]
      /\ bp = IF j = 1 THEN Null ELSE ls[j-1]
      /\ bn # Null => bn \in Blocks
      /\ bp # Null => bp \in Blocks
  <2>1. /\ bn = IF j = n THEN Null ELSE ls[j+1]
        /\ bp = IF j = 1 THEN Null ELSE ls[j-1]
    BY <1>3, <1>4, <1>6 DEF Listed
  <2>2. (j # n => j + 1 \in 1..n) /\ (j # 1 => j - 1 \in 1..n)
    BY <1>4
  <2> QED
    BY <1>4, <2>1, <2>2
<1>8. checked = x
  <2>1. Walk(x.bnext, x.allocated) = ls
    <3> DEFINE next == x.bnext
               first == x.allocated
    <3>1. next \in Link /\ Path(next, first, n, ls)
      BY <1>2, <1>4
    <3> HIDE DEF next, first
    <3>2. Walk(next, first) = ls
      BY <3>1, WalkIsPath
    <3> QED
      BY <3>2 DEF next, first
  <2>2. b \in ToSet(ls)
    BY <1>4, <1>6 DEF ToSet
  <2> QED
    BY <2>1, <2>2 DEF Checked, Recognised
<1> HIDE DEF bn, bp, checked
<1>9. bn \in Blocks \cup {Null} /\ bp \in Blocks \cup {Null}
  BY <1>7
<1>10. /\ before \in Memory /\ before.live = x.live /\ before.error = x.error
       /\ before.allocated = IF bp = Null THEN bn ELSE x.allocated
       /\ before.bnext = IF bp = Null THEN x.bnext ELSE [x.bnext EXCEPT ![bp] = bn]
       /\ before.bprev = x.bprev /\ before.allocated_count = x.allocated_count
  BY <1>8, <1>9 DEF LinkedPast, Memory, Link
<1> HIDE DEF before
<1>11. /\ after \in Memory /\ after.live = x.live /\ after.error = x.error
       /\ after.allocated = before.allocated /\ after.bnext = before.bnext
       /\ after.bprev = IF bn = Null THEN x.bprev ELSE [x.bprev EXCEPT ![bn] = bp]
       /\ after.allocated_count = x.allocated_count
  BY <1>9, <1>10 DEF LinkedBack, Memory, Link
<1> HIDE DEF after
<1>12. /\ wiped \in Memory /\ wiped.live = x.live /\ wiped.error = x.error
       /\ wiped.allocated = before.allocated /\ wiped.bnext = before.bnext
       /\ wiped.bprev = after.bprev /\ wiped.allocated_count = x.allocated_count
  BY <1>2, <1>11 DEF Memory, Link
<1>13. freed = [wiped EXCEPT !.live = @ \ {b}, !.bnext[b] = Null, !.bprev[b] = Null]
  BY DEF Freed
<1> HIDE DEF wiped, freed
<1>14. /\ freed \in Memory /\ freed.live = x.live \ {b} /\ freed.error = x.error
       /\ freed.allocated = before.allocated
       /\ freed.bnext = [before.bnext EXCEPT ![b] = Null]
       /\ freed.bprev = [after.bprev EXCEPT ![b] = Null]
       /\ freed.allocated_count = x.allocated_count
  BY <1>2, <1>12, <1>13 DEF Memory, Link
<1>15. /\ y.live = x.live \ {b} /\ y.error = x.error
       /\ y.allocated = before.allocated
       /\ y.bnext = [before.bnext EXCEPT ![b] = Null]
       /\ y.bprev = [after.bprev EXCEPT ![b] = Null]
       /\ y.allocated_count = x.allocated_count - 1
  BY <1>14 DEF Memory
<1> HIDE DEF y
<1> DEFINE fs == Dropped(j, n, ls)
<1>16. /\ before.bnext \in Link /\ after.bprev \in Link /\ Null \notin Blocks
  BY <1>10, <1>11, HeapAssumption DEF Memory
<1>17. \A i \in 1..n : ls[i] \in Blocks /\ (i # j => ls[i] # b)
  BY <1>4, <1>6
<1>18. ASSUME NEW i \in 1..n, i # j
       PROVE  y.bnext[ls[i]] = IF i = j - 1 THEN bn ELSE x.bnext[ls[i]]
  <2>1. y.bnext[ls[i]] = before.bnext[ls[i]]
    BY <1>2, <1>15, <1>16, <1>17, <1>18 DEF Link
  <2>2. CASE j = 1
    <3>1. i # j - 1
      BY <1>4, <2>2
    <3> QED
      BY <1>7, <1>10, <2>1, <2>2, <3>1
  <2>3. CASE j # 1
    <3>1. j - 1 \in 1..n /\ bp = ls[j-1] /\ bp \in Blocks
      BY <1>4, <1>7, <2>3
    <3>2. before.bnext = [x.bnext EXCEPT ![bp] = bn]
      BY <1>10, <1>16, <3>1
    <3>3. ls[i] = bp <=> i = j - 1
      BY <1>4, <3>1
    <3> QED
      BY <1>2, <1>17, <2>1, <3>1, <3>2, <3>3 DEF Link
  <2> QED
    BY <2>2, <2>3
<1>19. ASSUME NEW i \in 1..n, i # j
       PROVE  y.bprev[ls[i]] = IF i = j + 1 THEN bp ELSE x.bprev[ls[i]]
  <2>1. y.bprev[ls[i]] = after.bprev[ls[i]]
    BY <1>2, <1>15, <1>16, <1>17, <1>19 DEF Link
  <2>2. CASE j = n
    <3>1. i # j + 1
      BY <1>4, <2>2
    <3> QED
      BY <1>7, <1>11, <2>1, <2>2, <3>1
  <2>3. CASE j # n
    <3>1. j + 1 \in 1..n /\ bn = ls[j+1] /\ bn \in Blocks
      BY <1>4, <1>7, <2>3
    <3>2. after.bprev = [x.bprev EXCEPT ![bn] = bp]
      BY <1>11, <1>16, <3>1
    <3>3. ls[i] = bn <=> i = j + 1
      BY <1>4, <3>1
    <3> QED
      BY <1>2, <1>17, <2>1, <3>1, <3>2, <3>3 DEF Link
  <2> QED
    BY <2>2, <2>3
<1>20. Path(y.bnext, y.allocated, n - 1, fs)
  <2>1. y.allocated = IF j = 1 THEN bn ELSE x.allocated
    <3>1. j # 1 => bp # Null
      <4>1. j # 1 => j - 1 \in 1..n
        BY <1>4
      <4> QED
        BY <1>7, <1>16, <1>17, <4>1
    <3> QED
      BY <1>7, <1>10, <1>15, <3>1
  <2>2. bn = x.bnext[ls[j]]
    BY <1>6 DEF bn
  <2> DEFINE links == y.bnext
             next == x.bnext
             first == x.allocated
             start == y.allocated
  <2>3. /\ \A i \in 1..n : i # j => links[ls[i]] = IF i = j - 1 THEN bn ELSE next[ls[i]]
        /\ bn = next[ls[j]] /\ start = (IF j = 1 THEN bn ELSE first) /\ Path(next, first, n, ls)
    BY <1>4, <1>18, <2>1, <2>2
  <2> HIDE DEF links, next, first, start
  <2>4. Path(links, start, n - 1, Dropped(j, n, ls))
    BY <2>3, PathDrop
  <2> QED
    BY <2>4 DEF links, start
<1>21. /\ \A i \in 1..n-1 : i < j => i \in 1..n /\ i # j /\ fs[i] = ls[i]
       /\ \A i \in 1..n-1 : ~(i < j) => i + 1 \in 1..n /\ i + 1 # j /\ fs[i] = ls[i+1]
       /\ \A i \in 1..n : i < j => i \in 1..n-1
       /\ \A i \in 1..n : j < i => i - 1 \in 1..n-1 /\ ~(i - 1 < j) /\ (i - 1) + 1 = i
  <2>1. n \in Nat /\ j \in 1..n
    BY <1>4
  <2> QED
    BY <2>1, DropFacts
<1> HIDE DEF fs
<1>22. y.live = {fs[i] : i \in 1..n-1}
  <2>1. ASSUME NEW i \in 1..n, i # j
        PROVE  \E k \in 1..n-1 : ls[i] = fs[k]
    <3>1. CASE i < j
      BY <1>21, <3>1
    <3>2. CASE j < i
      <4>1. i - 1 \in 1..n-1 /\ fs[i-1] = ls[i]
        BY <1>21, <3>2
      <4> QED
        BY <4>1
    <3> QED
      BY <1>4, <2>1, <3>1, <3>2
  <2>2. \A i \in 1..n-1 : \E k \in 1..n : k # j /\ fs[i] = ls[k]
    BY <1>21
  <2> QED
    BY <1>5, <1>6, <1>15, <1>17, <2>1, <2>2
<1>23. ASSUME NEW i \in 1..n-1
       PROVE  y.bprev[fs[i]] = IF i = 1 THEN Null ELSE fs[i-1]
  <2>0. \A k \in 1..n : x.bprev[ls[k]] = IF k = 1 THEN Null ELSE ls[k-1]
    BY <1>3 DEF Listed
  <2>1. CASE i < j
    <3>1. y.bprev[fs[i]] = x.bprev[ls[i]] /\ i # j + 1
      BY <1>4, <1>19, <1>21, <2>1
    <3>2. i # 1 => i - 1 \in 1..n-1 /\ i - 1 < j
      BY <1>4, <2>1
    <3>3. i # 1 => fs[i-1] = ls[i-1]
      BY <1>21, <3>2
    <3> QED
      BY <1>21, <2>0, <2>1, <3>1, <3>3
  <2>2. CASE i = j
    <3>1. i + 1 \in 1..n /\ fs[i] = ls[i+1] /\ i + 1 = j + 1 /\ i + 1 # j
      BY <1>4, <1>21, <2>2
    <3>2. y.bprev[fs[i]] = bp
      BY <1>19, <3>1
    <3>3. i # 1 => i - 1 \in 1..n-1 /\ i - 1 < j
      BY <1>4, <2>2
    <3>4. i # 1 => fs[i-1] = ls[i-1]
      BY <1>21, <3>3
    <3> QED
      BY <1>7, <2>2, <3>2, <3>4
  <2>3. CASE j < i
    <3>1. ~(i < j) /\ i + 1 # j + 1 /\ i + 1 # 1 /\ (i + 1) - 1 = i /\ i # 1
      BY <1>4, <2>3
    <3>2. i + 1 \in 1..n /\ fs[i] = ls[i+1] /\ i + 1 # j
      BY <1>21, <3>1
    <3>3. y.bprev[fs[i]] = ls[i]
      BY <1>19, <2>0, <3>1, <3>2
    <3>4. i - 1 \in 1..n-1 /\ ~(i - 1 < j) /\ (i - 1) + 1 = i
      BY <1>4, <2>3
    <3>5. fs[i-1] = ls[i]
      BY <1>21, <3>4
    <3> QED
      BY <3>1, <3>3, <3>5
  <2> QED
    BY <1>4, <2>1, <2>2, <2>3
<1>24. y.allocated_count = n - 1
  BY <1>3, <1>15 DEF Listed
<1>25. Listed(y, n - 1, fs)
  BY <1>20, <1>22, <1>23, <1>24 DEF Listed
<1>26. Last(<<x, checked, before, after, freed, y>>) = y
  BY DEF Last
<1>27. y \in Memory /\ Without(x, b, y)
  <2>1. Last(test_free(x, b, cautious)) = y
    BY <1>1, <1>26
  <2> QED
    BY <1>2, <2>1, Frees
<1> QED
  BY <1>1, <1>15, <1>25, <1>26, <1>27 DEF HasList

-----------------------------------------------------------------------------
(* The queue of x is exactly es: tail is the last element, the size that   *)
(* q_size returns is right, and no other block is in use.                  *)
Exact(x, n, es) ==
  /\ Queue(x, n, es)
  /\ x.tail = IF n = 0 THEN Null ELSE es[n]
  /\ x.sizeL = n
  /\ x.live = {x.q} \cup {es[i] : i \in 1..n} \cup {x.value[es[i]] : i \in 1..n}

\* The strings of the elements es.
Words(x, n, es) == [i \in 1..n |-> x.text[x.value[es[i]]]]

Holds(x, n, ws) == \E es : Exact(x, n, es) /\ ws = Words(x, n, es)

\* The harness's list is right and nothing went wrong.
Neat(x) == HasList(x) /\ ~x.error

\* Only the blocks in use and the list of them matter to a neat memory.
LEMMA NeatKept ==
  ASSUME NEW x, NEW y, Neat(x), SameList(x, y), y.live = x.live
  PROVE  Neat(y)
BY ListKept DEF Neat, SameList

\* What qtest sees of a queue without mistakes.
LEMMA HoldsContents ==
  ASSUME NEW x \in GoodMemory, NEW n, NEW ws, Holds(x, n, ws)
  PROVE  /\ x.q # Null /\ x.q \in x.live /\ n \in Nat /\ x.sizeL = n
         /\ Contents(x) = ws /\ Len(Elements(x)) = n /\ Len(ws) = n /\ DOMAIN ws = 1..n
         /\ x.head = Null <=> n = 0
<1>1. PICK es : Exact(x, n, es) /\ ws = Words(x, n, es)
  BY DEF Holds
<1>2. Queue(x, n, es) /\ x.q \in x.live /\ x.live \subseteq Blocks
  BY <1>1 DEF Exact, Queue, GoodMemory, Memory
<1>3. x.q # Null
  BY <1>2, HeapAssumption
<1>4. Elements(x) = es /\ Len(es) = n /\ n \in Nat /\ es \in [1..n -> Blocks]
  BY <1>2, <1>3, ElementsFound
<1>5. DOMAIN es = 1..n
  BY <1>4
<1>6. Contents(x) = ws
  BY <1>1, <1>4, <1>5 DEF Contents, Words
<1>7. DOMAIN ws = 1..n /\ Len(ws) = n
  <2>1. ws = [i \in 1..n |-> x.text[x.value[es[i]]]]
    BY <1>1 DEF Words
  <2> QED
    BY <1>4, <2>1
<1>8. x.head = Null <=> n = 0
  <2>1. x.head = IF n = 0 THEN Null ELSE es[1]
    BY <1>2 DEF Queue, Path
  <2>2. n # 0 => es[1] \in Blocks
    BY <1>4
  <2> QED
    BY <2>1, <2>2, HeapAssumption
<1> QED
  BY <1>1, <1>2, <1>3, <1>4, <1>6, <1>7, <1>8 DEF Exact

\* Blocks that are not in use do not matter to it.
LEMMA ExactKept ==
  ASSUME NEW x, NEW n, NEW es, Exact(x, n, es),
         NEW y, y.q = x.q, y.head = x.head, y.tail = x.tail, y.sizeL = x.sizeL, y.live = x.live,
         \A b \in x.live : y.next[b] = x.next[b] /\ y.value[b] = x.value[b] /\ y.text[b] = x.text[b]
  PROVE  Exact(y, n, es) /\ Words(y, n, es) = Words(x, n, es)
<1>1. Queue(x, n, es)
  BY DEF Exact
<1>2. \A i \in 1..n : es[i] \in x.live /\ x.value[es[i]] \in x.live
  BY <1>1 DEF Queue
<1>3. \A i \in 1..n : /\ y.next[es[i]] = x.next[es[i]] /\ y.value[es[i]] = x.value[es[i]]
                      /\ y.text[y.value[es[i]]] = x.text[x.value[es[i]]]
  BY <1>2
<1>4. y.q \in y.live
  BY <1>1 DEF Queue
<1>5. Queue(y, n, es)
  BY <1>1, <1>2, <1>3, <1>4, QueueKept
<1>6. Words(y, n, es) = Words(x, n, es)
  BY <1>3 DEF Words
<1>7. {y.value[es[i]] : i \in 1..n} = {x.value[es[i]] : i \in 1..n}
  BY <1>3
<1> QED
  BY <1>5, <1>6, <1>7 DEF Exact

\* An insertion that fails leaves everything as it was.
LEMMA RefusedHolds ==
  ASSUME NEW x \in GoodMemory, x.q # Null, Neat(x), NEW n, NEW ws, Holds(x, n, ws),
         NEW r \in Refused(x)
  PROVE  Neat(Last(r.trace)) /\ Holds(Last(r.trace), n, ws) /\ r.ret = FALSE
                             /\ Last(r.trace).q = x.q
<1> DEFINE t == test_malloc(x)
           l == Last(t)
           b == Fresh(x)
           u == test_free(l, b, TRUE)
           y == Last(u)
<1>1. CASE r = Ran(<<x>>, FALSE)
  <2>1. r.trace = <<x>> /\ r.ret = FALSE /\ Last(<<x>>) = x
    BY <1>1 DEF Ran, Last
  <2> QED
    BY <2>1
<1>2. CASE ~Full(x) /\ r = Ran(t \o u, FALSE)
  <2>0. x \in Memory
    BY DEF GoodMemory
  <2>1. /\ t \in Trace(GoodMemory) /\ SameQueue(x, l) /\ l.live = x.live \cup {b}
        /\ b \in Blocks \ x.live /\ l \in Memory
    BY <1>2, MallocsGood
  <2>2. HasList(l) /\ ~l.error
    BY <1>2, <2>0, MallocListed DEF Neat
  <2> HIDE DEF t, b
  <2>3. l \in GoodMemory
    BY <2>1, TraceAt
  <2> HIDE DEF l
  <2>4. HasList(y) /\ y \in Memory /\ Without(l, b, y) /\ ~y.error
    BY <2>1, <2>2, FreeListed
  <2> HIDE DEF y
  <2>5. /\ y.q = x.q /\ y.head = x.head /\ y.tail = x.tail /\ y.sizeL = x.sizeL /\ y.live = x.live
        /\ y.next = [x.next EXCEPT ![b] = Null] /\ y.value = [x.value EXCEPT ![b] = Null]
        /\ y.text = [x.text EXCEPT ![b] = Null]
    <3>1. y.live = x.live
      BY <2>1, <2>4 DEF Without
    <3> QED
      BY <2>1, <2>4, <3>1 DEF Without, SameQueue
  <2> USE DEF y
  <2>6. \A c \in x.live : y.next[c] = x.next[c] /\ y.value[c] = x.value[c] /\ y.text[c] = x.text[c]
    <3>1. x.live \subseteq Blocks /\ x.next \in Link /\ x.value \in Link
          /\ x.text \in [Blocks -> Strings \cup {Null}]
      BY <2>0 DEF Memory
    <3> QED
      BY <2>1, <2>5, <3>1 DEF Link
  <2>7. u \in Trace(Memory)
    <3> DEFINE S == {z \in Memory : (SameQueue(l, z) /\ z.live = l.live) \/ Without(l, b, z)}
    <3>1. u \in Trace(S)
      BY <2>1, Frees
    <3>2. S \subseteq Memory
      OBVIOUS
    <3> HIDE DEF u, S
    <3> QED
      BY <3>1, <3>2, TraceSub
  <2>8. t \in Trace(Memory)
    <3>1. GoodMemory \subseteq Memory
      BY DEF GoodMemory
    <3> QED
      BY <2>1, <3>1, TraceSub
  <2>9. r.trace = t \o u /\ r.ret = FALSE
    BY <1>2 DEF Ran, t, u, l, b
  <2> HIDE DEF y
  <2>10. PICK es : Exact(x, n, es) /\ ws = Words(x, n, es)
    BY DEF Holds
  <2>11. Exact(y, n, es) /\ Words(y, n, es) = Words(x, n, es)
    <3>1. y.q = x.q /\ y.head = x.head /\ y.tail = x.tail /\ y.sizeL = x.sizeL /\ y.live = x.live
      BY <2>5
    <3>2. Exact(x, n, es)
      BY <2>10
    <3> QED
      BY <2>6, <3>1, <3>2, ExactKept
  <2>12. Last(r.trace) = y
    <3>1. u \in Trace(Memory) /\ t \in Trace(Memory) /\ Last(u) = y
      BY <2>7, <2>8 DEF y
    <3> HIDE DEF u
    <3> QED
      BY <2>9, <3>1, TraceJoin
  <2> QED
    BY <2>4, <2>5, <2>9, <2>10, <2>11, <2>12 DEF Neat, Holds
<1> QED
  BY <1>1, <1>2 DEF Refused

\* The two blocks of an insertion are on the list.
LEMMA AllocatedNeat ==
  ASSUME NEW x \in GoodMemory, x.q # Null, Neat(x), NEW s \in Strings, NEW r \in Allocated(x, s)
  PROVE  Neat(Last(r.trace))
<1> DEFINE t == test_malloc(x)
           l == Last(t)
           e == Fresh(x)
           w == test_malloc(l)
           k == Last(w)
           v == Fresh(l)
           y == [k EXCEPT !.text[v] = s, !.value[e] = v]
<1>0. x \in Memory
  BY DEF GoodMemory
<1>1. /\ Cardinality(x.live) + 2 <= Cardinality(Blocks)
      /\ r.trace = Append(t \o w, [Last(t \o w) EXCEPT !.text[v] = s, !.value[e] = v])
  <2>1. ~(Cardinality(x.live) + 2 > Cardinality(Blocks))
    BY DEF Allocated
  <2>2. Cardinality(x.live) \in Nat /\ Cardinality(Blocks) \in Nat
    BY HeapAssumption, FS_Subset, FS_CardinalityType DEF GoodMemory, Memory
  <2> QED
    BY <2>1, <2>2 DEF Allocated
<1>2. /\ t \in Trace(GoodMemory) /\ SameQueue(x, l) /\ l.live = x.live \cup {e}
      /\ l \in Memory /\ e \in Blocks \ x.live /\ ~Full(x)
  BY <1>0, <1>1, RoomForTwo, MallocsGood
<1>3. ~Full(l)
  BY <1>0, <1>1, <1>2, RoomForTwo DEF Full
<1>4. Neat(l)
  BY <1>0, <1>2, MallocListed DEF Neat
<1> HIDE DEF t, e
<1>5. l \in GoodMemory
  BY <1>2, TraceAt
<1> HIDE DEF l
<1>6. /\ w \in Trace(GoodMemory) /\ SameQueue(l, k) /\ k.live = l.live \cup {v}
      /\ k \in Memory /\ v \in Blocks \ l.live
  BY <1>3, <1>5, MallocsGood
<1>7. Neat(k)
  BY <1>2, <1>3, <1>4, MallocListed DEF Neat
<1> HIDE DEF w, v
<1>8. t \o w \in Trace(GoodMemory) /\ Last(t \o w) = k
  BY <1>2, <1>6, TraceJoin
<1> HIDE DEF k
<1>9. y \in Memory /\ SameList(k, y) /\ y.live = k.live
  BY <1>2, <1>6 DEF Memory, Link, SameList
<1>10. r.trace = Append(t \o w, y)
  BY <1>1, <1>8 DEF y
<1> HIDE DEF y
<1>11. t \o w \in Trace(Memory)
  <2>1. GoodMemory \subseteq Memory
    BY DEF GoodMemory
  <2> QED
    BY <1>8, <2>1, TraceSub
<1>12. Last(r.trace) = y
  BY <1>9, <1>10, <1>11, TraceAdd
<1> QED
  BY <1>7, <1>9, <1>12, NeatKept

\* A new element and its string bring two blocks and one word.
LEMMA NewWords ==
  ASSUME NEW x \in Memory, NEW y \in Memory, NEW n, NEW es, Queue(x, n, es),
         NEW e, NEW v, NEW s \in Strings, NewElement(x, y, e, v, s)
  PROVE  /\ \A i \in 1..n : y.text[y.value[es[i]]] = x.text[x.value[es[i]]]
         /\ \A i \in 1..n : y.value[es[i]] = x.value[es[i]]
         /\ y.value[e] = v /\ y.text[y.value[e]] = s
<1>1. \A i \in 1..n : es[i] \in x.live /\ x.value[es[i]] \in x.live /\ es[i] \in Blocks
  BY DEF Queue, Path
<1>2. /\ y.value = [x.value EXCEPT ![e] = v] /\ x.value \in Link
      /\ y.text = [x.text EXCEPT ![v] = s] /\ x.text \in [Blocks -> Strings \cup {Null}]
      /\ e \in Blocks /\ e \notin x.live /\ v \in Blocks /\ v \notin x.live
  BY DEF NewElement, Memory
<1>3. \A i \in 1..n : y.value[es[i]] = x.value[es[i]]
  BY <1>1, <1>2 DEF Link
<1>4. x.live \subseteq Blocks
  BY DEF Memory
<1>5. \A i \in 1..n : y.text[y.value[es[i]]] = x.text[x.value[es[i]]]
  BY <1>1, <1>2, <1>3, <1>4
<1>6. y.value[e] = v /\ y.text[v] = s
  BY <1>2 DEF Link
<1> QED
  BY <1>3, <1>5, <1>6

\* The fields after the last assignment of an insertion at the head.
LEMMA HeadFields ==
  ASSUME NEW t \in Trace(Memory), NEW e \in Blocks
  PROVE  LET y == Last(t)
             z == Last(head_inserted(t, e))
         IN  /\ SameList(y, z) /\ z.live = y.live /\ z.q = y.q
             /\ z.value = y.value /\ z.text = y.text /\ z.sizeL = y.sizeL + 1
             /\ z.tail = IF y.tail = Null THEN e ELSE y.tail
<1> DEFINE y == Last(t)
           entered == [y EXCEPT !.next[e] = y.head, !.head = e]
           counted == [entered EXCEPT !.sizeL = @ + 1]
           z == IF y.tail = Null THEN [counted EXCEPT !.tail = e] ELSE counted
           u == <<entered, counted, z>>
<1>1. y \in Memory
  BY TraceAt
<1>2. head_inserted(t, e) = t \o u
  BY DEF head_inserted
<1> HIDE DEF y
<1>3. /\ entered \in Memory /\ SameList(y, entered) /\ entered.live = y.live /\ entered.q = y.q
      /\ entered.value = y.value /\ entered.text = y.text /\ entered.sizeL = y.sizeL
      /\ entered.tail = y.tail
  BY <1>1 DEF Memory, Link, SameList
<1> HIDE DEF entered
<1>4. /\ counted \in Memory /\ SameList(entered, counted) /\ counted.live = entered.live
      /\ counted.q = entered.q /\ counted.value = entered.value /\ counted.text = entered.text
      /\ counted.sizeL = entered.sizeL + 1 /\ counted.tail = entered.tail
  BY <1>3 DEF Memory, SameList
<1> HIDE DEF counted
<1>5. /\ z \in Memory /\ SameList(counted, z) /\ z.live = counted.live
      /\ z.q = counted.q /\ z.value = counted.value /\ z.text = counted.text
      /\ z.sizeL = counted.sizeL /\ z.tail = IF y.tail = Null THEN e ELSE counted.tail
  BY <1>4 DEF Memory, SameList
<1> HIDE DEF z
<1>6. u \in Trace(Memory) /\ Last(u) = z
  BY <1>3, <1>4, <1>5, TraceOf3
<1> HIDE DEF u
<1>7. Last(t \o u) = z
  BY <1>6, TraceJoin
<1>8. SameList(y, z)
  BY <1>3, <1>4, <1>5 DEF SameList
<1>9. Last(head_inserted(t, e)) = z
  BY <1>2, <1>7
<1>10. /\ z.live = y.live /\ z.q = y.q
       /\ z.value = y.value /\ z.text = y.text /\ z.sizeL = y.sizeL + 1
       /\ z.tail = IF y.tail = Null THEN e ELSE y.tail
  BY <1>3, <1>4, <1>5
<1> QED
  BY <1>8, <1>9, <1>10 DEF y

\* The same at the tail.
LEMMA TailFields ==
  ASSUME NEW t \in Trace(Memory), NEW e \in Blocks
  PROVE  LET y == Last(t)
             z == Last(tail_inserted(t, e))
         IN  /\ SameList(y, z) /\ z.live = y.live /\ z.q = y.q
             /\ z.value = y.value /\ z.text = y.text /\ z.sizeL = y.sizeL + 1
             /\ z.tail = e
<1> DEFINE y == Last(t)
           entered == IF y.tail = Null THEN [y EXCEPT !.next[e] = Null, !.head = e]
                      ELSE [y EXCEPT !.next[e] = Null, !.next[y.tail] = e]
           moved == [entered EXCEPT !.tail = e]
           z == [moved EXCEPT !.sizeL = @ + 1]
           u == <<entered, moved, z>>
<1>1. y \in Memory
  BY TraceAt
<1>2. tail_inserted(t, e) = t \o u
  BY DEF tail_inserted
<1> HIDE DEF y
<1>3. /\ entered \in Memory /\ SameList(y, entered) /\ entered.live = y.live /\ entered.q = y.q
      /\ entered.value = y.value /\ entered.text = y.text /\ entered.sizeL = y.sizeL
  BY <1>1 DEF Memory, Link, SameList
<1> HIDE DEF entered
<1>4. /\ moved \in Memory /\ SameList(entered, moved) /\ moved.live = entered.live
      /\ moved.q = entered.q /\ moved.value = entered.value /\ moved.text = entered.text
      /\ moved.sizeL = entered.sizeL /\ moved.tail = e
  BY <1>3 DEF Memory, SameList
<1> HIDE DEF moved
<1>5. /\ z \in Memory /\ SameList(moved, z) /\ z.live = moved.live
      /\ z.q = moved.q /\ z.value = moved.value /\ z.text = moved.text
      /\ z.sizeL = moved.sizeL + 1 /\ z.tail = e
  BY <1>4 DEF Memory, SameList
<1> HIDE DEF z
<1>6. u \in Trace(Memory) /\ Last(u) = z
  BY <1>3, <1>4, <1>5, TraceOf3
<1> HIDE DEF u
<1>7. Last(t \o u) = z
  BY <1>6, TraceJoin
<1>8. SameList(y, z)
  BY <1>3, <1>4, <1>5 DEF SameList
<1>9. Last(tail_inserted(t, e)) = z
  BY <1>2, <1>7
<1>10. /\ z.live = y.live /\ z.q = y.q
       /\ z.value = y.value /\ z.text = y.text /\ z.sizeL = y.sizeL + 1
       /\ z.tail = e
  BY <1>3, <1>4, <1>5
<1> QED
  BY <1>8, <1>9, <1>10 DEF y

\* q_insert_head puts the string before the others.
LEMMA HeadHolds ==
  ASSUME NEW x \in GoodMemory, x.q # Null, Neat(x), NEW n, NEW ws, Holds(x, n, ws),
         NEW s \in Strings, NEW r \in Allocated(x, s)
  PROVE  LET z == Last(head_inserted(r.trace, r.ret))
         IN  Neat(z) /\ Holds(z, n + 1, <<s>> \o ws) /\ z.q = x.q
<1> DEFINE y == Last(r.trace)
           e == r.ret
           z == Last(head_inserted(r.trace, r.ret))
<1>1. /\ r.trace \in Trace(GoodMemory)
      /\ \E v : NewElement(x, y, e, v, s)
      /\ Neat(y)
  BY AllocatedGood, AllocatedNeat
<1>2. PICK v : NewElement(x, y, e, v, s)
  BY <1>1
<1>3. PICK es : Exact(x, n, es) /\ ws = Words(x, n, es)
  BY DEF Holds
<1> DEFINE fs == Pushed(e, n, es)
<1>4. Queue(z, n + 1, fs) /\ Queue(x, n, es)
  BY <1>3, HeadInserted DEF Exact
<1>5. r.trace \in Trace(Memory) /\ y \in Memory /\ x \in Memory
  <2>1. GoodMemory \subseteq Memory
    BY DEF GoodMemory
  <2>2. r.trace \in Trace(Memory)
    BY <1>1, <2>1, TraceSub
  <2> QED
    BY <2>1, <2>2, TraceAt
<1>6. e \in Blocks
  BY <1>2 DEF NewElement
<1>7. /\ SameList(y, z) /\ z.live = y.live /\ z.q = y.q
      /\ z.value = y.value /\ z.text = y.text /\ z.sizeL = y.sizeL + 1
      /\ z.tail = IF y.tail = Null THEN e ELSE y.tail
  BY <1>5, <1>6, HeadFields
<1> HIDE DEF y, z, e
<1>8. /\ \A i \in 1..n : y.text[y.value[es[i]]] = x.text[x.value[es[i]]]
      /\ \A i \in 1..n : y.value[es[i]] = x.value[es[i]]
      /\ y.value[e] = v /\ y.text[y.value[e]] = s
  BY <1>2, <1>4, <1>5, NewWords
<1>9. n \in Nat /\ es \in [1..n -> Blocks]
  BY <1>4 DEF Queue, Path
<1>10. /\ fs[1] = e /\ \A i \in 1..n : fs[i+1] = es[i] /\ i + 1 \in 1..n+1
       /\ \A i \in 1..n+1 : i = 1 \/ (i - 1 \in 1..n /\ fs[i] = es[i-1])
       /\ 1 \in 1..n+1
  BY <1>9, PushFacts
<1> HIDE DEF fs
<1>11. z.tail = fs[n+1] /\ n + 1 # 0
  <2>1. y.tail = x.tail /\ x.tail = IF n = 0 THEN Null ELSE es[n]
    BY <1>2, <1>3 DEF NewElement, Exact
  <2>2. CASE n = 0
    BY <1>7, <1>10, <2>1, <2>2
  <2>3. CASE n # 0
    <3>1. n \in 1..n /\ es[n] \in Blocks
      BY <1>9, <2>3
    <3> QED
      BY <1>7, <1>10, <2>1, <2>3, <3>1, HeapAssumption
  <2> QED
    BY <1>9, <2>2, <2>3
<1>12. z.sizeL = n + 1
  BY <1>2, <1>3, <1>7 DEF NewElement, Exact
<1>13. z.live = {z.q} \cup {fs[i] : i \in 1..n+1} \cup {z.value[fs[i]] : i \in 1..n+1}
  <2>1. z.live = x.live \cup {e, v} /\ z.q = x.q
    BY <1>2, <1>7 DEF NewElement
  <2>2. x.live = {x.q} \cup {es[i] : i \in 1..n} \cup {x.value[es[i]] : i \in 1..n}
    BY <1>3 DEF Exact
  <2>3. {fs[i] : i \in 1..n+1} = {es[i] : i \in 1..n} \cup {e}
    BY <1>10
  <2>4. {z.value[fs[i]] : i \in 1..n+1} = {x.value[es[i]] : i \in 1..n} \cup {v}
    <3>1. \A i \in 1..n+1 : \/ z.value[fs[i]] = v
                            \/ i - 1 \in 1..n /\ z.value[fs[i]] = x.value[es[i-1]]
      BY <1>7, <1>8, <1>10
    <3>2. z.value[fs[1]] = v /\ \A i \in 1..n : z.value[fs[i+1]] = x.value[es[i]] /\ i + 1 \in 1..n+1
      BY <1>7, <1>8, <1>10
    <3> QED
      BY <1>10, <3>1, <3>2
  <2> QED
    BY <2>1, <2>2, <2>3, <2>4
<1>14. <<s>> \o ws = Words(z, n + 1, fs)
  <2>1. ws = [i \in 1..n |-> x.text[x.value[es[i]]]]
    BY <1>3 DEF Words
  <2>2. \A i \in 1..n : x.text[x.value[es[i]]] \in Strings \cup {Null}
    <3>1. \A i \in 1..n : x.value[es[i]] \in Blocks
      BY <1>4, <1>5 DEF Queue, Memory
    <3> QED
      BY <1>5, <3>1 DEF Memory
  <2>3. ws \in Seq(Strings \cup {Null}) /\ Len(ws) = n
    BY <1>9, <2>1, <2>2
  <2>4. /\ Len(<<s>> \o ws) = n + 1 /\ <<s>> \o ws \in Seq(Strings \cup {Null})
        /\ \A i \in 1..n+1 : (<<s>> \o ws)[i] = IF i = 1 THEN s ELSE ws[i-1]
    BY <2>3
  <2>5. ASSUME NEW i \in 1..n+1
        PROVE  (<<s>> \o ws)[i] = z.text[z.value[fs[i]]]
    <3>1. CASE i = 1
      BY <1>7, <1>8, <1>10, <2>4, <3>1
    <3>2. CASE i # 1
      <4>1. i - 1 \in 1..n /\ fs[i] = es[i-1]
        BY <1>10, <3>2
      <4>2. (<<s>> \o ws)[i] = ws[i-1]
        BY <2>4, <3>2
      <4>3. ws[i-1] = x.text[x.value[es[i-1]]]
        BY <2>1, <4>1
      <4> QED
        BY <1>7, <1>8, <4>1, <4>2, <4>3
    <3> QED
      BY <3>1, <3>2
  <2> DEFINE vs == <<s>> \o ws
  <2>6. vs = [i \in 1..n+1 |-> vs[i]]
    BY <1>9, <2>4
  <2>7. \A i \in 1..n+1 : vs[i] = z.text[z.value[fs[i]]]
    BY <2>5
  <2> HIDE DEF vs
  <2>8. vs = [i \in 1..n+1 |-> z.text[z.value[fs[i]]]]
    BY <2>6, <2>7
  <2> QED
    BY <2>8 DEF Words, vs
<1>15. Exact(z, n + 1, fs)
  BY <1>4, <1>11, <1>12, <1>13 DEF Exact, fs
<1>16. Neat(z)
  BY <1>1, <1>7, NeatKept
<1>17. z.q = x.q
  BY <1>2, <1>7 DEF NewElement
<1> QED
  BY <1>14, <1>15, <1>16, <1>17 DEF Holds, z

\* q_insert_tail puts it behind the others.
LEMMA TailHolds ==
  ASSUME NEW x \in GoodMemory, x.q # Null, Neat(x), NEW n, NEW ws, Holds(x, n, ws),
         NEW s \in Strings, NEW r \in Allocated(x, s)
  PROVE  LET z == Last(tail_inserted(r.trace, r.ret))
         IN  Neat(z) /\ Holds(z, n + 1, Append(ws, s)) /\ z.q = x.q
<1> DEFINE y == Last(r.trace)
           e == r.ret
           z == Last(tail_inserted(r.trace, r.ret))
<1>1. /\ r.trace \in Trace(GoodMemory)
      /\ \E v : NewElement(x, y, e, v, s)
      /\ Neat(y)
  BY AllocatedGood, AllocatedNeat
<1>2. PICK v : NewElement(x, y, e, v, s)
  BY <1>1
<1>3. PICK es : Exact(x, n, es) /\ ws = Words(x, n, es)
  BY DEF Holds
<1> DEFINE fs == Ended(e, n, es)
<1>4. n \in Nat /\ es \in [1..n -> Blocks] /\ Queue(x, n, es) /\ x.tail = IF n = 0 THEN Null ELSE es[n]
  BY <1>3 DEF Exact, Queue, Path
<1>10. /\ fs[n+1] = e /\ \A i \in 1..n : fs[i] = es[i] /\ i \in 1..n+1
       /\ \A i \in 1..n+1 : i = n + 1 \/ (i \in 1..n /\ fs[i] = es[i])
       /\ n + 1 \in 1..n+1
  BY <1>4 DEF Ended
<1>18. Queue(z, n + 1, fs)
  <2>1. CASE n = 0
    <3>1. Queue(z, 1, <<r.ret>>)
      BY <1>4, <2>1, TailInserted
    <3>2. fs = <<r.ret>>
      BY <2>1 DEF Ended
    <3> QED
      BY <2>1, <3>1, <3>2
  <2>2. CASE n # 0
    <3>1. n \in 1..n /\ x.tail = es[n]
      BY <1>4, <2>2
    <3> HIDE DEF z
    <3> QED
      BY <1>4, <3>1, TailInserted DEF z
  <2> QED
    BY <2>1, <2>2
<1>5. r.trace \in Trace(Memory) /\ y \in Memory /\ x \in Memory
  <2>1. GoodMemory \subseteq Memory
    BY DEF GoodMemory
  <2>2. r.trace \in Trace(Memory)
    BY <1>1, <2>1, TraceSub
  <2> QED
    BY <2>1, <2>2, TraceAt
<1>6. e \in Blocks
  BY <1>2 DEF NewElement
<1>7. /\ SameList(y, z) /\ z.live = y.live /\ z.q = y.q
      /\ z.value = y.value /\ z.text = y.text /\ z.sizeL = y.sizeL + 1
      /\ z.tail = e
  BY <1>5, <1>6, TailFields
<1> HIDE DEF y, z, e, fs
<1>8. /\ \A i \in 1..n : y.text[y.value[es[i]]] = x.text[x.value[es[i]]]
      /\ \A i \in 1..n : y.value[es[i]] = x.value[es[i]]
      /\ y.value[e] = v /\ y.text[y.value[e]] = s
  BY <1>2, <1>4, <1>5, NewWords
<1>11. z.tail = fs[n+1] /\ n + 1 # 0
  BY <1>4, <1>7, <1>10
<1>12. z.sizeL = n + 1
  BY <1>2, <1>3, <1>7 DEF NewElement, Exact
<1>13. z.live = {z.q} \cup {fs[i] : i \in 1..n+1} \cup {z.value[fs[i]] : i \in 1..n+1}
  <2>1. z.live = x.live \cup {e, v} /\ z.q = x.q
    BY <1>2, <1>7 DEF NewElement
  <2>2. x.live = {x.q} \cup {es[i] : i \in 1..n} \cup {x.value[es[i]] : i \in 1..n}
    BY <1>3 DEF Exact
  <2>3. {fs[i] : i \in 1..n+1} = {es[i] : i \in 1..n} \cup {e}
    BY <1>10
  <2>4. {z.value[fs[i]] : i \in 1..n+1} = {x.value[es[i]] : i \in 1..n} \cup {v}
    <3>1. \A i \in 1..n+1 : \/ z.value[fs[i]] = v
                            \/ i \in 1..n /\ z.value[fs[i]] = x.value[es[i]]
      BY <1>7, <1>8, <1>10
    <3>2. z.value[fs[n+1]] = v /\ \A i \in 1..n : z.value[fs[i]] = x.value[es[i]] /\ i \in 1..n+1
      BY <1>7, <1>8, <1>10
    <3> QED
      BY <1>10, <3>1, <3>2
  <2> QED
    BY <2>1, <2>2, <2>3, <2>4
<1>14. Append(ws, s) = Words(z, n + 1, fs)
  <2>1. ws = [i \in 1..n |-> x.text[x.value[es[i]]]]
    BY <1>3 DEF Words
  <2>2. \A i \in 1..n : x.text[x.value[es[i]]] \in Strings \cup {Null}
    <3>1. \A i \in 1..n : x.value[es[i]] \in Blocks
      BY <1>4, <1>5 DEF Queue, Memory
    <3> QED
      BY <1>5, <3>1 DEF Memory
  <2>3. ws \in Seq(Strings \cup {Null}) /\ Len(ws) = n
    BY <1>4, <2>1, <2>2
  <2> DEFINE vs == Append(ws, s)
  <2>4. /\ Len(vs) = n + 1 /\ vs \in Seq(Strings \cup {Null})
        /\ \A i \in 1..n : vs[i] = ws[i]
        /\ vs[n+1] = s
    BY <2>3
  <2> HIDE DEF vs
  <2>5. ASSUME NEW i \in 1..n+1
        PROVE  vs[i] = z.text[z.value[fs[i]]]
    <3>1. CASE i = n + 1
      BY <1>7, <1>8, <1>10, <2>4, <3>1
    <3>2. CASE i # n + 1
      <4>1. i \in 1..n /\ fs[i] = es[i]
        BY <1>10, <3>2
      <4>2. vs[i] = ws[i] /\ ws[i] = x.text[x.value[es[i]]]
        BY <2>1, <2>4, <4>1
      <4> QED
        BY <1>7, <1>8, <4>1, <4>2
    <3> QED
      BY <3>1, <3>2
  <2>6. vs = [i \in 1..n+1 |-> vs[i]]
    BY <1>4, <2>4
  <2>8. vs = [i \in 1..n+1 |-> z.text[z.value[fs[i]]]]
    BY <2>5, <2>6
  <2> QED
    BY <2>8 DEF Words, vs
<1>15. Exact(z, n + 1, fs)
  BY <1>11, <1>12, <1>13, <1>18 DEF Exact
<1>16. Neat(z)
  BY <1>1, <1>7, NeatKept
<1>17. z.q = x.q
  BY <1>2, <1>7 DEF NewElement
<1> QED
  BY <1>14, <1>15, <1>16, <1>17 DEF Holds, z

\* A run of test_free goes through memories.
LEMMA FreeTrace ==
  ASSUME NEW x \in Memory, NEW b \in Blocks, NEW cautious
  PROVE  test_free(x, b, cautious) \in Trace(Memory)
<1> DEFINE u == test_free(x, b, cautious)
           S == {z \in Memory : (SameQueue(x, z) /\ z.live = x.live) \/ Without(x, b, z)}
<1>1. u \in Trace(S)
  BY Frees
<1>2. S \subseteq Memory
  OBVIOUS
<1> HIDE DEF u, S
<1>3. u \in Trace(Memory)
  BY <1>1, <1>2, TraceSub
<1> QED
  BY <1>3 DEF u

\* The memory at the end of q_remove_head.
LEMMA RemoveFields ==
  ASSUME NEW x \in GoodMemory, x.q # Null, Neat(x), NEW n, NEW es, Exact(x, n, es), n # 0,
         NEW r \in q_remove_head(x)
  PROVE  LET h == x.head
             b == x.value[h]
             y == Last(r.trace)
         IN  /\ r.ret = TRUE /\ Neat(y) /\ y.q = x.q /\ y.sizeL = x.sizeL - 1
             /\ y.live = (x.live \ {b}) \ {h}
             /\ y.tail = IF h = x.tail THEN x.next[h] ELSE x.tail
             /\ y.value = [[x.value EXCEPT ![b] = Null] EXCEPT ![h] = Null]
             /\ y.text = [[x.text EXCEPT ![b] = Null] EXCEPT ![h] = Null]
<1> DEFINE h == x.head
           b == x.value[h]
           trimmed == IF h = x.tail THEN [x EXCEPT !.tail = x.next[h]] ELSE x
           unlinked == [trimmed EXCEPT !.head = x.next[h]]
           counted == [unlinked EXCEPT !.sizeL = @ - 1]
           t == test_free(counted, b, TRUE)
           l == Last(t)
           u == test_free(l, h, TRUE)
           y == Last(u)
           a == <<x, trimmed, unlinked>>
<1>0. x \in Memory /\ Queue(x, n, es)
  BY DEF GoodMemory, Exact
<1>1. n \in Nat /\ 1 \in 1..n /\ h = es[1] /\ h \in Blocks
  BY <1>0 DEF Queue, Path
<1>2. h \in x.live /\ b \in x.live /\ b # h /\ b \in Blocks
  BY <1>0, <1>1 DEF Queue, Memory
<1>3. r = Ran((a \o t) \o u, TRUE)
  <2>1. x.head # Null
    BY <1>1, HeapAssumption
  <2> QED
    BY <2>1, Zenon DEF q_remove_head
<1>4. r.trace = (a \o t) \o u /\ r.ret = TRUE
  <2> HIDE DEF a, t, u
  <2> QED
    BY <1>3 DEF Ran
<1>5. x.next[h] \in Blocks \cup {Null}
  BY <1>0, <1>1 DEF Memory, Link
<1> HIDE DEF h, b
<1>6. /\ trimmed \in Memory /\ SameList(x, trimmed) /\ trimmed.live = x.live /\ trimmed.q = x.q
      /\ trimmed.value = x.value /\ trimmed.text = x.text /\ trimmed.sizeL = x.sizeL
      /\ trimmed.tail = IF h = x.tail THEN x.next[h] ELSE x.tail
  BY <1>0, <1>5 DEF Memory, SameList
<1> HIDE DEF trimmed
<1>7. /\ unlinked \in Memory /\ SameList(trimmed, unlinked) /\ unlinked.live = trimmed.live
      /\ unlinked.q = trimmed.q /\ unlinked.value = trimmed.value /\ unlinked.text = trimmed.text
      /\ unlinked.sizeL = trimmed.sizeL /\ unlinked.tail = trimmed.tail
  BY <1>5, <1>6 DEF Memory, SameList
<1> HIDE DEF unlinked
<1>8. /\ counted \in Memory /\ SameList(unlinked, counted) /\ counted.live = unlinked.live
      /\ counted.q = unlinked.q /\ counted.value = unlinked.value /\ counted.text = unlinked.text
      /\ counted.sizeL = unlinked.sizeL - 1 /\ counted.tail = unlinked.tail
  BY <1>7 DEF Memory, SameList
<1> HIDE DEF counted
<1>9. Neat(counted) /\ counted.live = x.live
  <2>1. SameList(x, counted) /\ counted.live = x.live
    BY <1>6, <1>7, <1>8 DEF SameList
  <2> QED
    BY <2>1, NeatKept
<1>10. HasList(l) /\ l \in Memory /\ Without(counted, b, l) /\ ~l.error
  BY <1>2, <1>8, <1>9, FreeListed DEF Neat
<1>11. t \in Trace(Memory)
  BY <1>2, <1>8, FreeTrace
<1> HIDE DEF l
<1>12. h \in l.live
  BY <1>2, <1>9, <1>10 DEF Without
<1>13. HasList(y) /\ y \in Memory /\ Without(l, h, y) /\ ~y.error
  BY <1>10, <1>12, FreeListed
<1>14. u \in Trace(Memory)
  BY <1>1, <1>10, FreeTrace
<1>15. a \in Trace(Memory)
  BY <1>0, <1>6, <1>7, TraceOf3
<1> HIDE DEF a, t, u
<1>16. Last(r.trace) = y
  <2>1. a \o t \in Trace(Memory)
    BY <1>11, <1>15, TraceJoin
  <2> QED
    BY <1>4, <1>14, <2>1, TraceJoin
<1> HIDE DEF y
<1>17. /\ y.live = (x.live \ {b}) \ {h} /\ y.q = x.q /\ y.sizeL = x.sizeL - 1
       /\ y.tail = trimmed.tail
  BY <1>6, <1>7, <1>8, <1>9, <1>10, <1>13 DEF Without
<1>18. /\ y.value = [[x.value EXCEPT ![b] = Null] EXCEPT ![h] = Null]
       /\ y.text = [[x.text EXCEPT ![b] = Null] EXCEPT ![h] = Null]
  <2>1. counted.value = x.value /\ counted.text = x.text
    BY <1>6, <1>7, <1>8
  <2>2. l.value = [x.value EXCEPT ![b] = Null] /\ l.text = [x.text EXCEPT ![b] = Null]
    BY <1>10, <2>1 DEF Without
  <2> QED
    BY <1>13, <2>2 DEF Without
<1>19. Neat(y)
  BY <1>13 DEF Neat
<1> QED
  BY <1>4, <1>6, <1>16, <1>17, <1>18, <1>19 DEF h, b

\* q_remove_head takes the first string away, or fails on an empty queue.
LEMMA RemoveHolds ==
  ASSUME NEW x \in GoodMemory, x.q # Null, Neat(x), NEW n, NEW ws, Holds(x, n, ws),
         NEW r \in q_remove_head(x)
  PROVE  LET y == Last(r.trace)
         IN  IF n = 0 THEN y = x /\ r.ret = FALSE
             ELSE /\ Neat(y) /\ Holds(y, n - 1, Tail(ws)) /\ y.q = x.q /\ r.ret = TRUE
                  /\ x.text[x.value[x.head]] = Head(ws)
<1>1. PICK es : Exact(x, n, es) /\ ws = Words(x, n, es)
  BY DEF Holds
<1>2. Queue(x, n, es) /\ n \in Nat /\ es \in [1..n -> Blocks] /\ x \in Memory
  BY <1>1 DEF Exact, Queue, Path, GoodMemory
<1>3. CASE n = 0
  <2>1. x.head = Null
    BY <1>2, <1>3 DEF Queue, Path
  <2>2. q_remove_head(x) = {Ran(<<x>>, FALSE)}
    BY <2>1, Zenon DEF q_remove_head
  <2>3. r.trace = <<x>> /\ r.ret = FALSE
    BY <2>2 DEF Ran
  <2>4. Last(<<x>>) = x
    BY DEF Last
  <2> QED
    BY <1>3, <2>3, <2>4
<1>4. CASE n # 0
  <2> DEFINE h == x.head
             b == x.value[h]
             y == Last(r.trace)
             fs == Popped(n, es)
  <2>1. /\ r.ret = TRUE /\ Neat(y) /\ y.q = x.q /\ y.sizeL = x.sizeL - 1
        /\ y.live = (x.live \ {b}) \ {h}
        /\ y.tail = IF h = x.tail THEN x.next[h] ELSE x.tail
        /\ y.value = [[x.value EXCEPT ![b] = Null] EXCEPT ![h] = Null]
        /\ y.text = [[x.text EXCEPT ![b] = Null] EXCEPT ![h] = Null]
    BY <1>1, <1>4, RemoveFields
  <2>2. Queue(y, n - 1, fs)
    BY <1>2, <1>4, RemoveGood
  <2>3. \A i \in 1..n-1 : /\ fs[i] # h /\ fs[i] # b /\ x.value[fs[i]] # h /\ x.value[fs[i]] # b
    BY <1>2, <1>4, PopApart
  <2>4. 1 \in 1..n /\ h = es[1] /\ h \in Blocks
    BY <1>2, <1>4 DEF Queue, Path
  <2>5. b \in Blocks /\ b # x.q /\ h # x.q
    BY <1>2, <2>4 DEF Queue, Memory
  <2>6. \A i \in 1..n-1 : fs[i] = es[i+1] /\ i + 1 \in 1..n /\ fs[i] \in Blocks /\ x.value[fs[i]] \in Blocks
    <3>1. \A i \in 1..n-1 : fs[i] = es[i+1] /\ i + 1 \in 1..n
      BY <1>2 DEF Popped
    <3>2. \A i \in 1..n : es[i] \in Blocks /\ x.value[es[i]] \in Blocks
      BY <1>2 DEF Queue, Memory
    <3> QED
      BY <3>1, <3>2
  <2> HIDE DEF y, fs
  <2>7. x.value \in Link /\ x.text \in [Blocks -> Strings \cup {Null}]
    BY <1>2 DEF Memory
  <2>8. \A i \in 1..n-1 : y.value[fs[i]] = x.value[fs[i]]
    BY <2>1, <2>3, <2>4, <2>5, <2>6, <2>7 DEF Link
  <2>9. \A i \in 1..n-1 : y.text[y.value[fs[i]]] = x.text[x.value[fs[i]]]
    BY <2>1, <2>3, <2>4, <2>5, <2>6, <2>7, <2>8
  <2>10. y.tail = IF n - 1 = 0 THEN Null ELSE fs[n-1]
    <3>1. x.tail = es[n] /\ n \in 1..n
      BY <1>1, <1>2, <1>4 DEF Exact
    <3>2. CASE n = 1
      <4>1. x.next[h] = Null
        BY <1>2, <2>4, <3>2 DEF Queue, Path
      <4> QED
        BY <2>1, <2>4, <3>1, <3>2, <4>1
    <3>3. CASE n # 1
      <4>1. n - 1 \in 1..n-1 /\ (n - 1) + 1 = n /\ n - 1 # 0
        BY <1>2, <1>4, <3>3
      <4>2. fs[n-1] = es[n] /\ fs[n-1] # h
        BY <2>3, <2>6, <4>1
      <4> QED
        BY <2>1, <3>1, <4>1, <4>2
    <3> QED
      BY <3>2, <3>3
  <2>11. y.sizeL = n - 1
    BY <1>1, <2>1 DEF Exact
  <2>12. y.live = {y.q} \cup {fs[i] : i \in 1..n-1} \cup {y.value[fs[i]] : i \in 1..n-1}
    <3>1. x.live = {x.q} \cup {es[i] : i \in 1..n} \cup {x.value[es[i]] : i \in 1..n}
      BY <1>1 DEF Exact
    <3>2. \A i \in 1..n : i # 1 => i - 1 \in 1..n-1 /\ fs[i-1] = es[i]
      <4>1. \A i \in 1..n : i # 1 => i - 1 \in 1..n-1 /\ (i - 1) + 1 = i
        BY <1>2
      <4> QED
        BY <2>6, <4>1
    <3>3. {es[i] : i \in 1..n} = {fs[i] : i \in 1..n-1} \cup {h}
      BY <2>4, <2>6, <3>2
    <3>4. {x.value[es[i]] : i \in 1..n} = {y.value[fs[i]] : i \in 1..n-1} \cup {b}
      <4>1. \A i \in 1..n : \/ x.value[es[i]] = b
                            \/ i - 1 \in 1..n-1 /\ x.value[es[i]] = y.value[fs[i-1]]
        BY <2>4, <2>8, <3>2
      <4>2. \A i \in 1..n-1 : i + 1 \in 1..n /\ y.value[fs[i]] = x.value[es[i+1]]
        BY <2>6, <2>8
      <4> QED
        BY <2>4, <4>1, <4>2
    <3>5. \A i \in 1..n-1 : /\ fs[i] # h /\ fs[i] # b /\ y.value[fs[i]] # h /\ y.value[fs[i]] # b
      BY <2>3, <2>8
    <3> DEFINE A == {fs[i] : i \in 1..n-1}
               B == {y.value[fs[i]] : i \in 1..n-1}
    <3>6. h \notin A /\ b \notin A /\ h \notin B /\ b \notin B
      BY <3>5
    <3>7. x.live = {x.q} \cup (A \cup {h}) \cup (B \cup {b})
      BY <3>1, <3>3, <3>4
    <3>8. y.live = (x.live \ {b}) \ {h} /\ y.q = x.q
      BY <2>1
    <3> HIDE DEF A, B, h, b
    <3>9. y.live = {y.q} \cup A \cup B
      BY <2>5, <3>6, <3>7, <3>8
    <3> QED
      BY <3>9 DEF A, B
  <2>13. ws = [i \in 1..n |-> x.text[x.value[es[i]]]]
    BY <1>1 DEF Words
  <2>14. ws \in Seq(Strings \cup {Null}) /\ Len(ws) = n
    <3>1. \A i \in 1..n : x.value[es[i]] \in Blocks
      BY <1>2 DEF Queue, Memory
    <3>2. \A i \in 1..n : x.text[x.value[es[i]]] \in Strings \cup {Null}
      BY <2>7, <3>1
    <3> QED
      BY <1>2, <2>13, <3>2
  <2>15. Head(ws) = x.text[x.value[x.head]]
    <3>1. Head(ws) = ws[1]
      BY <1>4, <2>14
    <3> QED
      BY <2>4, <2>13, <3>1
  <2>16. Tail(ws) = Words(y, n - 1, fs)
    <3> DEFINE vs == Tail(ws)
    <3>1. vs \in Seq(Strings \cup {Null}) /\ Len(vs) = n - 1 /\ \A i \in 1..n-1 : vs[i] = ws[i+1]
      <4>1. ws # <<>>
        BY <1>4, <2>14
      <4> QED
        BY <2>14, <4>1
    <3> HIDE DEF vs
    <3>2. vs = [i \in 1..n-1 |-> vs[i]]
      BY <3>1
    <3>3. \A i \in 1..n-1 : vs[i] = y.text[y.value[fs[i]]]
      BY <2>6, <2>9, <2>13, <3>1
    <3>4. vs = [i \in 1..n-1 |-> y.text[y.value[fs[i]]]]
      BY <3>2, <3>3
    <3> QED
      BY <3>4 DEF vs, Words
  <2>17. Exact(y, n - 1, fs)
    BY <2>2, <2>10, <2>11, <2>12 DEF Exact
  <2> QED
    BY <1>4, <2>1, <2>15, <2>16, <2>17 DEF y, Holds
<1> QED
  BY <1>3, <1>4

\* q_reverse turns the order of the strings.
LEMMA ReverseHolds ==
  ASSUME NEW x \in GoodMemory, x.q # Null, Neat(x), NEW n, NEW ws, Holds(x, n, ws),
         NEW r \in q_reverse(x)
  PROVE  LET y == Last(r.trace)
         IN  Neat(y) /\ Holds(y, n, [i \in 1..n |-> ws[n + 1 - i]]) /\ y.q = x.q
<1> DEFINE y == Last(r.trace)
<1>1. PICK es : Exact(x, n, es) /\ ws = Words(x, n, es)
  BY DEF Holds
<1>2. Queue(x, n, es) /\ n \in Nat /\ es \in [1..n -> Blocks] /\ x \in Memory
  BY <1>1 DEF Exact, Queue, Path, GoodMemory
<1>3. ws = [i \in 1..n |-> x.text[x.value[es[i]]]]
  BY <1>1 DEF Words
<1>4. /\ Queue(y, n, Reversed(n, es))
      /\ IF n = 0 THEN y = x ELSE SameStrings(x, y)
  BY <1>2, ReverseGood
<1> HIDE DEF y
<1>5. CASE n = 0
  <2>1. ws = [i \in 1..n |-> ws[n + 1 - i]]
    BY <1>3, <1>5
  <2>2. y = x
    BY <1>4, <1>5
  <2> QED
    BY <2>1, <2>2 DEF y
<1>6. CASE n # 0
  <2> DEFINE gs == Reversed(n, es)
             vs == [i \in 1..n |-> ws[n + 1 - i]]
  <2>1. \A i \in 1..n : n + 1 - i \in 1..n /\ gs[i] = es[n + 1 - i]
    BY <1>2 DEF Reversed
  <2>2. \A i \in 1..n : n + 1 - (n + 1 - i) = i
    BY <1>2
  <2>3. SameList(x, y) /\ y.q = x.q /\ y.live = x.live /\ y.sizeL = x.sizeL
        /\ y.tail = x.head /\ y.value = x.value /\ y.text = x.text
    BY <1>4, <1>6 DEF SameStrings
  <2> HIDE DEF gs
  <2>4. y.tail = gs[n]
    <3>1. n \in 1..n /\ n + 1 - n = 1 /\ x.head = es[1]
      BY <1>2, <1>6 DEF Queue, Path
    <3>2. gs[n] = es[n + 1 - n]
      BY <2>1, <3>1
    <3> QED
      BY <2>3, <3>1, <3>2
  <2>5. {gs[i] : i \in 1..n} = {es[i] : i \in 1..n}
    BY <2>1, <2>2
  <2>6. {y.value[gs[i]] : i \in 1..n} = {x.value[es[i]] : i \in 1..n}
    BY <2>1, <2>2, <2>3
  <2>7. vs = Words(y, n, gs)
    <3>1. \A i \in 1..n : ws[n + 1 - i] = y.text[y.value[gs[i]]]
      BY <1>3, <2>1, <2>3
    <3> QED
      BY <3>1 DEF Words
  <2>8. Exact(y, n, gs)
    BY <1>1, <1>4, <1>6, <2>3, <2>4, <2>5, <2>6 DEF Exact, gs
  <2>9. Neat(y)
    BY <2>3, NeatKept
  <2> QED
    BY <2>3, <2>7, <2>8, <2>9 DEF Holds, y
<1> QED
  BY <1>5, <1>6

-----------------------------------------------------------------------------
(* No block is lost: c strings are in the queue, or without a queue no     *)
(* block is in use.                                                        *)
Sound(x, c) ==
  /\ Neat(x)
  /\ IF x.q = Null THEN x.live = {} /\ c = 0 /\ x.sizeL = 0
     ELSE \E ws : Holds(x, c, ws)

\* q_new makes an empty queue or leaves everything as it was.
LEMMA NewSound ==
  ASSUME NEW x \in GoodMemory, x.q = Null, NEW c, Sound(x, c), NEW r \in q_new(x)
  PROVE  LET z == [Last(r.trace) EXCEPT !.q = r.ret]
         IN  Sound(z, c) /\ (z = x \/ Holds(z, 0, <<>>))
<1>0. x \in Memory /\ x.tail = Null /\ Neat(x) /\ c = 0 /\ x.live = {}
  BY DEF GoodMemory, Sound
<1>1. CASE r = Ran(<<x>>, Null)
  <2>1. r.trace = <<x>> /\ r.ret = Null /\ Last(<<x>>) = x
    BY <1>1 DEF Ran, Last
  <2>2. [x EXCEPT !.q = Null] = x
    BY <1>0 DEF Memory
  <2> QED
    BY <2>1, <2>2
<1>2. CASE r # Ran(<<x>>, Null)
  <2> DEFINE t == test_malloc(x)
             l == Last(t)
             b == Fresh(x)
             k1 == [l EXCEPT !.head = Null, !.tail = Null]
             k == [l EXCEPT !.head = Null, !.tail = Null, !.sizeL = 0]
             z == [k EXCEPT !.q = b]
  <2>1. ~Full(x) /\ r = Ran(Append(t, k), b)
    BY <1>2 DEF q_new
  <2>2. r.trace = Append(t, k) /\ r.ret = b
    BY <2>1 DEF Ran
  <2>3. /\ t \in Trace(GoodMemory) /\ l \in Memory
        /\ l.live = x.live \cup {b} /\ b \in Blocks \ x.live
    BY <2>1, MallocsGood
  <2>4. Neat(l)
    BY <1>0, <2>1, MallocListed DEF Neat
  <2>5. t \in Trace(Memory)
    <3>1. GoodMemory \subseteq Memory
      BY DEF GoodMemory
    <3> HIDE DEF t
    <3> QED
      BY <2>3, <3>1, TraceSub
  <2> HIDE DEF t, l, b
  <2>6. k1 \in Memory /\ SameList(l, k1) /\ k1.live = l.live /\ k1.head = Null /\ k1.tail = Null
    BY <2>3 DEF Memory, SameList
  <2>7. k = [k1 EXCEPT !.sizeL = 0]
    OBVIOUS
  <2> HIDE DEF k1, k
  <2>8. /\ k \in Memory /\ SameList(k1, k) /\ k.live = k1.live /\ k.head = Null /\ k.tail = Null
        /\ k.sizeL = 0
    BY <2>6, <2>7 DEF Memory, SameList
  <2>9. /\ SameList(k, z) /\ z.live = k.live /\ z.head = Null /\ z.tail = Null /\ z.sizeL = 0
        /\ z.q = b
    BY <2>3, <2>8 DEF Memory, SameList
  <2> HIDE DEF z
  <2>10. SameList(l, z) /\ z.live = l.live
    BY <2>6, <2>8, <2>9 DEF SameList
  <2>11. Neat(z)
    BY <2>4, <2>10, NeatKept
  <2>12. z.live = {b} /\ b \in Blocks /\ b # Null
    BY <1>0, <2>3, <2>10, HeapAssumption
  <2>13. Exact(z, 0, <<>>)
    <3>1. Queue(z, 0, <<>>)
      BY <2>9, <2>12 DEF Queue, Path
    <3> QED
      BY <2>9, <2>12, <3>1 DEF Exact
  <2>14. Words(z, 0, <<>>) = <<>>
    BY DEF Words
  <2>15. Holds(z, 0, <<>>)
    BY <2>13, <2>14 DEF Holds
  <2>16. Last(r.trace) = k
    BY <2>2, <2>5, <2>8, TraceAdd
  <2>17. z = [Last(r.trace) EXCEPT !.q = r.ret]
    BY <2>2, <2>16 DEF z
  <2> QED
    BY <1>0, <2>9, <2>11, <2>12, <2>15, <2>17 DEF Sound
<1> QED
  BY <1>1, <1>2

\* The blocks that the first i turns of q_free leave in use.
Left(x, n, es, i) ==
  {x.q} \cup {es[j] : j \in i+1..n} \cup {x.value[es[j]] : j \in i+1..n}

\* One turn frees an element and its string.
LEMMA FreeTurnSound ==
  ASSUME NEW x \in Memory, NEW n, NEW es, Queue(x, n, es), NEW cautious, NEW i \in 1..n,
         NEW t \in Trace(Memory), Neat(Last(t)), Last(t).live = Left(x, n, es, i - 1)
  PROVE  LET u == FreeTurn(t, x, es[i], cautious)
         IN  u \in Trace(Memory) /\ Neat(Last(u)) /\ Last(u).live = Left(x, n, es, i)
<1> DEFINE k == Last(t)
           b == x.value[es[i]]
           h == es[i]
           a == test_free(k, b, cautious)
           l == Last(a)
           c == test_free(l, h, cautious)
           y == Last(c)
           u == FreeTurn(t, x, es[i], cautious)
<1>1. k \in Memory
  BY TraceAt
<1>2. /\ n \in Nat /\ \A j \in 1..n : es[j] \in Blocks
      /\ \A j, g \in 1..n : es[j] = es[g] => j = g
  BY DEF Queue, Path
<1>3. \A j \in i..n : j \in 1..n
  BY <1>2
<1>4. i \in i..n /\ (i - 1) + 1 = i /\ \A j \in i+1..n : j \in i..n /\ j # i
  BY <1>2
<1>5. k.live = {x.q} \cup {es[j] : j \in i..n} \cup {x.value[es[j]] : j \in i..n}
  BY <1>4 DEF Left
<1>6. /\ h # b /\ h # x.q /\ b # x.q
      /\ \A j \in i+1..n : es[j] # h /\ es[j] # b /\ x.value[es[j]] # h /\ x.value[es[j]] # b
  <2>1. \A j \in i+1..n : j \in 1..n /\ j # i
    BY <1>3, <1>4
  <2> QED
    BY <1>2, <2>1 DEF Queue
<1>7. b \in Blocks /\ h \in Blocks
  BY <1>2 DEF Queue, Memory
<1>8. b \in k.live /\ h \in k.live
  BY <1>4, <1>5
<1>9. u = (t \o a) \o test_free(Last(t \o a), h, cautious)
  BY DEF FreeTurn
<1>10. (k.live \ {b}) \ {h} = Left(x, n, es, i)
  <2> DEFINE A == {es[j] : j \in i+1..n}
             B == {x.value[es[j]] : j \in i+1..n}
  <2>1. h \notin A /\ b \notin A /\ h \notin B /\ b \notin B
    BY <1>6
  <2>2. \A j \in i..n : j = i \/ j \in i+1..n
    BY <1>2
  <2>3. {es[j] : j \in i..n} = A \cup {h} /\ {x.value[es[j]] : j \in i..n} = B \cup {b}
    BY <1>4, <2>2
  <2>4. k.live = {x.q} \cup (A \cup {h}) \cup (B \cup {b})
    BY <1>5, <2>3
  <2>5. h # x.q /\ b # x.q
    BY <1>6
  <2>6. Left(x, n, es, i) = {x.q} \cup A \cup B
    BY DEF Left
  <2> HIDE DEF A, B, h, b, k
  <2> QED
    BY <2>1, <2>4, <2>5, <2>6
<1> HIDE DEF k, b, h
<1>11. HasList(l) /\ l \in Memory /\ Without(k, b, l) /\ ~l.error
  BY <1>1, <1>8, FreeListed DEF Neat, k
<1>12. a \in Trace(Memory)
  BY <1>1, <1>7, FreeTrace
<1> HIDE DEF l, u
<1>13. l.live = k.live \ {b} /\ h \in l.live
  BY <1>6, <1>8, <1>11 DEF Without
<1>14. HasList(y) /\ y \in Memory /\ Without(l, h, y) /\ ~y.error
  BY <1>11, <1>13, FreeListed
<1>15. c \in Trace(Memory)
  BY <1>7, <1>11, FreeTrace
<1> HIDE DEF a
<1>16. t \o a \in Trace(Memory) /\ Last(t \o a) = l
  BY <1>12, TraceJoin DEF l
<1>17. u = (t \o a) \o c
  BY <1>9, <1>16
<1> HIDE DEF c
<1>18. u \in Trace(Memory) /\ Last(u) = y
  BY <1>15, <1>16, <1>17, TraceJoin
<1>19. y.live = Left(x, n, es, i)
  BY <1>10, <1>13, <1>14 DEF Without
<1> QED
  BY <1>14, <1>18, <1>19 DEF Neat, u, h

\* q_free gives every block back.
LEMMA FreeSound ==
  ASSUME NEW x \in GoodMemory, NEW c, Sound(x, c), NEW cautious, NEW r \in q_free(x, cautious)
  PROVE  Neat(Last(r.trace)) /\ Last(r.trace).live = {}
<1>0. x \in Memory /\ Neat(x)
  BY DEF GoodMemory, Sound
<1>1. CASE x.q = Null
  <2>1. q_free(x, cautious) = {Ran(<<x>>, TRUE)}
    BY <1>1 DEF q_free
  <2>2. r.trace = <<x>> /\ Last(<<x>>) = x
    BY <2>1 DEF Ran, Last
  <2> QED
    BY <1>0, <1>1, <2>2 DEF Sound
<1>2. CASE x.q # Null
  <2>1. PICK es : Exact(x, c, es)
    BY <1>2 DEF Sound, Holds
  <2> DEFINE n == c
  <2>2. Queue(x, n, es) /\ n \in Nat
    BY <2>1 DEF Exact, Queue, Path
  <2>3. PICK f : FreeRun(f, x, n, es, cautious, r)
    BY <1>2, <2>2, FreeLoop
  <2>4. /\ f \in [0..n -> Trace(Memory)] /\ f[0] = <<x>>
        /\ \A i \in 1..n : f[i] = FreeTurn(f[i-1], x, es[i], cautious)
        /\ r = Ran(f[n] \o test_free(Last(f[n]), x.q, cautious), TRUE)
    BY <2>3 DEF FreeRun, FreeTurns
  <2> DEFINE T == {i \in Nat : i \in 0..n => /\ f[i] \in Trace(Memory) /\ Neat(Last(f[i]))
                                              /\ Last(f[i]).live = Left(x, n, es, i)}
  <2>5. 0 \in T
    <3>1. Last(<<x>>) = x /\ <<x>> \in Trace(Memory)
      BY <1>0, TraceOf1
    <3>2. x.live = Left(x, n, es, 0)
      BY <2>1 DEF Exact, Left
    <3> QED
      BY <1>0, <2>4, <3>1, <3>2
  <2>6. ASSUME NEW i \in Nat, i \in T
        PROVE  i + 1 \in T
    <3> SUFFICES ASSUME i + 1 \in 0..n
                 PROVE  /\ f[i+1] \in Trace(Memory) /\ Neat(Last(f[i+1]))
                        /\ Last(f[i+1]).live = Left(x, n, es, i + 1)
      OBVIOUS
    <3>1. i \in 0..n /\ i + 1 \in 1..n /\ (i + 1) - 1 = i
      BY <2>2
    <3>2. f[i] \in Trace(Memory) /\ Neat(Last(f[i])) /\ Last(f[i]).live = Left(x, n, es, (i + 1) - 1)
      BY <2>6, <3>1
    <3>3. f[i+1] = FreeTurn(f[i], x, es[i+1], cautious)
      BY <2>4, <3>1
    <3> DEFINE j == i + 1
               t == f[i]
    <3>4. j \in 1..n /\ t \in Trace(Memory) /\ Neat(Last(t)) /\ Last(t).live = Left(x, n, es, j - 1)
      BY <3>1, <3>2
    <3> HIDE DEF j, t, n
    <3>5. LET u == FreeTurn(t, x, es[j], cautious)
          IN  u \in Trace(Memory) /\ Neat(Last(u)) /\ Last(u).live = Left(x, n, es, j)
      BY <1>0, <2>2, <3>4, FreeTurnSound
    <3> QED
      BY <3>3, <3>5 DEF j, t
  <2> HIDE DEF T
  <2>7. n \in T
    BY <2>2, <2>5, <2>6, AllNumbers
  <2> DEFINE all == f[n]
             l == Last(all)
             u == test_free(l, x.q, cautious)
             y == Last(u)
  <2>8. all \in Trace(Memory) /\ Neat(l) /\ l.live = Left(x, n, es, n)
    BY <2>2, <2>7 DEF T
  <2>9. r.trace = all \o u
    BY <2>4 DEF Ran
  <2> HIDE DEF all
  <2>10. l \in Memory
    BY <2>8, TraceAt
  <2>11. l.live = {x.q}
    BY <2>2, <2>8 DEF Left
  <2> HIDE DEF l
  <2>12. HasList(y) /\ Without(l, x.q, y) /\ ~y.error
    BY <2>8, <2>10, <2>11, FreeListed DEF Neat
  <2>13. u \in Trace(Memory)
    BY <2>10, <2>11, FreeTrace DEF Memory
  <2> HIDE DEF u
  <2>14. Last(r.trace) = y
    BY <2>8, <2>9, <2>13, TraceJoin
  <2>15. y.live = {}
    BY <2>11, <2>12 DEF Without
  <2> QED
    BY <2>12, <2>14, <2>15 DEF Neat
<1> QED
  BY <1>1, <1>2

-----------------------------------------------------------------------------
\* y is x but for the error.
Alike(x, y) ==
  /\ SameQueue(x, y) /\ y.live = x.live
  /\ y.allocated = x.allocated /\ y.allocated_count = x.allocated_count
  /\ y.bnext = x.bnext /\ y.bprev = x.bprev

\* The error alone may differ.
LEMMA ErrorAlike ==
  ASSUME NEW x \in Memory, NEW e \in BOOLEAN
  PROVE  Alike(x, [x EXCEPT !.error = e]) /\ [x EXCEPT !.error = e].error = e
BY DEF Memory, Alike, SameQueue

\* A memory is like itself.
LEMMA SelfAlike ==
  ASSUME NEW x
  PROVE  Alike(x, x)
BY DEF Alike, SameQueue

\* The abstract queue of a memory.
AbsQueue(x) == IF x.q \notin x.live THEN <<>> ELSE <<Contents(x)>>

\* Memories that are alike have the same queue.
LEMMA AlikeSound ==
  ASSUME NEW x, NEW y, Alike(x, y)
  PROVE  /\ AbsQueue(y) = AbsQueue(x)
         /\ \A c : Sound(x, c) /\ ~y.error => Sound(y, c)
<1>1. Elements(y) = Elements(x)
  BY DEF Alike, SameQueue, Elements
<1>2. Contents(y) = Contents(x)
  BY <1>1 DEF Alike, SameQueue, Contents
<1>3. AbsQueue(y) = AbsQueue(x)
  BY <1>2 DEF AbsQueue, Alike, SameQueue
<1>4. ASSUME NEW c, Sound(x, c), ~y.error
      PROVE  Sound(y, c)
  <2>1. HasList(y)
    BY <1>4, ListKept DEF Alike, Sound, Neat
  <2>2. ASSUME NEW ws, Holds(x, c, ws)
        PROVE  Holds(y, c, ws)
    <3>1. PICK es : Exact(x, c, es) /\ ws = Words(x, c, es)
      BY <2>2 DEF Holds
    <3>2. Exact(x, c, es)
      BY <3>1
    <3>3. Exact(y, c, es) /\ Words(y, c, es) = Words(x, c, es)
      BY <3>2, ExactKept DEF Alike, SameQueue
    <3> QED
      BY <3>1, <3>3 DEF Holds
  <2>3. y.q = x.q /\ y.live = x.live /\ y.sizeL = x.sizeL
    BY DEF Alike, SameQueue
  <2> QED
    BY <1>4, <2>1, <2>2, <2>3 DEF Sound, Neat
<1> QED
  BY <1>3, <1>4

\* What the abstract queue of a sound memory is.
LEMMA SoundQueue ==
  ASSUME NEW x \in GoodMemory, NEW c, Sound(x, c)
  PROVE  /\ x.q = Null => AbsQueue(x) = <<>> /\ c = 0
         /\ \A ws : x.q # Null /\ Holds(x, c, ws) => AbsQueue(x) = <<ws>>
         /\ q_size(x) = (IF AbsQueue(x) = <<>> THEN 0 ELSE Len(AbsQueue(x)[1]))
<1>1. ASSUME x.q = Null
      PROVE  AbsQueue(x) = <<>> /\ c = 0 /\ q_size(x) = 0
  BY <1>1 DEF Sound, AbsQueue, q_size
<1>2. ASSUME NEW ws, x.q # Null, Holds(x, c, ws)
      PROVE  AbsQueue(x) = <<ws>> /\ q_size(x) = Len(ws)
  <2>1. /\ x.q \in x.live /\ Contents(x) = ws /\ x.sizeL = c /\ Len(ws) = c
        /\ x.head = Null <=> c = 0
    BY <1>2, HoldsContents
  <2>2. AbsQueue(x) = <<ws>>
    BY <2>1 DEF AbsQueue
  <2>3. q_size(x) = Len(ws)
    BY <1>2, <2>1 DEF q_size
  <2> QED
    BY <2>2, <2>3
<1>3. x.q # Null => \E ws : Holds(x, c, ws)
  BY DEF Sound
<1>4. \A ws : <<ws>> # <<>> /\ <<ws>>[1] = ws
  OBVIOUS
<1>5. CASE x.q = Null
  BY <1>1, <1>5
<1>6. CASE x.q # Null
  <2>1. PICK ws : Holds(x, c, ws)
    BY <1>3, <1>6
  <2>2. AbsQueue(x) = <<ws>> /\ q_size(x) = Len(ws)
    BY <1>2, <1>6, <2>1
  <2>3. q_size(x) = (IF AbsQueue(x) = <<>> THEN 0 ELSE Len(AbsQueue(x)[1]))
    BY <1>4, <2>2
  <2> QED
    BY <1>2, <1>6, <2>3
<1> QED
  BY <1>5, <1>6

\* An insertion.
LEMMA InsertSound ==
  ASSUME NEW x \in GoodMemory, NEW c, Sound(x, c), NEW s \in Strings, NEW op,
         NEW r \in (IF op = "insert_head" THEN q_insert_head(x, s) ELSE q_insert_tail(x, s))
  PROVE  LET y == Last(r.trace)
         IN  IF r.ret
             THEN /\ Sound(y, c + 1) /\ AbsQueue(x) # <<>>
                  /\ AbsQueue(y) = << IF op = "insert_head" THEN <<s>> \o AbsQueue(x)[1]
                                      ELSE Append(AbsQueue(x)[1], s) >>
             ELSE Sound(y, c) /\ AbsQueue(y) = AbsQueue(x)
<1> DEFINE y == Last(r.trace)
<1>0. y \in GoodMemory
  <2>1. r \in q_insert_head(x, s) \cup q_insert_tail(x, s)
    OBVIOUS
  <2>2. r.trace \in Trace(GoodMemory)
    BY <2>1, InsertGood
  <2> QED
    BY <2>2, TraceAt
<1>1. CASE x.q = Null
  <2>1. r = Ran(<<x>>, FALSE)
    BY <1>1 DEF q_insert_head, q_insert_tail
  <2>2. y = x /\ r.ret = FALSE
    BY <2>1 DEF Ran, Last
  <2> QED
    BY <2>2
<1>2. CASE x.q # Null /\ r \in Refused(x)
  <2>1. PICK ws : Holds(x, c, ws)
    BY <1>2 DEF Sound
  <2>2. Neat(y) /\ Holds(y, c, ws) /\ r.ret = FALSE /\ y.q = x.q
    BY <1>2, <2>1, RefusedHolds DEF Sound
  <2> HIDE DEF y
  <2>3. Sound(y, c)
    BY <1>2, <2>2 DEF Sound
  <2>4. AbsQueue(x) = <<ws>> /\ AbsQueue(y) = <<ws>>
    BY <1>0, <1>2, <2>1, <2>2, <2>3, SoundQueue
  <2> QED
    BY <2>2, <2>3, <2>4 DEF y
<1>3. CASE /\ x.q # Null /\ op = "insert_head"
           /\ \E a \in Allocated(x, s) : r = Ran(head_inserted(a.trace, a.ret), TRUE)
  <2>1. PICK ws : Holds(x, c, ws)
    BY <1>3 DEF Sound
  <2>2. PICK a \in Allocated(x, s) : r = Ran(head_inserted(a.trace, a.ret), TRUE)
    BY <1>3
  <2>3. r.trace = head_inserted(a.trace, a.ret) /\ r.ret = TRUE
    BY <2>2 DEF Ran
  <2>4. Neat(y) /\ Holds(y, c + 1, <<s>> \o ws) /\ y.q = x.q
    BY <1>3, <2>1, <2>3, HeadHolds DEF Sound
  <2> HIDE DEF y
  <2>5. Sound(y, c + 1)
    BY <1>3, <2>4 DEF Sound
  <2>6. AbsQueue(x) = <<ws>> /\ AbsQueue(y) = << <<s>> \o ws >>
    <3>1. AbsQueue(x) = <<ws>>
      BY <1>3, <2>1, SoundQueue
    <3> DEFINE d == c + 1
               vs == <<s>> \o ws
    <3>2. Sound(y, d) /\ Holds(y, d, vs) /\ y.q # Null
      BY <1>3, <2>4, <2>5
    <3> HIDE DEF d, vs
    <3>3. AbsQueue(y) = <<vs>>
      BY <1>0, <3>2, SoundQueue
    <3> QED
      BY <3>1, <3>3 DEF vs
  <2>7. AbsQueue(x) # <<>> /\ AbsQueue(x)[1] = ws
    BY <2>6
  <2>8. AbsQueue(y) = << IF op = "insert_head" THEN <<s>> \o AbsQueue(x)[1]
                         ELSE Append(AbsQueue(x)[1], s) >>
    BY <1>3, <2>6, <2>7
  <2> QED
    BY <2>3, <2>5, <2>7, <2>8 DEF y
<1>4. CASE /\ x.q # Null /\ op # "insert_head"
           /\ \E a \in Allocated(x, s) : r = Ran(tail_inserted(a.trace, a.ret), TRUE)
  <2>1. PICK ws : Holds(x, c, ws)
    BY <1>4 DEF Sound
  <2>2. PICK a \in Allocated(x, s) : r = Ran(tail_inserted(a.trace, a.ret), TRUE)
    BY <1>4
  <2>3. r.trace = tail_inserted(a.trace, a.ret) /\ r.ret = TRUE
    BY <2>2 DEF Ran
  <2>4. Neat(y) /\ Holds(y, c + 1, Append(ws, s)) /\ y.q = x.q
    BY <1>4, <2>1, <2>3, TailHolds DEF Sound
  <2> HIDE DEF y
  <2>5. Sound(y, c + 1)
    BY <1>4, <2>4 DEF Sound
  <2>6. AbsQueue(x) = <<ws>> /\ AbsQueue(y) = << Append(ws, s) >>
    <3>1. AbsQueue(x) = <<ws>>
      BY <1>4, <2>1, SoundQueue
    <3> DEFINE d == c + 1
               vs == Append(ws, s)
    <3>2. Sound(y, d) /\ Holds(y, d, vs) /\ y.q # Null
      BY <1>4, <2>4, <2>5
    <3> HIDE DEF d, vs
    <3>3. AbsQueue(y) = <<vs>>
      BY <1>0, <3>2, SoundQueue
    <3> QED
      BY <3>1, <3>3 DEF vs
  <2>7. AbsQueue(x) # <<>> /\ AbsQueue(x)[1] = ws
    BY <2>6
  <2>8. AbsQueue(y) = << IF op = "insert_head" THEN <<s>> \o AbsQueue(x)[1]
                         ELSE Append(AbsQueue(x)[1], s) >>
    BY <1>4, <2>6, <2>7
  <2> QED
    BY <2>3, <2>5, <2>7, <2>8 DEF y
<1> QED
  BY <1>1, <1>2, <1>3, <1>4 DEF q_insert_head, q_insert_tail

\* A removal.
LEMMA RemoveSound ==
  ASSUME NEW x \in GoodMemory, NEW c, Sound(x, c), NEW r \in q_remove_head(x)
  PROVE  LET y == Last(r.trace)
         IN  IF r.ret
             THEN /\ Sound(y, c - 1) /\ AbsQueue(x) # <<>> /\ AbsQueue(x)[1] # <<>>
                  /\ AbsQueue(y) = <<Tail(AbsQueue(x)[1])>>
                  /\ x.text[x.value[x.head]] = Head(AbsQueue(x)[1])
             ELSE y = x
<1> DEFINE y == Last(r.trace)
<1>0. y \in GoodMemory
  BY RemoveGood, TraceAt
<1>1. CASE x.q = Null
  <2>1. q_remove_head(x) = {Ran(<<x>>, FALSE)}
    BY <1>1, Zenon DEF q_remove_head
  <2>2. r.trace = <<x>> /\ r.ret = FALSE
    BY <2>1 DEF Ran
  <2>3. Last(<<x>>) = x
    BY DEF Last
  <2> QED
    BY <2>2, <2>3
<1>2. CASE x.q # Null
  <2>1. PICK ws : Holds(x, c, ws)
    BY <1>2 DEF Sound
  <2>2. IF c = 0 THEN y = x /\ r.ret = FALSE
        ELSE /\ Neat(y) /\ Holds(y, c - 1, Tail(ws)) /\ y.q = x.q /\ r.ret = TRUE
             /\ x.text[x.value[x.head]] = Head(ws)
    BY <1>2, <2>1, RemoveHolds DEF Sound
  <2> HIDE DEF y
  <2>3. CASE c = 0
    BY <2>2, <2>3 DEF y
  <2>4. CASE c # 0
    <3> DEFINE d == c - 1
               vs == Tail(ws)
    <3>1. Sound(y, d) /\ Holds(y, d, vs) /\ y.q # Null
      BY <1>2, <2>2, <2>4 DEF Sound
    <3>2. AbsQueue(x) = <<ws>> /\ Len(ws) = c
      BY <1>2, <2>1, SoundQueue, HoldsContents
    <3> HIDE DEF vs
    <3>3. AbsQueue(y) = <<vs>>
      <4> HIDE DEF d
      <4> QED
        BY <1>0, <3>1, SoundQueue
    <3>4. ws # <<>>
      BY <2>4, <3>2
    <3> QED
      BY <2>2, <2>4, <3>1, <3>2, <3>3, <3>4 DEF y, vs
  <2> QED
    BY <2>3, <2>4
<1> QED
  BY <1>1, <1>2

\* A reversal.
LEMMA ReverseSound ==
  ASSUME NEW x \in GoodMemory, NEW c, Sound(x, c), NEW r \in q_reverse(x)
  PROVE  LET y == Last(r.trace)
             ws == AbsQueue(x)[1]
         IN  /\ Sound(y, c)
             /\ IF AbsQueue(x) = <<>> THEN AbsQueue(y) = <<>>
                ELSE AbsQueue(y) = <<[i \in DOMAIN ws |-> ws[Len(ws) + 1 - i]]>>
<1> DEFINE y == Last(r.trace)
<1>0. y \in GoodMemory
  BY ReverseGood, TraceAt
<1>1. CASE x.q = Null
  <2>1. q_reverse(x) = {Ran(<<x>>, TRUE)}
    BY <1>1, Zenon DEF q_reverse
  <2>2. y = x /\ AbsQueue(x) = <<>>
    BY <1>1, <2>1, SoundQueue DEF Ran, Last
  <2> QED
    BY <2>2
<1>2. CASE x.q # Null
  <2>1. PICK ws : Holds(x, c, ws)
    BY <1>2 DEF Sound
  <2> DEFINE vs == [i \in 1..c |-> ws[c + 1 - i]]
  <2>2. Neat(y) /\ Holds(y, c, vs) /\ y.q = x.q
    BY <1>2, <2>1, ReverseHolds DEF Sound
  <2>3. vs = [i \in DOMAIN ws |-> ws[Len(ws) + 1 - i]]
    <3>1. DOMAIN ws = 1..c /\ Len(ws) = c
      BY <2>1, HoldsContents
    <3> QED
      BY <3>1
  <2> HIDE DEF y, vs
  <2>4. Sound(y, c)
    BY <1>2, <2>2 DEF Sound
  <2>5. AbsQueue(x) = <<ws>> /\ AbsQueue(y) = <<vs>>
    BY <1>0, <1>2, <2>1, <2>2, <2>4, SoundQueue
  <2>6. <<ws>> # <<>> /\ <<ws>>[1] = ws
    OBVIOUS
  <2> QED
    BY <2>3, <2>4, <2>5, <2>6 DEF y
<1> QED
  BY <1>1, <1>2

-----------------------------------------------------------------------------
(* Without an alarm the queue holds what qcnt says at every moment between *)
(* two operations, and after q_free nothing is in use.                     *)
GivenUp == running.reps = 0 /\ running.op \in {"free", "renew", "quit", "exited"}

CleanInv ==
  alarms = 0 =>
    /\ (running.op # "remove_head" \/ running.reps > 0) => ~running.rval /\ running.got = Null
    /\ (running.op = "new" /\ running.reps = 0) => qcnt = 0
    /\ IF GivenUp THEN Neat(m) /\ m.live = {}
       ELSE Sound(m, IF running.rval THEN qcnt - 1 ELSE qcnt)

CountInv == alarms \in Nat /\ qcnt \in Int

SInv == IInv /\ CountInv /\ CleanInv

\* What the abstract queue sees of qtest.
Mapped == <<IF m.q \notin m.live \/ alarms > 0 THEN <<>> ELSE <<Contents(m)>>, alarms = 0,
            [op |-> running.op, s |-> running.s, got |-> running.got, cnt |-> running.cnt], qcnt>>

\* A step without an alarm does as the abstract queue does.
Follows == CleanInv' /\ (Sequence!Next \/ UNCHANGED Mapped)

\* Without alarms the mapping is the abstract queue of the memory.
LEMMA MappedQueue ==
  ASSUME alarms = 0, alarms' = 0
  PROVE  /\ (IF m.q \notin m.live \/ alarms > 0 THEN <<>> ELSE <<Contents(m)>>) = AbsQueue(m)
         /\ (IF m.q \notin m.live \/ alarms > 0 THEN <<>> ELSE <<Contents(m)>>)' = AbsQueue(m')
<1>1. ~(alarms > 0) /\ ~(alarms' > 0)
  OBVIOUS
<1>2. Contents(m)' = Contents(m')
  BY DEF Contents, Elements, Walk
<1> QED
  BY <1>1, <1>2 DEF AbsQueue

\* The next operation is asked for.
LEMMA Asks ==
  ASSUME alarms = 0, alarms' = 0, running'.op # running.op, AbsQueue(m') = AbsQueue(m)
  PROVE  Sequence!Next
<1>1. Sequence!Ask
  <2>1. (IF m.q \notin m.live \/ alarms > 0 THEN <<>> ELSE <<Contents(m)>>)'
          = (IF m.q \notin m.live \/ alarms > 0 THEN <<>> ELSE <<Contents(m)>>)
    BY MappedQueue
  <2>2. [op |-> running.op, s |-> running.s, got |-> running.got, cnt |-> running.cnt]'.op
          # [op |-> running.op, s |-> running.s, got |-> running.got, cnt |-> running.cnt].op
    OBVIOUS
  <2>3. (alarms = 0)' = (alarms = 0)
    OBVIOUS
  <2> QED
    BY <2>1, <2>2, <2>3 DEF Sequence!Ask
<1> QED
  BY <1>1 DEF Sequence!Next

\* Nothing happens to the abstract queue.
LEMMA Stays ==
  ASSUME alarms = 0, alarms' = 0, AbsQueue(m') = AbsQueue(m), qcnt' = qcnt,
         running'.op = running.op, running'.s = running.s, running'.got = running.got,
         running'.cnt = running.cnt
  PROVE  UNCHANGED Mapped
<1>1. (IF m.q \notin m.live \/ alarms > 0 THEN <<>> ELSE <<Contents(m)>>)'
        = (IF m.q \notin m.live \/ alarms > 0 THEN <<>> ELSE <<Contents(m)>>)
  BY MappedQueue
<1>2. (alarms = 0)' = (alarms = 0)
  OBVIOUS
<1> QED
  BY <1>1, <1>2 DEF Mapped

\* The invariant of sessions without alarms holds at the beginning.
LEMMA CleanStart == Init => CleanInv /\ CountInv
<1> SUFFICES ASSUME Init PROVE CleanInv /\ CountInv
  OBVIOUS
<1>1. m = EmptyMemory /\ qcnt = 0 /\ running = Idle /\ alarms = 0
  BY DEF Init, queue_init
<1>2. /\ m.live = {} /\ m.q = Null /\ m.sizeL = 0 /\ m.error = FALSE
      /\ m.allocated = Null /\ m.allocated_count = 0
  BY <1>1 DEF EmptyMemory
<1>3. Listed(m, 0, <<>>)
  BY <1>2 DEF Listed, Path
<1>4. Sound(m, 0)
  BY <1>2, <1>3 DEF Sound, Neat, HasList
<1>5. ~running.rval /\ running.got = Null /\ running.op = "none"
  BY <1>1 DEF Idle
<1> QED
  BY <1>1, <1>4, <1>5 DEF CleanInv, CountInv, GivenUp

\* Between commands.
LEMMA AtRest ==
  ASSUME SInv, alarms = 0, running = Idle
  PROVE  Sound(m, qcnt) /\ m \in GoodMemory /\ m \in Memory /\ qcnt \in Int
<1>1. running.op = "none" /\ running.rval = FALSE /\ running.reps = 0
  BY DEF Idle
<1> QED
  BY <1>1 DEF SInv, IInv, TypeInv, QueueInv, CleanInv, CountInv, GivenUp

\* A command that begins asks for the next operation.
LEMMA CommandFollows ==
  ASSUME SInv, alarms = 0, Command
  PROVE  Follows
<1>1. ASSUME NEW op, NEW s, NEW reps \in Nat, reps > 0, op # "none", Begin(op, s, reps)
      PROVE  Follows
  <2>1. /\ running = Idle /\ running' = [Idle EXCEPT !.op = op, !.s = s, !.reps = reps]
        /\ m' = [m EXCEPT !.error = FALSE] /\ qcnt' = qcnt /\ alarms' = 0
    BY <1>1 DEF Begin
  <2>2. Sound(m, qcnt) /\ m \in Memory
    BY <2>1, AtRest
  <2>3. Alike(m, m') /\ m'.error = FALSE
    BY <2>1, <2>2, ErrorAlike
  <2>4. Sound(m', qcnt') /\ AbsQueue(m') = AbsQueue(m)
    BY <2>1, <2>2, <2>3, AlikeSound
  <2>5. /\ running'.op = op /\ running'.reps = reps /\ running'.rval = FALSE
        /\ running'.got = Null /\ running.op = "none"
    BY <2>1 DEF Idle
  <2>6. CleanInv'
    BY <1>1, <2>4, <2>5 DEF CleanInv, GivenUp
  <2>7. Sequence!Next
    BY <1>1, <2>1, <2>4, <2>5, Asks
  <2> QED
    BY <2>6, <2>7 DEF Follows
<1>2. \E op, s : \E reps \in Nat : reps > 0 /\ op # "none" /\ Begin(op, s, reps)
  <2>1. CASE \E op \in {IF m.q = Null THEN "new" ELSE "renew", "free", "reverse"} : Begin(op, Null, 1)
    BY <2>1
  <2>2. CASE \E reps \in 1..MaxReps : Begin("size", Null, reps)
    BY <2>2
  <2>3. CASE \E check \in Strings \cup {Null} : Begin("remove_head", check, 1)
    BY <2>3
  <2>4. CASE \E op \in {"insert_head", "insert_tail"}, s \in Strings, reps \in 1..MaxReps : Begin(op, s, reps)
    BY <2>4
  <2> QED
    BY <2>1, <2>2, <2>3, <2>4 DEF Command
<1> QED
  BY <1>1, <1>2

\* A risky call begins with the queue that qcnt counts.
LEMMA AtCall ==
  ASSUME SInv, alarms = 0, Risky
  PROVE  /\ Sound(m, qcnt) /\ m \in GoodMemory /\ m \in Memory /\ qcnt \in Int
         /\ running.rval = FALSE /\ running.got = Null /\ running \in Running
<1>1. running.reps > 0 /\ running.reps # 0 /\ running \in Running
  BY DEF Risky, SInv, IInv, TypeInv, Running
<1>2. running.rval = FALSE /\ running.got = Null
  BY <1>1 DEF SInv, CleanInv, Running
<1> QED
  BY <1>1, <1>2 DEF SInv, IInv, TypeInv, QueueInv, CleanInv, CountInv, GivenUp

\* An insertion inserts or changes nothing.
LEMMA InsertFollows ==
  ASSUME SInv, alarms = 0, Insert
  PROVE  Follows
<1> DEFINE x == AbsQueue(m)
<1>0. Risky /\ running.op \in {"insert_head", "insert_tail"} /\ alarms' = 0
  BY DEF Insert
<1>1. PICK r \in Runs :
       LET after == Last(r.trace)
           allowed == r.ret \/ fail_count + 1 < fail_limit
           ok == allowed /\ ~after.error
       IN  /\ qcnt' = qcnt + (IF r.ret THEN 1 ELSE 0)
           /\ m' = [after EXCEPT !.error = @ /\ ~allowed]
           /\ running' = [running EXCEPT !.ok = ok, !.reps = IF ok THEN @ - 1 ELSE 0]
  BY DEF Insert
<1> DEFINE after == Last(r.trace)
           allowed == r.ret \/ fail_count + 1 < fail_limit
           ok == allowed /\ ~after.error
           err == after.error /\ ~allowed
           left == IF ok THEN running.reps - 1 ELSE 0
<1>2. /\ Sound(m, qcnt) /\ m \in GoodMemory /\ m \in Memory /\ qcnt \in Int
      /\ running.rval = FALSE /\ running.got = Null /\ running \in Running
  BY <1>0, AtCall
<1>3. running.s \in Strings
  BY <1>0 DEF SInv, IInv, TypeInv
<1>4. r \in (IF running.op = "insert_head" THEN q_insert_head(m, running.s) ELSE q_insert_tail(m, running.s))
  BY <1>0 DEF Runs
<1>5. IF r.ret
      THEN /\ Sound(after, qcnt + 1) /\ x # <<>>
           /\ AbsQueue(after) = << IF running.op = "insert_head" THEN <<running.s>> \o x[1]
                                   ELSE Append(x[1], running.s) >>
      ELSE Sound(after, qcnt) /\ AbsQueue(after) = x
  <2> DEFINE s == running.s
             op == running.op
             c == qcnt
  <2>1. s \in Strings /\ Sound(m, c) /\ m \in GoodMemory
        /\ r \in (IF op = "insert_head" THEN q_insert_head(m, s) ELSE q_insert_tail(m, s))
    BY <1>2, <1>3, <1>4
  <2> HIDE DEF s, op, c
  <2> QED
    BY <2>1, InsertSound DEF s, op, c
<1>6. after \in Memory
  BY <1>0, RunsGood, TraceAt DEF SInv
<1>7. ~after.error
  BY <1>5 DEF Sound, Neat
<1>8. qcnt' = (IF r.ret THEN qcnt + 1 ELSE qcnt) /\ m' = [after EXCEPT !.error = err]
      /\ running' = [running EXCEPT !.ok = ok, !.reps = left]
  BY <1>1, <1>2
<1>9. err = FALSE /\ ok \in BOOLEAN
  BY <1>7
<1> HIDE DEF x, after, ok, err, left
<1>10. Alike(after, m') /\ ~m'.error
  BY <1>6, <1>8, <1>9, ErrorAlike
<1>11. Sound(m', qcnt') /\ AbsQueue(m') = AbsQueue(after)
  BY <1>5, <1>8, <1>10, AlikeSound
<1>12. /\ running'.op = running.op /\ running'.s = running.s /\ running'.got = Null
       /\ running'.rval = FALSE /\ running'.cnt = running.cnt
  BY <1>2, <1>8 DEF Running
<1>13. CleanInv'
  BY <1>0, <1>11, <1>12 DEF CleanInv, GivenUp
<1>14. CASE r.ret
  <2>1. /\ x # <<>> /\ qcnt' = qcnt + 1
        /\ AbsQueue(m') = << IF running.op = "insert_head" THEN <<running.s>> \o x[1]
                             ELSE Append(x[1], running.s) >>
    BY <1>5, <1>8, <1>11, <1>14
  <2>2. [op |-> running.op, s |-> running.s, got |-> running.got, cnt |-> running.cnt]'
        = [op |-> running.op, s |-> running.s, got |-> running.got, cnt |-> running.cnt]
    BY <1>2, <1>12
  <2>3. /\ (IF m.q \notin m.live \/ alarms > 0 THEN <<>> ELSE <<Contents(m)>>) = x
        /\ (IF m.q \notin m.live \/ alarms > 0 THEN <<>> ELSE <<Contents(m)>>)' = AbsQueue(m')
    BY <1>0, MappedQueue DEF x
  <2>4. (alarms = 0)' = (alarms = 0)
    BY <1>0
  <2>5. CASE running.op = "insert_head"
    <3>1. Sequence!InsertHead
      BY <2>1, <2>2, <2>3, <2>4, <2>5 DEF Sequence!InsertHead, Sequence!Change, Sequence!Asked
    <3> QED
      BY <1>13, <3>1 DEF Follows, Sequence!Next
  <2>6. CASE running.op = "insert_tail"
    <3>1. Sequence!InsertTail
      BY <2>1, <2>2, <2>3, <2>4, <2>6 DEF Sequence!InsertTail, Sequence!Change, Sequence!Asked
    <3> QED
      BY <1>13, <3>1 DEF Follows, Sequence!Next
  <2> QED
    BY <1>0, <2>5, <2>6
<1>15. CASE ~r.ret
  <2>1. AbsQueue(m') = AbsQueue(m) /\ qcnt' = qcnt
    BY <1>5, <1>8, <1>11, <1>15 DEF x
  <2>2. UNCHANGED Mapped
    BY <1>0, <1>2, <1>12, <2>1, Stays
  <2> QED
    BY <1>13, <2>2 DEF Follows
<1> QED
  BY <1>14, <1>15

\* A call of q_size answers with the length.
LEMMA SizeFollows ==
  ASSUME SInv, alarms = 0, Size
  PROVE  Follows
<1>0. Risky /\ running.op = "size" /\ alarms' = 0 /\ m' = m /\ qcnt' = qcnt
  BY DEF Size
<1>1. PICK r \in Runs : running' = [running EXCEPT !.cnt = r.ret, !.reps = @ - 1]
  BY DEF Size
<1>2. /\ Sound(m, qcnt) /\ m \in GoodMemory /\ m \in Memory /\ qcnt \in Int
      /\ running.rval = FALSE /\ running.got = Null /\ running \in Running
  BY <1>0, AtCall
<1>3. r.ret = q_size(m)
  BY <1>0 DEF Runs, Ran
<1>4. q_size(m) = (IF AbsQueue(m) = <<>> THEN 0 ELSE Len(AbsQueue(m)[1]))
  BY <1>2, SoundQueue
<1>5. /\ running'.op = "size" /\ running'.s = running.s /\ running'.got = Null
      /\ running'.rval = FALSE /\ running'.cnt = q_size(m)
  BY <1>0, <1>1, <1>2, <1>3 DEF Running
<1>6. CleanInv'
  BY <1>0, <1>2, <1>5 DEF CleanInv, GivenUp
<1>7. [op |-> running.op, s |-> running.s, got |-> running.got, cnt |-> running.cnt]'
      = [[op |-> running.op, s |-> running.s, got |-> running.got, cnt |-> running.cnt] EXCEPT !.cnt = q_size(m)]
  BY <1>0, <1>2, <1>5
<1>8. /\ (IF m.q \notin m.live \/ alarms > 0 THEN <<>> ELSE <<Contents(m)>>) = AbsQueue(m)
      /\ (IF m.q \notin m.live \/ alarms > 0 THEN <<>> ELSE <<Contents(m)>>)' = AbsQueue(m)
  BY <1>0, MappedQueue
<1>9. (alarms = 0)' = (alarms = 0)
  BY <1>0
<1>10. Sequence!Size
  BY <1>0, <1>4, <1>7, <1>8, <1>9 DEF Sequence!Size, Sequence!Asked
<1> QED
  BY <1>6, <1>10 DEF Follows, Sequence!Next

\* A risky call other than an insertion or a count.
LEMMA CallFollows ==
  ASSUME SInv, alarms = 0, Call
  PROVE  Follows
<1> DEFINE x == AbsQueue(m)
<1>0. Risky /\ running.op \notin {"insert_head", "insert_tail", "size"} /\ alarms' = 0 /\ qcnt' = qcnt
  BY DEF Call
<1>1. PICK r \in Runs :
       /\ m' = IF running.op = "new" THEN [Last(r.trace) EXCEPT !.q = r.ret] ELSE Last(r.trace)
       /\ running' = [running EXCEPT !.reps = 0, !.rval = running.op \in {"remove_head"} /\ r.ret,
                        !.got = IF running.op = "remove_head" /\ r.ret
                                THEN m.text[m.value[m.head]] ELSE Null]
  BY DEF Call
<1> DEFINE after == Last(r.trace)
           rval == running.op \in {"remove_head"} /\ r.ret
           got == IF running.op = "remove_head" /\ r.ret THEN m.text[m.value[m.head]] ELSE Null
<1>2. /\ Sound(m, qcnt) /\ m \in GoodMemory /\ m \in Memory /\ qcnt \in Int
      /\ running.rval = FALSE /\ running.got = Null /\ running \in Running
  BY <1>0, AtCall
<1>3. /\ running' = [running EXCEPT !.reps = 0, !.rval = rval, !.got = got]
      /\ m' = IF running.op = "new" THEN [after EXCEPT !.q = r.ret] ELSE after
  BY <1>1
<1>4. running.op = "new" => m.q = Null /\ [after EXCEPT !.q = r.ret] \in GoodMemory
  BY <1>0, RunsGood DEF SInv, IInv, QueueInv, Risky
<1>5. /\ running.op \in {"free", "renew", "quit"} => r \in q_free(m, Cautious)
      /\ running.op = "new" => r \in q_new(m)
      /\ running.op = "remove_head" => r \in q_remove_head(m)
      /\ running.op = "reverse" => r \in q_reverse(m)
  BY DEF Runs
<1>6. running.op \in {"free", "renew", "quit", "new", "remove_head", "reverse"}
  BY <1>0, <1>2 DEF SInv, IInv, QueueInv, Risky, Running, Ops
<1> HIDE DEF x, after, rval, got
<1>7. /\ running'.op = running.op /\ running'.s = running.s /\ running'.reps = 0
      /\ running'.rval = rval /\ running'.got = got /\ running'.cnt = running.cnt
  BY <1>2, <1>3 DEF Running
<1>8. /\ (IF m.q \notin m.live \/ alarms > 0 THEN <<>> ELSE <<Contents(m)>>) = x
      /\ (IF m.q \notin m.live \/ alarms > 0 THEN <<>> ELSE <<Contents(m)>>)' = AbsQueue(m')
  BY <1>0, MappedQueue DEF x
<1>9. (alarms = 0)' = (alarms = 0)
  BY <1>0
<1>10. [op |-> running.op, s |-> running.s, got |-> running.got, cnt |-> running.cnt]'
       = [[op |-> running.op, s |-> running.s, got |-> running.got, cnt |-> running.cnt] EXCEPT !.got = got]
  BY <1>7
<1>11. got = Null => [op |-> running.op, s |-> running.s, got |-> running.got, cnt |-> running.cnt]'
                     = [op |-> running.op, s |-> running.s, got |-> running.got, cnt |-> running.cnt]
  BY <1>2, <1>7
<1>12. CASE running.op \in {"free", "renew", "quit"}
  <2>1. Neat(after) /\ after.live = {}
    BY <1>2, <1>5, <1>12, FreeSound DEF after
  <2>2. m' = after /\ got = Null /\ rval = FALSE
    BY <1>3, <1>12 DEF got, rval
  <2>3. CleanInv'
    BY <1>7, <1>12, <2>1, <2>2 DEF CleanInv, GivenUp
  <2>4. AbsQueue(m') = <<>>
    BY <2>1, <2>2 DEF AbsQueue
  <2>5. Sequence!Free
    BY <1>0, <1>8, <1>9, <1>11, <1>12, <2>2, <2>4 DEF Sequence!Free, Sequence!Asked
  <2> QED
    BY <2>3, <2>5 DEF Follows, Sequence!Next
<1>13. CASE running.op = "new"
  <2>1. m' = [after EXCEPT !.q = r.ret] /\ got = Null /\ rval = FALSE
    BY <1>3, <1>13 DEF got, rval
  <2>2. Sound(m', qcnt) /\ (m' = m \/ Holds(m', 0, <<>>)) /\ m' \in GoodMemory
    BY <1>2, <1>4, <1>5, <1>13, <2>1, NewSound DEF after
  <2>3. x = <<>> /\ qcnt = 0
    BY <1>2, <1>4, <1>13, SoundQueue DEF x
  <2>4. CleanInv'
    BY <1>0, <1>7, <1>13, <2>1, <2>2, <2>3 DEF CleanInv, GivenUp
  <2>5. CASE m' = m
    <3>1. UNCHANGED Mapped
      BY <1>0, <1>2, <1>7, <2>1, <2>5, Stays
    <3> QED
      BY <2>4, <3>1 DEF Follows
  <2>6. CASE Holds(m', 0, <<>>)
    <3> DEFINE y == m'
               none == <<>>
               c == qcnt
    <3>1. y \in GoodMemory /\ Sound(y, c) /\ Holds(y, c, none)
      BY <2>2, <2>3, <2>6
    <3> HIDE DEF y, none, c
    <3>2. y.q # Null
      BY <3>1, HoldsContents
    <3>3. AbsQueue(y) = <<none>>
      BY <3>1, <3>2, SoundQueue
    <3>4. AbsQueue(m') = << <<>> >>
      BY <3>3 DEF y, none
    <3>5. Sequence!New
      BY <1>0, <1>8, <1>9, <1>11, <1>13, <2>1, <2>3, <3>4 DEF Sequence!New, Sequence!Asked
    <3> QED
      BY <2>4, <3>5 DEF Follows, Sequence!Next
  <2> QED
    BY <2>2, <2>5, <2>6
<1>14. CASE running.op = "remove_head"
  <2>1. m' = after /\ r \in q_remove_head(m)
    BY <1>3, <1>5, <1>14
  <2>2. IF r.ret
        THEN /\ Sound(m', qcnt - 1) /\ x # <<>> /\ x[1] # <<>>
             /\ AbsQueue(m') = <<Tail(x[1])>>
             /\ m.text[m.value[m.head]] = Head(x[1])
        ELSE m' = m
    <3> DEFINE c == qcnt
    <3>1. Sound(m, c)
      BY <1>2
    <3> HIDE DEF c
    <3> QED
      BY <1>2, <2>1, <3>1, RemoveSound DEF after, x, c
  <2>3. CASE r.ret
    <3>1. rval = TRUE /\ got = Head(x[1])
      BY <1>14, <2>2, <2>3 DEF rval, got
    <3>2. CleanInv'
      BY <1>0, <1>7, <1>14, <2>2, <2>3, <3>1 DEF CleanInv, GivenUp
    <3>3. Sequence!RemoveHead
      BY <1>0, <1>8, <1>9, <1>10, <1>14, <2>2, <2>3, <3>1
         DEF Sequence!RemoveHead, Sequence!Change, Sequence!Asked
    <3> QED
      BY <3>2, <3>3 DEF Follows, Sequence!Next
  <2>4. CASE ~r.ret
    <3>1. rval = FALSE /\ got = Null /\ m' = m
      BY <1>14, <2>2, <2>4 DEF rval, got
    <3>2. CleanInv'
      BY <1>0, <1>2, <1>7, <1>14, <3>1 DEF CleanInv, GivenUp
    <3>3. UNCHANGED Mapped
      BY <1>0, <1>2, <1>7, <3>1, Stays
    <3> QED
      BY <3>2, <3>3 DEF Follows
  <2> QED
    BY <2>3, <2>4
<1>15. CASE running.op = "reverse"
  <2>1. m' = after /\ r \in q_reverse(m) /\ got = Null /\ rval = FALSE
    BY <1>3, <1>5, <1>15 DEF got, rval
  <2>2. /\ Sound(m', qcnt)
        /\ IF x = <<>> THEN AbsQueue(m') = <<>>
           ELSE AbsQueue(m') = <<[i \in DOMAIN x[1] |-> x[1][Len(x[1]) + 1 - i]]>>
    BY <1>2, <2>1, ReverseSound DEF after, x
  <2>3. CleanInv'
    BY <1>0, <1>7, <1>15, <2>1, <2>2 DEF CleanInv, GivenUp
  <2>4. CASE x = <<>>
    <3>1. UNCHANGED Mapped
      BY <1>0, <1>2, <1>7, <2>1, <2>2, <2>4, Stays DEF x
    <3> QED
      BY <2>3, <3>1 DEF Follows
  <2>5. CASE x # <<>>
    <3>1. Sequence!Reverse
      BY <1>0, <1>8, <1>9, <1>11, <1>15, <2>1, <2>2, <2>5
         DEF Sequence!Reverse, Sequence!Change, Sequence!Asked
    <3> QED
      BY <2>3, <3>1 DEF Follows, Sequence!Next
  <2> QED
    BY <2>4, <2>5
<1> QED
  BY <1>6, <1>12, <1>13, <1>14, <1>15

\* There is no error to clear.
LEMMA NoError ==
  ASSUME NEW x \in Memory, ~x.error
  PROVE  [x EXCEPT !.error = FALSE] = x
BY DEF Memory

\* Without an error the end of a command leaves the memory alone.
LEMMA QuietEnd ==
  ASSUME NEW x \in Memory, ~x.error, NEW count, NEW ok, alarms = 0, alarms' = 0,
         NEW shown \in show_queue(verbose, x, count), alarms' = shown.alarms, ReturnChecked(shown.m, ok)
  PROVE  m' = x /\ running' = Idle
<1>0. [x EXCEPT !.error = FALSE] = x /\ ~(alarms' = alarms + 1)
  BY NoError
<1>3. Shown(x, shown)
  BY Shows, Zenon
<1>1. shown.m = x
  BY <1>0, <1>3 DEF Shown
<1>2. m' = x \/ m' = [x EXCEPT !.error = FALSE]
  BY <1>1 DEF ReturnChecked
<1> QED
  BY <1>2, NoError DEF ReturnChecked

\* The memory without the queue that was freed.
LEMMA NoQueueSound ==
  ASSUME NEW x \in Memory, Neat(x), x.live = {}
  PROVE  LET y == NoQueue(x)
         IN  /\ y \in Memory /\ ~y.error /\ Sound(y, 0)
             /\ AbsQueue(x) = <<>> /\ AbsQueue(y) = <<>>
<1> DEFINE z == [x EXCEPT !.q = Null, !.head = Null, !.tail = Null]
           y == [z EXCEPT !.sizeL = 0]
<1>1. NoQueue(x) = y
  BY DEF NoQueue
<1>2. z \in Memory /\ SameList(x, z) /\ z.live = x.live /\ z.q = Null
  BY DEF Memory, SameList
<1> HIDE DEF z
<1>3. y \in Memory /\ SameList(z, y) /\ y.live = z.live /\ y.q = Null /\ y.sizeL = 0
  BY <1>2 DEF Memory, SameList
<1> HIDE DEF y
<1>4. Neat(y)
  BY <1>2, <1>3, NeatKept
<1>5. Sound(y, 0) /\ ~y.error
  BY <1>2, <1>3, <1>4 DEF Sound, Neat
<1>6. AbsQueue(x) = <<>> /\ AbsQueue(y) = <<>>
  BY <1>2, <1>3 DEF AbsQueue
<1> QED
  BY <1>1, <1>3, <1>5, <1>6

\* A command that kept the queue is over.
LEMMA Idles ==
  ASSUME SInv, alarms = 0, alarms' = 0, m' = m, running' = Idle, running.op # "none",
         ~GivenUp, qcnt' = IF running.rval THEN qcnt - 1 ELSE qcnt
  PROVE  Follows
<1>1. Sound(m', qcnt')
  BY DEF SInv, CleanInv
<1>2. Idle.op = "none" /\ Idle.rval = FALSE /\ Idle.got = Null /\ Idle.reps = 0
  BY DEF Idle
<1>3. CleanInv'
  BY <1>1, <1>2 DEF CleanInv, GivenUp
<1>4. Sequence!Next
  BY <1>2, Asks
<1> QED
  BY <1>3, <1>4 DEF Follows

\* Before a command that kept the queue is over.
LEMMA AtEnd ==
  ASSUME SInv, alarms = 0, alarms' = 0,
         NEW op \in Ops \ {"none", "free", "renew", "quit", "exited"}, Ends(op)
  PROVE  /\ m \in Memory /\ ~m.error /\ running.op # "none" /\ running.op = op /\ ~GivenUp
         /\ running.reps = 0 /\ alarms' = 0 /\ qcnt \in Int
         /\ running.op # "remove_head" => ~running.rval
         /\ running.op = "new" => qcnt = 0
<1>1. running \in Running /\ running.op = op /\ alarms' = 0 /\ m \in Memory /\ qcnt \in Int
  BY DEF Ends, SInv, IInv, TypeInv, CountInv
<1>2. running.reps = 0
  BY <1>1 DEF Ends, Risky, Running
<1>3. ~GivenUp
  BY <1>1 DEF GivenUp
<1>4. ~m.error
  BY <1>3 DEF SInv, CleanInv, Sound, Neat
<1>5. running.op # "remove_head" => ~running.rval
  BY <1>1 DEF SInv, CleanInv, Running
<1>6. running.op = "new" => qcnt = 0
  BY <1>1, <1>2 DEF SInv, CleanInv
<1> QED
  BY <1>1, <1>2, <1>3, <1>4, <1>5, <1>6

\* Before a command that gave the queue up is over.
LEMMA AtGivenUp ==
  ASSUME SInv, alarms = 0, alarms' = 0, NEW op \in {"free", "renew", "quit"}, Ends(op)
  PROVE  /\ m \in Memory /\ Neat(m) /\ m.live = {} /\ running.op = op /\ GivenUp
         /\ alarms' = 0 /\ running.rval = FALSE /\ running.got = Null
<1>1. running \in Running /\ running.op = op /\ alarms' = 0 /\ m \in Memory
  BY DEF Ends, SInv, IInv, TypeInv
<1>2. running.reps = 0
  BY <1>1 DEF Ends, Risky, Running
<1>3. GivenUp
  BY <1>1, <1>2 DEF GivenUp
<1>4. running.rval = FALSE /\ running.got = Null
  BY <1>1 DEF SInv, CleanInv, Running
<1> QED
  BY <1>1, <1>3, <1>4 DEF SInv, CleanInv

\* The end of a command.
LEMMA EndFollows ==
  ASSUME SInv, alarms = 0, alarms' = 0,
         do_free \/ do_new \/ do_insert \/ do_remove_head \/ do_reverse \/ do_size
  PROVE  Follows
<1>0. Idle.op = "none" /\ Idle.rval = FALSE /\ Idle.got = Null /\ Idle.reps = 0
  BY DEF Idle
<1> DEFINE y == NoQueue(m)
<1>1. CASE do_free
  <2>1. Ends("free") /\ qcnt' = 0 /\ ReturnChecked(y, Balanced(m))
    BY <1>1 DEF do_free
  <2>2. /\ m \in Memory /\ Neat(m) /\ m.live = {} /\ running.op = "free" /\ alarms' = 0
    BY <2>1, AtGivenUp
  <2>3. /\ y \in Memory /\ ~y.error /\ Sound(y, 0) /\ AbsQueue(m) = <<>> /\ AbsQueue(y) = <<>>
    BY <2>2, NoQueueSound
  <2> HIDE DEF y
  <2>4. (m' = y \/ m' = [y EXCEPT !.error = FALSE]) /\ running' = Idle
    BY <2>1 DEF ReturnChecked
  <2>5. m' = y
    BY <2>3, <2>4, NoError
  <2>6. CleanInv'
    BY <1>0, <2>1, <2>3, <2>4, <2>5 DEF CleanInv, GivenUp
  <2>7. Sequence!Next
    BY <1>0, <2>2, <2>3, <2>4, <2>5, Asks
  <2> QED
    BY <2>6, <2>7 DEF Follows
<1>2. CASE Ends("renew") /\ do_new
  <2>1. /\ qcnt' = 0 /\ m' = [y EXCEPT !.error = FALSE]
        /\ running' = [running EXCEPT !.op = "new", !.reps = 1, !.ok = Balanced(m) /\ ~m.error]
    BY <1>2 DEF do_new, Ends
  <2>2. /\ m \in Memory /\ Neat(m) /\ m.live = {} /\ running.op = "renew" /\ alarms' = 0
        /\ running.rval = FALSE /\ running.got = Null
    BY <1>2, AtGivenUp
  <2>3. /\ y \in Memory /\ ~y.error /\ Sound(y, 0) /\ AbsQueue(m) = <<>> /\ AbsQueue(y) = <<>>
    BY <2>2, NoQueueSound
  <2> HIDE DEF y
  <2>4. m' = y
    BY <2>1, <2>3, NoError
  <2>5. running \in Running
    BY DEF SInv, IInv, TypeInv
  <2>6. /\ running'.op = "new" /\ running'.reps = 1 /\ running'.rval = FALSE /\ running'.got = Null
    BY <2>1, <2>2, <2>5 DEF Running
  <2>7. CleanInv'
    BY <2>1, <2>3, <2>4, <2>6 DEF CleanInv, GivenUp
  <2>8. Sequence!Next
    BY <2>2, <2>3, <2>4, <2>6, Asks
  <2> QED
    BY <2>7, <2>8 DEF Follows
<1>3. CASE Ends("new") /\ do_new
  <2>2. /\ m \in Memory /\ ~m.error /\ running.op # "none" /\ ~GivenUp /\ alarms' = 0
        /\ ~running.rval /\ qcnt = 0
    BY <1>3, AtEnd DEF Ops
  <2>1. running.op = "new"
    BY <1>3 DEF Ends
  <2>3. /\ qcnt' = 0
        /\ \E shown \in show_queue(verbose, m, 0) :
             alarms' = shown.alarms /\ ReturnChecked(shown.m, running.ok)
    BY <1>3, <2>1 DEF do_new, Ends
  <2>4. m' = m /\ running' = Idle
    BY <2>2, <2>3, QuietEnd
  <2> QED
    BY <2>2, <2>3, <2>4, Idles
<1>4. CASE do_insert
  <2>1. /\ Ends("insert_head") \/ Ends("insert_tail")
        /\ running' = Idle /\ qcnt' = qcnt
    BY <1>4 DEF do_insert
  <2>4. PICK shown \in show_queue(verbose, m, qcnt) : alarms' = shown.alarms /\ m' = shown.m
    BY <1>4 DEF do_insert
  <2>2. /\ m \in Memory /\ ~m.error /\ running.op # "none" /\ ~GivenUp /\ alarms' = 0
        /\ ~running.rval
    BY <2>1, AtEnd DEF Ops
  <2>3. m' = m
    <3>1. [m EXCEPT !.error = FALSE] = m /\ ~(alarms' = alarms + 1)
      BY <2>2, NoError
    <3>2. Shown(m, shown)
      BY <2>4, Shows, Zenon
    <3> QED
      BY <2>4, <3>1, <3>2 DEF Shown
  <2> QED
    BY <2>1, <2>2, <2>3, Idles
<1>5. CASE do_remove_head
  <2>1. Ends("remove_head") /\ qcnt' = qcnt - (IF running.rval THEN 1 ELSE 0)
    BY <1>5 DEF do_remove_head
  <2>2. \E ok : \E shown \in show_queue(verbose, m, qcnt') :
          alarms' = shown.alarms /\ ReturnChecked(shown.m, ok)
    BY <1>5 DEF do_remove_head
  <2>3. /\ m \in Memory /\ ~m.error /\ running.op # "none" /\ ~GivenUp /\ alarms' = 0 /\ qcnt \in Int
    BY <2>1, AtEnd DEF Ops
  <2>4. m' = m /\ running' = Idle
    BY <2>2, <2>3, QuietEnd
  <2>5. qcnt' = IF running.rval THEN qcnt - 1 ELSE qcnt
    BY <2>1, <2>3
  <2> QED
    BY <2>3, <2>4, <2>5, Idles
<1>6. CASE do_reverse \/ do_size
  <2>1. (Ends("reverse") \/ Ends("size")) /\ qcnt' = qcnt
    BY <1>6 DEF do_reverse, do_size
  <2>2. \E ok : \E shown \in show_queue(verbose, m, qcnt) :
          alarms' = shown.alarms /\ ReturnChecked(shown.m, ok)
    BY <1>6 DEF do_reverse, do_size
  <2>3. /\ m \in Memory /\ ~m.error /\ running.op # "none" /\ ~GivenUp /\ alarms' = 0
        /\ ~running.rval
    BY <2>1, AtEnd DEF Ops
  <2>4. m' = m /\ running' = Idle
    BY <2>2, <2>3, QuietEnd
  <2> QED
    BY <2>1, <2>3, <2>4, Idles
<1>7. do_new => Ends("renew") \/ Ends("new")
  BY DEF do_new
<1> QED
  BY <1>1, <1>2, <1>3, <1>4, <1>5, <1>6, <1>7

\* show_queue between commands finds no error to clear.
LEMMA ShowFollows ==
  ASSUME SInv, alarms = 0, alarms' = 0, do_show
  PROVE  Follows
<1>1. /\ running = Idle /\ running' = running /\ qcnt' = qcnt
  BY DEF do_show
<1>7. PICK shown \in show_queue(TRUE, m, qcnt) : m' = shown.m /\ alarms' = shown.alarms
  BY DEF do_show
<1>2. Sound(m, qcnt) /\ m \in Memory
  BY <1>1, AtRest
<1>3. m' = m \/ m' = [m EXCEPT !.error = FALSE]
  <2>1. ~(alarms' = alarms + 1)
    OBVIOUS
  <2>2. Shown(m, shown)
    BY <1>7, Shows, Zenon
  <2> QED
    BY <1>7, <2>1, <2>2 DEF Shown
<1>4. m' = m
  BY <1>2, <1>3, NoError DEF Sound, Neat
<1>5. CleanInv'
  BY <1>1, <1>4 DEF SInv, CleanInv, GivenUp
<1>6. UNCHANGED Mapped
  BY <1>1, <1>4, Stays
<1> QED
  BY <1>5, <1>6 DEF Follows

\* The end of the program frees what is left.
LEMMA QuitFollows ==
  ASSUME SInv, alarms = 0, queue_quit
  PROVE  Follows
<1>1. CASE running = Idle
  <2>1. Idle.op = "none" /\ Idle.rval = FALSE /\ Idle.got = Null /\ Idle.reps = 0
    BY DEF Idle
  <2>2. running' = [Idle EXCEPT !.op = "quit", !.reps = 1] /\ m' = m /\ qcnt' = qcnt /\ alarms' = 0
    BY <1>1, <2>1 DEF queue_quit, Ends
  <2>3. running'.op = "quit" /\ running'.reps = 1 /\ running'.rval = FALSE /\ running'.got = Null
    BY <2>2 DEF Idle
  <2>4. Sound(m', qcnt')
    BY <1>1, <2>2, AtRest
  <2>5. CleanInv'
    BY <2>3, <2>4 DEF CleanInv, GivenUp
  <2>6. Sequence!Next
    BY <1>1, <2>1, <2>2, <2>3, Asks
  <2> QED
    BY <2>5, <2>6 DEF Follows
<1>2. CASE running # Idle
  <2>1. Ends("quit") /\ running' = [Idle EXCEPT !.op = "exited"] /\ m' = m /\ alarms' = 0
    BY <1>2 DEF queue_quit
  <2>2. Neat(m) /\ m.live = {} /\ running.op = "quit" /\ alarms' = 0
    BY <2>1, AtGivenUp
  <2>3. running'.op = "exited" /\ running'.reps = 0 /\ running'.rval = FALSE /\ running'.got = Null
    BY <2>1 DEF Idle
  <2>4. CleanInv'
    BY <2>1, <2>2, <2>3 DEF CleanInv, GivenUp
  <2>5. Sequence!Next
    BY <2>1, <2>2, <2>3, Asks
  <2> QED
    BY <2>4, <2>5 DEF Follows
<1> QED
  BY <1>1, <1>2

\* A program without memory has no next operation.
LEMMA AbortFollows ==
  ASSUME SInv, alarms = 0, OutOfMemory
  PROVE  Follows
<1>1. /\ Risky /\ running' = [Idle EXCEPT !.op = "aborted"] /\ m' = m /\ qcnt' = qcnt /\ alarms' = 0
      /\ running.op \in {"new", "insert_head", "insert_tail"}
  BY DEF OutOfMemory
<1>2. running'.op = "aborted" /\ running'.rval = FALSE /\ running'.got = Null
  BY <1>1 DEF Idle
<1>3. Sound(m, qcnt)
  BY <1>1, AtCall
<1>4. CleanInv'
  BY <1>1, <1>2, <1>3 DEF CleanInv, GivenUp
<1>5. Sequence!Next
  BY <1>1, <1>2, Asks
<1> QED
  BY <1>4, <1>5 DEF Follows

\* Init establishes the invariant and maps to an abstract initial state.
LEMMA StartMaps == Init => SInv /\ Sequence!Init
<1> SUFFICES ASSUME Init PROVE SInv /\ Sequence!Init
  OBVIOUS
<1>1. m = EmptyMemory /\ qcnt = 0 /\ running = Idle /\ alarms = 0
  BY DEF Init, queue_init
<1>2. running.op = "none" /\ m.live = {}
  BY <1>1 DEF Idle, EmptyMemory
<1>3. Sequence!Init
  BY <1>1, <1>2 DEF Sequence!Init
<1> QED
  BY <1>3, Typing, CleanStart DEF SInv

\* Counts stay numbers.
LEMMA CountStep == SInv /\ [Next]_vars => alarms' \in Nat /\ qcnt' \in Int /\ (alarms # 0 => alarms' # 0)
<1> SUFFICES ASSUME SInv, [Next]_vars
             PROVE  alarms' \in Nat /\ qcnt' \in Int /\ (alarms # 0 => alarms' # 0)
  OBVIOUS
<1>0. alarms \in Nat /\ qcnt \in Int
  BY DEF SInv, CountInv
<1>10. alarms' \in Nat /\ (alarms # 0 => alarms' # 0)
  BY <1>0, AlarmsGrow
<1>1. CASE Command
  <2>1. \E op, s, reps : Begin(op, s, reps)
    BY <1>1 DEF Command
  <2> QED
    BY <1>0, <2>1 DEF Begin
<1>2. CASE Alarm \/ OutOfMemory
  BY <1>0, <1>2, <1>10 DEF Alarm, OutOfMemory
<1>3. CASE Insert
  <2>1. PICK r \in Runs : qcnt' = qcnt + (IF r.ret THEN 1 ELSE 0)
    BY <1>3 DEF Insert
  <2>2. (IF r.ret THEN 1 ELSE 0) \in Int
    OBVIOUS
  <2> HIDE DEF Runs
  <2> QED
    BY <1>0, <1>10, <2>1, <2>2
<1>4. CASE Size \/ Call \/ do_show
  BY <1>0, <1>10, <1>4 DEF Size, Call, do_show
<1>5. CASE do_free \/ do_new
  BY <1>0, <1>10, <1>5 DEF do_free, do_new, Ends
<1>6. CASE do_insert \/ do_reverse \/ do_size
  BY <1>0, <1>10, <1>6 DEF do_insert, do_reverse, do_size, Ends
<1>7. CASE do_remove_head
  BY <1>0, <1>10, <1>7 DEF do_remove_head, Ends
<1>8. CASE queue_quit
  <2>1. qcnt' = qcnt
    BY <1>8 DEF queue_quit
  <2> QED
    BY <1>0, <1>10, <2>1
<1>9. CASE UNCHANGED vars
  BY <1>0, <1>10, <1>9 DEF vars
<1> QED
  BY <1>1, <1>2, <1>3, <1>4, <1>5, <1>6, <1>7, <1>8, <1>9 DEF Next

\* A step without an alarm.
LEMMA CleanStep == SInv /\ [Next]_vars /\ alarms = 0 /\ alarms' = 0 => Follows
<1> SUFFICES ASSUME SInv, [Next]_vars, alarms = 0, alarms' = 0 PROVE Follows
  OBVIOUS
<1>1. CASE Command
  BY <1>1, CommandFollows
<1>2. CASE Alarm
  BY <1>2 DEF Alarm
<1>3. CASE Insert
  BY <1>3, InsertFollows
<1>4. CASE Size
  BY <1>4, SizeFollows
<1>5. CASE Call
  BY <1>5, CallFollows
<1>6. CASE do_free \/ do_new \/ do_insert \/ do_remove_head \/ do_reverse \/ do_size
  BY <1>6, EndFollows
<1>7. CASE do_show
  BY <1>7, ShowFollows
<1>8. CASE queue_quit
  BY <1>8, QuitFollows
<1>10. CASE OutOfMemory
  BY <1>10, AbortFollows
<1>9. CASE UNCHANGED vars
  <2>1. m' = m /\ qcnt' = qcnt /\ running' = running
    BY <1>9 DEF vars
  <2>2. CleanInv'
    BY <2>1 DEF SInv, CleanInv, GivenUp
  <2>3. UNCHANGED Mapped
    BY <2>1, Stays
  <2> QED
    BY <2>2, <2>3 DEF Follows
<1> QED
  BY <1>1, <1>2, <1>3, <1>4, <1>5, <1>6, <1>7, <1>8, <1>9, <1>10 DEF Next

\* Every step keeps the invariant and is a step of the abstract queue; an
\* alarm is the one after which nothing is promised.
LEMMA StepMaps == SInv /\ [Next]_vars => SInv' /\ (Sequence!Next \/ UNCHANGED Mapped)
<1> SUFFICES ASSUME SInv, [Next]_vars PROVE SInv' /\ (Sequence!Next \/ UNCHANGED Mapped)
  OBVIOUS
<1>1. IInv' /\ CountInv' /\ (alarms # 0 => alarms' # 0)
  BY Preserved, CountStep DEF SInv, CountInv
<1>2. CASE alarms = 0 /\ alarms' = 0
  BY <1>1, <1>2, CleanStep DEF Follows, SInv
<1>3. CASE alarms' # 0
  <2>1. CleanInv'
    BY <1>3 DEF CleanInv
  <2>2. (alarms = 0)' = FALSE
    BY <1>3
  <2>3. Sequence!BreakOff
    BY <2>2 DEF Sequence!BreakOff
  <2> QED
    BY <1>1, <2>1, <2>3 DEF SInv, Sequence!Next
<1> QED
  BY <1>1, <1>2, <1>3

\* Between any two steps of a session that no alarm has left.
LEMMA SoundAlways == Spec => []SInv
<1>1. Init => SInv
  BY StartMaps
<1>2. SInv /\ [Next]_vars => SInv'
  BY StepMaps
<1> QED
  BY <1>1, <1>2, PTL DEF Spec

(* queue.c on the harness's allocator is a queue of strings open at both   *)
(* ends: whatever qtest is told, and however the allocations fail, a       *)
(* command changes the queue as its name says, qcnt moves with it, q_size  *)
(* and the removed string are right, until an alarm breaks a command off.  *)
THEOREM QueueRefinement == Spec => ImplementsSequence
<1>1. Init => Sequence!Init
  BY StartMaps
<1>2. SInv /\ [Next]_vars =>
        [Sequence!Next]_<<IF m.q \notin m.live \/ alarms > 0 THEN <<>> ELSE <<Contents(m)>>, alarms = 0,
           [op |-> running.op, s |-> running.s, got |-> running.got, cnt |-> running.cnt], qcnt>>
  BY StepMaps DEF Mapped
<1> QED
  BY <1>1, <1>2, SoundAlways, PTL DEF Spec, ImplementsSequence, Sequence!Spec

-----------------------------------------------------------------------------
\* A right list of the harness holds what malloc gave out, and counts it.
LEMMA ListExact ==
  ASSUME NEW x \in Memory, HasList(x)
  PROVE  LET listed == Walk(x.bnext, x.allocated)
         IN  /\ ToSet(listed) = x.live
             /\ Len(listed) = x.allocated_count /\ x.allocated_count = Cardinality(x.live)
             /\ \A i \in DOMAIN listed : x.bprev[listed[i]] = IF i = 1 THEN Null ELSE listed[i-1]
<1>1. PICK n, ls : Listed(x, n, ls)
  BY DEF HasList
<1> DEFINE next == x.bnext
           first == x.allocated
<1>2. next \in Link /\ Path(next, first, n, ls)
  BY <1>1 DEF Memory, Listed
<1> HIDE DEF next, first
<1>3. Walk(next, first) = ls
  BY <1>2, WalkIsPath
<1>4. /\ n \in Nat /\ ls \in [1..n -> Blocks] /\ DOMAIN ls = 1..n /\ Len(ls) = n
      /\ \A i, j \in 1..n : ls[i] = ls[j] => i = j
  BY <1>2 DEF Path
<1>5. x.live = {ls[i] : i \in 1..n}
  BY <1>1 DEF Listed
<1>6. ToSet(ls) = x.live
  BY <1>4, <1>5 DEF ToSet
<1>7. Cardinality(x.live) = n
  <2>1. ls \in Bijection(1..n, x.live)
    BY <1>4, <1>5 DEF Bijection, Injection, Surjection, IsInjective
  <2>2. ExistsBijection(1..n, x.live)
    BY <2>1 DEF ExistsBijection
  <2> QED
    BY <1>4, <2>2, FS_CountingElements
<1>8. x.allocated_count = n /\ \A i \in 1..n : x.bprev[ls[i]] = IF i = 1 THEN Null ELSE ls[i-1]
  BY <1>1 DEF Listed
<1> QED
  BY <1>3, <1>4, <1>6, <1>7, <1>8 DEF next, first

\* A sound memory has no block but those of the queue.
LEMMA SoundExact ==
  ASSUME NEW x \in GoodMemory, NEW c, Sound(x, c)
  PROVE  LET es == Elements(x)
         IN  /\ x.live = ({x.q} \ {Null}) \cup ToSet(es) \cup {x.value[e] : e \in ToSet(es)}
             /\ c = Len(es) /\ x.sizeL = c
<1>1. CASE x.q = Null
  <2>1. x.live = {} /\ c = 0 /\ x.sizeL = 0 /\ Elements(x) = <<>>
    BY <1>1 DEF Sound, Elements
  <2>2. ToSet(<<>>) = {} /\ Len(<<>>) = 0
    BY DEF ToSet
  <2> QED
    BY <1>1, <2>1, <2>2
<1>2. CASE x.q # Null
  <2>1. PICK ws : Holds(x, c, ws)
    BY <1>2 DEF Sound
  <2>2. PICK es : Exact(x, c, es)
    BY <2>1 DEF Holds
  <2>3. Elements(x) = es /\ Len(es) = c /\ c \in Nat /\ es \in [1..c -> Blocks]
    BY <1>2, <2>2, ElementsFound DEF Exact
  <2>4. ToSet(es) = {es[i] : i \in 1..c}
    BY <2>3 DEF ToSet
  <2>5. x.live = {x.q} \cup {es[i] : i \in 1..c} \cup {x.value[es[i]] : i \in 1..c} /\ x.sizeL = c
    BY <2>2 DEF Exact
  <2>6. {x.value[es[i]] : i \in 1..c} = {x.value[e] : e \in ToSet(es)}
    BY <2>4
  <2>7. {x.q} \ {Null} = {x.q}
    BY <1>2
  <2> QED
    BY <2>3, <2>4, <2>5, <2>6, <2>7
<1> QED
  BY <1>1, <1>2

\* The invariant says that no block is lost.
LEMMA NothingLostNow == SInv => NothingLost
<1> SUFFICES ASSUME SInv, alarms = 0
             PROVE  LET es == Elements(m)
                        listed == Walk(m.bnext, m.allocated)
                    IN  /\ ~m.error
                        /\ running.op \in {"none", "remove_head", "size"} =>
                             m.live = ({m.q} \ {Null}) \cup ToSet(es) \cup {m.value[e] : e \in ToSet(es)}
                        /\ ToSet(listed) = m.live
                        /\ Len(listed) = m.allocated_count /\ m.allocated_count = Cardinality(m.live)
                        /\ \A i \in DOMAIN listed : m.bprev[listed[i]] = IF i = 1 THEN Null ELSE listed[i-1]
                        /\ running.op = "none" => qcnt = Len(es) /\ m.sizeL = qcnt
  BY DEF NothingLost
<1>1. m \in Memory /\ Neat(m)
  BY DEF SInv, IInv, TypeInv, CleanInv, Sound
<1>2. CASE running.op \in {"none", "remove_head", "size"}
  <2> DEFINE c == IF running.rval THEN qcnt - 1 ELSE qcnt
  <2>1. m \in GoodMemory /\ Sound(m, c)
    BY <1>2 DEF SInv, IInv, QueueInv, CleanInv, GivenUp
  <2>2. running.op = "none" => c = qcnt
    BY DEF SInv, CleanInv
  <2> HIDE DEF c
  <2> QED
    BY <1>1, <2>1, <2>2, ListExact, SoundExact DEF Neat
<1>3. CASE running.op \notin {"none", "remove_head", "size"}
  BY <1>1, <1>3, ListExact DEF Neat
<1> QED
  BY <1>2, <1>3

(* Whatever sequence of commands, with whatever failing allocations, ran   *)
(* without an alarm: no block is lost, the harness's list and count are    *)
(* exactly the blocks in use, no command sees an error, and between        *)
(* commands the counts of queue, qtest and harness agree.                  *)
THEOREM NoneLost == Spec => []NothingLost
BY SoundAlways, NothingLostNow, PTL
=============================================================================
