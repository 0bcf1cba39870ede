----------------------------- MODULE QueueHeap -----------------------------
(***************************************************************************)
(* queue.c of the C programming lab on the allocator of harness.c.  A      *)
(* function of the code is the set of its runs: a run is the sequence of   *)
(* memories between its assignments, beginning with the one it is called   *)
(* with, and what it returns.  An alarm may leave it at any of them.       *)
(* Assignments to a block nobody points to yet are not told apart.         *)
(***************************************************************************)
EXTENDS Integers, SequencesExt

CONSTANTS Blocks,       \* addresses the C library gives out
          Null,
          Strings

ASSUME HeapAssumption == Null \notin Blocks \cup Strings /\ IsFiniteSet(Blocks)

(***************************************************************************)
(* A memory: the blocks not freed, the harness's list of them and count    *)
(* (error is error_occurred), the queue and its fields, and the fields of  *)
(* list elements and strings.                                              *)
(***************************************************************************)
NoBlock == [b \in Blocks |-> Null]

EmptyMemory ==
  [live |-> {}, allocated |-> Null, allocated_count |-> 0, error |-> FALSE,
   bnext |-> NoBlock, bprev |-> NoBlock,
   q |-> Null, head |-> Null, tail |-> Null, sizeL |-> 0,
   next |-> NoBlock, value |-> NoBlock, text |-> NoBlock]

\* The blocks met from first on, in order; longer than Blocks in a cycle.
Walk(next, first) ==
  LET N == Cardinality(Blocks)
      at[n \in 0..N] == IF n = 0 THEN first
                        ELSE IF at[n-1] = Null THEN Null ELSE next[at[n-1]]
  IN  [i \in 1..Cardinality({n \in 0..N : at[n] # Null}) |-> at[i-1]]

Elements(m) == IF m.q = Null THEN <<>> ELSE Walk(m.next, m.head)
Contents(m) == [i \in DOMAIN Elements(m) |-> m.text[m.value[Elements(m)[i]]]]

\* The block that malloc gives out.  Addresses are interchangeable: a choice
\* that reuses what was freed as soon as it can stands for all of them.
Full(m) == m.live = Blocks
Fresh(m) == CHOOSE b \in Blocks : b \notin m.live

-----------------------------------------------------------------------------
(* harness.c *)
\* The steps of test_malloc: the new block, which links to the list, and the
\* link back to it.  That the C library has no block is Qtest's OutOfMemory.
Created(m, b) == [m EXCEPT !.live = @ \cup {b}, !.bnext[b] = m.allocated, !.bprev[b] = Null]
LinkedFront(m, b) == IF m.allocated = Null THEN m ELSE [m EXCEPT !.bprev[m.allocated] = b]

test_malloc(m) ==
  LET b == Fresh(m)
      created == Created(m, b)
      linked == LinkedFront(created, b)
      listed == [linked EXCEPT !.allocated = b]
  IN  <<m, created, linked, listed, [listed EXCEPT !.allocated_count = @ + 1]>>

\* The check of find_header; without caution the magic number is still that
\* of a block in use.
Recognised(m, b, cautious) ==
  IF cautious THEN b \in ToSet(Walk(m.bnext, m.allocated)) ELSE b \in m.live

\* The steps of test_free: find_header, the two unlinkings and free.
Checked(m, b, cautious) ==
  IF Recognised(m, b, cautious) THEN m ELSE [m EXCEPT !.error = TRUE]

LinkedPast(m, bp, bn) ==
  IF bp # Null THEN [m EXCEPT !.bnext[bp] = bn] ELSE [m EXCEPT !.allocated = bn]

LinkedBack(m, bp, bn) == IF bn # Null THEN [m EXCEPT !.bprev[bn] = bp] ELSE m

Freed(m, b) ==
  LET wiped == [m EXCEPT !.next[b] = Null, !.value[b] = Null, !.text[b] = Null]
  IN  [wiped EXCEPT !.live = @ \ {b}, !.bnext[b] = Null, !.bprev[b] = Null]

test_free(m, b, cautious) ==
  LET checked == Checked(m, b, cautious)
      before == LinkedPast(checked, m.bprev[b], m.bnext[b])
      after == LinkedBack(before, m.bprev[b], m.bnext[b])
      freed == Freed(after, b)
  IN  <<m, checked, before, after, freed, [freed EXCEPT !.allocated_count = @ - 1]>>

-----------------------------------------------------------------------------
(* queue.c *)
Ran(trace, ret) == [trace |-> trace, ret |-> ret]

\* The value is the new queue, assigned by the caller when the run is over.
q_new(m) ==
  LET t == test_malloc(m)
  IN  {Ran(<<m>>, Null)} \cup
      IF Full(m) THEN {}
      ELSE {Ran(Append(t, [Last(t) EXCEPT !.head = Null, !.tail = Null, !.sizeL = 0]), Fresh(m))}

q_free(m, cautious) ==
  LET es == Elements(m)
      freed[i \in 0..Len(es)] ==
        IF i = 0 THEN <<m>>
        ELSE LET t == freed[i-1] \o test_free(Last(freed[i-1]), m.value[es[i]], cautious)
             IN  t \o test_free(Last(t), es[i], cautious)
      all == freed[Len(es)]
  IN  IF m.q = Null THEN {Ran(<<m>>, TRUE)}
      ELSE {Ran(all \o test_free(Last(all), m.q, cautious), TRUE)}

\* Mutant: the element is not given back when the string cannot be allocated.
Refused_Orphan(m) ==
  {Ran(<<m>>, FALSE)} \cup (IF Full(m) THEN {} ELSE {Ran(test_malloc(m), FALSE)})

\* The two allocations of an insertion, and its end if one fails.
Refused(m) ==
  LET t == test_malloc(m)
  IN  {Ran(<<m>>, FALSE)} \cup
      IF Full(m) THEN {} ELSE {Ran(t \o test_free(Last(t), Fresh(m), TRUE), FALSE)}

\* The runs of both allocations and the copy of the string, if there is room.
Allocated(m, s) ==
  LET t == test_malloc(m)
      e == Fresh(m)
      u == t \o test_malloc(Last(t))
      v == Fresh(Last(t))
  IN  IF Cardinality(m.live) + 2 > Cardinality(Blocks) THEN {}
      ELSE {[trace |-> Append(u, [Last(u) EXCEPT !.text[v] = s, !.value[e] = v]), ret |-> e]}

head_inserted(t, e) ==
  LET m == Last(t)
      entered == [m EXCEPT !.next[e] = m.head, !.head = e]
      counted == [entered EXCEPT !.sizeL = @ + 1]
  IN  t \o <<entered, counted, IF m.tail = Null THEN [counted EXCEPT !.tail = e] ELSE counted>>

q_insert_head(m, s) ==
  IF m.q = Null THEN {Ran(<<m>>, FALSE)}
  ELSE Refused(m) \cup {Ran(head_inserted(r.trace, r.ret), TRUE) : r \in Allocated(m, s)}

\* Mutant: tail stays at the element before the last.
tail_inserted_StaleTail(t, e) ==
  LET m == Last(t)
      entered == IF m.tail = Null THEN [m EXCEPT !.next[e] = Null, !.head = e, !.tail = e]
                 ELSE [m EXCEPT !.next[e] = Null, !.next[m.tail] = e]
  IN  t \o <<entered, [entered EXCEPT !.sizeL = @ + 1]>>

tail_inserted(t, e) ==
  LET m == Last(t)
      entered == IF m.tail = Null THEN [m EXCEPT !.next[e] = Null, !.head = e]
                 ELSE [m EXCEPT !.next[e] = Null, !.next[m.tail] = e]
      moved == [entered EXCEPT !.tail = e]
  IN  t \o <<entered, moved, [moved EXCEPT !.sizeL = @ + 1]>>

q_insert_tail(m, s) ==
  IF m.q = Null THEN {Ran(<<m>>, FALSE)}
  ELSE Refused(m) \cup {Ran(tail_inserted(r.trace, r.ret), TRUE) : r \in Allocated(m, s)}

\* Mutant: the element is freed before it is unlinked.
q_remove_head_FreeFirst(m) ==
  IF m.q = Null \/ m.head = Null THEN {Ran(<<m>>, FALSE)}
  ELSE LET h == m.head
           t == test_free(m, m.value[h], TRUE)
           u == t \o test_free(Last(t), h, TRUE)
           trimmed == IF h = m.tail THEN [Last(u) EXCEPT !.tail = m.next[h]] ELSE Last(u)
       IN  {Ran(u \o <<trimmed, [trimmed EXCEPT !.head = m.next[h], !.sizeL = @ - 1]>>, TRUE)}

q_remove_head(m) ==
  IF m.q = Null \/ m.head = Null THEN {Ran(<<m>>, FALSE)}
  ELSE LET h == m.head
           trimmed == IF h = m.tail THEN [m EXCEPT !.tail = m.next[h]] ELSE m
           unlinked == [trimmed EXCEPT !.head = m.next[h]]
           counted == [unlinked EXCEPT !.sizeL = @ - 1]
           t == test_free(counted, m.value[h], TRUE)
       IN  {Ran(<<m, trimmed, unlinked>> \o t \o test_free(Last(t), h, TRUE), TRUE)}

q_size(m) == IF m.q = Null \/ m.head = Null THEN 0 ELSE m.sizeL

q_reverse(m) ==
  IF m.q = Null \/ m.head = Null THEN {Ran(<<m>>, TRUE)}
  ELSE LET es == Elements(m)
           turned[i \in 0..Len(es)] ==
             IF i = 0 THEN <<m, [m EXCEPT !.tail = m.head]>>
             ELSE LET l == Last(turned[i-1])
                  IN  Append(turned[i-1],
                             [l EXCEPT !.next[es[i]] = IF i = 1 THEN Null ELSE es[i-1]])
           all == turned[Len(es)]
       IN  {Ran(Append(all, [Last(all) EXCEPT !.head = es[Len(es)]]), TRUE)}
=============================================================================
