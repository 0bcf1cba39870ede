------------------------------ MODULE CacheSim ------------------------------
(***************************************************************************)
(* csim.c: a cache of num_set sets of association lines, each with a       *)
(* valid bit, a tag and the time of its last use, driven by a trace.       *)
(***************************************************************************)
EXTENDS Integers, FiniteSets, SequencesExt

CONSTANTS
  w, s, E, b,             \* width of an address; the options -s, -E and -b
  Addresses,              \* those of the trace, below 2^w
  MaxTrace                \* bound: lines of the trace

\* s is not 0: simulate would shift by the width of an address, which is undefined.
\* So is a run whose trace cannot be opened or whose sets cannot be allocated:
\* simulate or initCache returns early and main prints and frees what was never set.

VARIABLES cache,
          address,        \* of the last access
          pending,        \* an M line has its second access to make
          length

vars == <<cache, address, pending, length>>

\* Powers of 2, and so what a shift multiplies and divides by.
pow2[k \in 0..w] == IF k = 0 THEN 1 ELSE 2 * pow2[k - 1]

Unused == [LRU |-> 0, valid |-> FALSE, tag |-> 0]

initCache(S, lines) ==
  [set |-> [i \in 0..S-1 |-> [j \in 0..lines-1 |-> Unused]],
   timeStamp |-> 0, num_hit |-> 0, num_miss |-> 0, num_eviction |-> 0]

-----------------------------------------------------------------------------
(* updateCache for one load or store. *)
Match(line, tag) == line.valid /\ line.tag = tag

\* The line used least recently: the first with the smallest time.
Victim(lines) ==
  CHOOSE i \in DOMAIN lines : \A j \in DOMAIN lines :
    lines[i].LRU < lines[j].LRU \/ (lines[i].LRU = lines[j].LRU /\ i <= j)

\* Mutant: a hit does not count as a use.
updateCache_Fifo(c, set, tag) ==
  LET lines == c.set[set]
      free == {i \in DOMAIN lines : ~lines[i].valid}
      i == IF free # {} THEN CHOOSE k \in free : \A j \in free : k <= j ELSE Victim(lines)
  IN  IF \E k \in DOMAIN lines : Match(lines[k], tag)
      THEN [c EXCEPT !.num_hit = @ + 1]
      ELSE [c EXCEPT !.set[set][i] = [LRU |-> c.timeStamp, valid |-> TRUE, tag |-> tag],
                     !.timeStamp = @ + 1, !.num_miss = @ + 1,
                     !.num_eviction = @ + (IF free = {} THEN 1 ELSE 0)]

updateCache(c, set, tag) ==
  LET lines == c.set[set]
      hit == {i \in DOMAIN lines : Match(lines[i], tag)}
      free == {i \in DOMAIN lines : ~lines[i].valid}
      First(is) == CHOOSE i \in is : \A j \in is : i <= j
      i == IF hit # {} THEN First(hit) ELSE IF free # {} THEN First(free) ELSE Victim(lines)
      used == [c EXCEPT !.set[set][i] = [LRU |-> c.timeStamp, valid |-> TRUE, tag |-> tag],
                        !.timeStamp = @ + 1]
  IN  CASE hit # {} -> [used EXCEPT !.num_hit = @ + 1]
        [] hit = {} /\ free # {} -> [used EXCEPT !.num_miss = @ + 1]
        [] OTHER -> [used EXCEPT !.num_miss = @ + 1, !.num_eviction = @ + 1]

-----------------------------------------------------------------------------
(* simulate: the fields of an address of w bits. *)
TagOf(a) == a \div pow2[b + s]
SetOf(a) == ((a * pow2[w - b - s]) % pow2[w]) \div pow2[w - s]

None == -1

Init ==
  /\ cache = initCache(pow2[s], E)
  /\ address = None
  /\ pending = FALSE
  /\ length = 0

\* A line of the trace: I is skipped, L and S access once, and M, a load and
\* a store, calls updateCache again.
Access ==
  /\ ~pending
  /\ length < MaxTrace
  /\ \/ \E action \in {"L", "S", "M"}, a \in Addresses :
          /\ cache' = updateCache(cache, SetOf(a), TagOf(a))
          /\ address' = a
          /\ pending' = (action = "M")
     \/ UNCHANGED <<cache, address, pending>>
  /\ length' = length + 1

Store ==
  /\ pending
  /\ cache' = updateCache(cache, SetOf(address), TagOf(address))
  /\ pending' = FALSE
  /\ UNCHANGED <<address, length>>

Next == Access \/ Store

Spec == Init /\ [][Next]_vars
-----------------------------------------------------------------------------
(* The simulator counts what a cache with least-recently-used replacement  *)
(* would, for every trace: its times order the lines of each set by their  *)
(* last use, and an address belongs to the set and tag of its own bits.    *)
Valid(set) == {i \in DOMAIN set : set[i].valid}

\* The valid lines of a set, the one used last first.
Order(set) ==
  CHOOSE p \in [1..Cardinality(Valid(set)) -> Valid(set)] :
    /\ Valid(set) \subseteq ToSet(p)
    /\ \A j, k \in DOMAIN p : j < k => set[p[j]].LRU > set[p[k]].LRU
Recent(set) == [k \in 1..Cardinality(Valid(set)) |-> set[Order(set)[k]].tag]

Lru == INSTANCE LruCache WITH
  Sets <- 0..pow2[s] - 1, Tags <- 0..pow2[w - b - s] - 1,
  access <- <<SetOf(address), TagOf(address)>>,
  recent <- [i \in DOMAIN cache.set |-> Recent(cache.set[i])],
  hits <- cache.num_hit, misses <- cache.num_miss, evictions <- cache.num_eviction

ImplementsLru == Lru!Spec

=============================================================================
