----------------------------- MODULE Allocator -----------------------------
(***************************************************************************)
(* What an allocator promises the program that calls it: it hands out      *)
(* regions of memory that never overlap a region in use, and the words of  *)
(* a region stay what the program made them until it gives the region up.  *)
(***************************************************************************)
EXTENDS Integers, FiniteSets

CONSTANTS Ids, Sizes, Tag(_)

VARIABLES regions,      \* id -> the addresses of its region
          data          \* id -> the words of its region, in address order

Live == DOMAIN regions

Init == regions = << >> /\ data = << >>

(* malloc or realloc of a region, which the program then fills. *)
Grant(i) ==
  LET n == Cardinality(regions'[i])
  IN  /\ DOMAIN regions' = Live \cup {i} /\ DOMAIN data' = Live \cup {i}
      /\ n \in Sizes
      /\ data'[i] = [k \in 1 .. n |-> Tag(i)]
      /\ \A j \in Live \ {i} : /\ regions'[j] = regions[j] /\ data'[j] = data[j]
                               /\ regions'[i] \cap regions[j] = {}

Release(i) ==
  LET rest == Live \ {i}
  IN  /\ i \in Live
      /\ regions' = [j \in rest |-> regions[j]]
      /\ data' = [j \in rest |-> data[j]]

Next == \E i \in Ids : Release(i) \/ Grant(i)

Spec == Init /\ [][Next]_<<regions, data>>
=============================================================================
