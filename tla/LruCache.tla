------------------------------ MODULE LruCache ------------------------------
(***************************************************************************)
(* A set-associative cache that evicts the least recently used line: each  *)
(* set is the sequence of its tags, the most recent first.                 *)
(***************************************************************************)
EXTENDS Integers, SequencesExt

CONSTANTS Sets, Tags, E

VARIABLES access,       \* the set and tag of the last access
          recent, hits, misses, evictions

Init == recent = [s \in Sets |-> <<>>] /\ hits = 0 /\ misses = 0 /\ evictions = 0

Hit(s, tag) ==
  /\ \E k \in DOMAIN recent[s] :
       recent[s][k] = tag /\ recent' = [recent EXCEPT ![s] = <<tag>> \o RemoveAt(@, k)]
  /\ hits' = hits + 1
  /\ UNCHANGED <<misses, evictions>>

Miss(s, tag) ==
  /\ tag \notin ToSet(recent[s])
  /\ misses' = misses + 1
  /\ LET full == Len(recent[s]) = E
     IN  /\ recent' = [recent EXCEPT ![s] = <<tag>> \o (IF full THEN Front(@) ELSE @)]
         /\ evictions' = evictions + (IF full THEN 1 ELSE 0)
  /\ UNCHANGED hits

Next == \E s \in Sets, tag \in Tags : access' = <<s, tag>> /\ (Hit(s, tag) \/ Miss(s, tag))

Spec == Init /\ [][Next]_<<access, recent, hits, misses, evictions>>
=============================================================================
