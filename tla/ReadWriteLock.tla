--------------------------- MODULE ReadWriteLock ---------------------------
(***************************************************************************)
(* What the semaphores of the proxy's cache promise: a worker that changes *)
(* the cache in write_cache is alone, any number may be in read_cache.     *)
(***************************************************************************)
CONSTANT Workers

VARIABLES readers, writers

Init == readers = {} /\ writers = {}

StartRead(t) ==
  /\ writers = {}
  /\ readers' = readers \cup {t}
  /\ UNCHANGED writers

EndRead(t) == readers' = readers \ {t} /\ UNCHANGED writers

StartWrite(t) ==
  /\ readers = {} /\ writers = {}
  /\ writers' = {t}
  /\ UNCHANGED readers

EndWrite(t) == writers' = writers \ {t} /\ UNCHANGED readers

Next == \E t \in Workers : StartRead(t) \/ EndRead(t) \/ StartWrite(t) \/ EndWrite(t)

Spec == Init /\ [][Next]_<<readers, writers>>
=============================================================================
