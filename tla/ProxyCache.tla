----------------------------- MODULE ProxyCache -----------------------------
(***************************************************************************)
(* The proxy's cache of responses: what the workers of proxy.c do in       *)
(* serve_client, that is in read_cache and, after a miss, in write_cache.  *)
(* Each semaphore operation is a step, and so is each test and each        *)
(* assignment of read_cache that reads or changes the list, which other    *)
(* readers use at the same time.  write_cache has the list for itself.     *)
(***************************************************************************)
EXTENDS Integers, FiniteSetsExt

CONSTANTS Workers, Keys,
          Lines,            \* addresses that Malloc gives for cache lines
          Null,             \* no line, or the key of a line never used
          Sizes,            \* sizes of the responses that may be cached
          MAX_CACHE_SIZE

ASSUME CacheAssumption ==
  /\ Null \notin Lines \cup Keys
  /\ Sizes \subseteq Nat
  /\ MAX_CACHE_SIZE \in Nat
  /\ IsFiniteSet(Workers)

VARIABLES mutex, w, read_cnt,           \* the lock of cache_t
          head, tail, size_left,        \* the list of cache_t
          mem,                          \* line -> its fields
          pc, cur, key, obj_size,       \* worker -> place and locals
          status                        \* "running", "undefined" or "ended"

lock == <<mutex, w, read_cnt>>
list == <<head, tail, size_left, mem>>
locals == <<cur, key, obj_size>>
vars == <<lock, list, pc, locals, status>>

Blank == [used |-> FALSE, key |-> Null, size |-> 0, next |-> Null, prev |-> Null]
Used == {l \in Lines : mem[l].used}

Init ==
  /\ mutex = 1 /\ w = 1 /\ read_cnt = 0
  /\ head = Null /\ tail = Null /\ size_left = MAX_CACHE_SIZE
  /\ mem = [l \in Lines |-> Blank]
  /\ pc = [t \in Workers |-> "idle"]
  /\ cur = [t \in Workers |-> Null]
  /\ key = [t \in Workers |-> Null]
  /\ obj_size = [t \in Workers |-> 0]
  /\ status = "running"

Full(t) == size_left < obj_size[t]

Prev(t) == mem[cur[t]].prev
Succ(t) == mem[cur[t]].next

\* The lines that a step of t reads or writes.
Touched(t) ==
  CASE pc[t] \in {"walk", "send", "test_prev", "test_next", "test_tail", "move_tail",
                  "relink_prev", "relink_next"} -> {cur[t]}
    [] pc[t] = "unlink_prev" -> {cur[t], Prev(t)}
    [] pc[t] = "unlink_next" -> {cur[t], Succ(t)}
    [] pc[t] = "init_line" -> {tail}
    [] pc[t] = "evict" /\ Full(t) -> IF tail = Null THEN {} ELSE {tail, mem[tail].prev}
    [] pc[t] = "evict" /\ ~Full(t) -> {head}
    [] OTHER -> {}

TouchesFreed(t) == (Touched(t) \ {Null}) \ Used # {}

\* After the use of a freed line the status is "undefined" until the proxy
\* ends (Fault); freed lines keep their fields meanwhile.
At(t, from) ==
  /\ status # "ended"
  /\ pc[t] = from
  /\ status' = IF TouchesFreed(t) THEN "undefined" ELSE status

Goto(t, to) == pc' = [pc EXCEPT ![t] = to]

P(sem) == sem > 0 /\ sem' = sem - 1
V(sem) == sem' = sem + 1

\* serve_client returns; its locals are gone.
Return(t) ==
  /\ Goto(t, "idle")
  /\ cur' = [cur EXCEPT ![t] = Null]
  /\ key' = [key EXCEPT ![t] = Null]
  /\ obj_size' = [obj_size EXCEPT ![t] = 0]

-----------------------------------------------------------------------------
\* A GET; serve_client returns at once for anything else.
read_request(t) ==
  /\ At(t, "idle")
  /\ Goto(t, "enter")
  /\ \E k \in Keys : key' = [key EXCEPT ![t] = k]
  /\ UNCHANGED <<lock, list, cur, obj_size>>

(* read_cache *)
LockMutex(t, from, to) ==
  /\ At(t, from)
  /\ Goto(t, to)
  /\ P(mutex)
  /\ UNCHANGED <<w, read_cnt, list, locals>>

\* Mutant: the first reader does not take w.
CountIn_NoLock(t) ==
  /\ At(t, "count")
  /\ read_cnt' = read_cnt + 1
  /\ Goto(t, "counted")
  /\ UNCHANGED <<mutex, w, list, locals>>

CountIn(t) ==
  /\ At(t, "count")
  /\ read_cnt' = read_cnt + 1
  /\ Goto(t, IF read_cnt = 0 THEN "P(w)" ELSE "counted")
  /\ UNCHANGED <<mutex, w, list, locals>>

FirstReader(t) ==
  /\ At(t, "P(w)")
  /\ Goto(t, "counted")
  /\ P(w)
  /\ UNCHANGED <<mutex, read_cnt, list, locals>>

UnlockMutex(t) ==
  /\ At(t, "counted")
  /\ Goto(t, "head")
  /\ V(mutex)
  /\ UNCHANGED <<w, read_cnt, list, locals>>

ReadHead(t) ==
  /\ At(t, "head")
  /\ Goto(t, "walk")
  /\ cur' = [cur EXCEPT ![t] = head]
  /\ UNCHANGED <<lock, list, key, obj_size>>

Walk(t) ==
  /\ At(t, "walk")
  /\ \/ /\ cur[t] = Null
        /\ Goto(t, "leave")
        /\ UNCHANGED cur
     \/ /\ cur[t] # Null /\ mem[cur[t]].key = key[t]
        /\ Goto(t, "send")
        /\ UNCHANGED cur
     \/ /\ cur[t] # Null /\ mem[cur[t]].key # key[t]
        /\ cur' = [cur EXCEPT ![t] = mem[cur[t]].next]
        /\ UNCHANGED pc
  /\ UNCHANGED <<lock, list, key, obj_size>>

\* Rio_writen to the client, however slow it is.
Send(t) ==
  /\ At(t, "send")
  /\ Goto(t, "test_prev")
  /\ UNCHANGED <<lock, list, locals>>

\* The line that was hit moves to the head.  A field is read again after the
\* test: another reader that moves the line may have made it NULL, which is
\* followed (Fault), or stored as the tail.
Test(t, from, holds, yes, no) ==
  /\ At(t, from)
  /\ Goto(t, IF holds THEN yes ELSE no)
  /\ UNCHANGED <<lock, list, locals>>

UnlinkFromPrev(t) ==
  /\ At(t, "unlink_prev")
  /\ Prev(t) # Null
  /\ Goto(t, "test_next")
  /\ mem' = [mem EXCEPT ![Prev(t)].next = Succ(t)]
  /\ UNCHANGED <<lock, head, tail, size_left, locals>>

UnlinkFromNext(t) ==
  /\ At(t, "unlink_next")
  /\ Succ(t) # Null
  /\ Goto(t, "test_tail")
  /\ mem' = [mem EXCEPT ![Succ(t)].prev = Prev(t)]
  /\ UNCHANGED <<lock, head, tail, size_left, locals>>

MoveTail(t) ==
  /\ At(t, "move_tail")
  /\ Goto(t, "relink_prev")
  /\ tail' = Prev(t)
  /\ UNCHANGED <<lock, head, size_left, mem, locals>>

RelinkPrev(t) ==
  /\ At(t, "relink_prev")
  /\ Goto(t, "relink_next")
  /\ mem' = [mem EXCEPT ![cur[t]].prev = Null]
  /\ UNCHANGED <<lock, head, tail, size_left, locals>>

RelinkNext(t) ==
  /\ At(t, "relink_next")
  /\ Goto(t, "move_head")
  /\ mem' = [mem EXCEPT ![cur[t]].next = head]
  /\ UNCHANGED <<lock, head, tail, size_left, locals>>

MoveList(t) ==
  \/ Test(t, "test_prev", Prev(t) # Null, "unlink_prev", "test_next")
  \/ UnlinkFromPrev(t)
  \/ Test(t, "test_next", Succ(t) # Null, "unlink_next", "test_tail")
  \/ UnlinkFromNext(t)
  \/ Test(t, "test_tail", Succ(t) = Null /\ Prev(t) # Null, "move_tail", "relink_prev")
  \/ MoveTail(t)
  \/ RelinkPrev(t)
  \/ RelinkNext(t)

MoveHead(t) ==
  /\ At(t, "move_head")
  /\ Goto(t, "leave")
  /\ head' = cur[t]
  /\ UNCHANGED <<lock, tail, size_left, mem, locals>>

\* Mutant: w is given up when a reader remains.
CountOut_AnyReader(t) ==
  /\ At(t, "uncount")
  /\ read_cnt' = read_cnt - 1
  /\ Goto(t, "V(w)")
  /\ UNCHANGED <<mutex, w, list, locals>>

\* Mutant: w is given up by nobody.
CountOut_KeepLock(t) ==
  /\ At(t, "uncount")
  /\ read_cnt' = read_cnt - 1
  /\ Goto(t, "uncounted")
  /\ UNCHANGED <<mutex, w, list, locals>>

CountOut(t) ==
  /\ At(t, "uncount")
  /\ read_cnt' = read_cnt - 1
  /\ Goto(t, IF read_cnt = 1 THEN "V(w)" ELSE "uncounted")
  /\ UNCHANGED <<mutex, w, list, locals>>

LastReader(t) ==
  /\ At(t, "V(w)")
  /\ Goto(t, "uncounted")
  /\ V(w)
  /\ UNCHANGED <<mutex, read_cnt, list, locals>>

\* A hit ends the request, a miss goes on to the server.
EndRead(t) ==
  /\ At(t, "uncounted")
  /\ V(mutex)
  /\ IF cur[t] # Null THEN Return(t) ELSE Goto(t, "fetch") /\ UNCHANGED locals
  /\ UNCHANGED <<w, read_cnt, list>>

-----------------------------------------------------------------------------
(* After a miss: the request goes to the server, unless the client's       *)
(* headers end early, and its answer to the client and to the cache,       *)
(* unless it is too large.                                                 *)
forward_headers(t) ==
  /\ At(t, "fetch")
  /\ \/ Return(t)
     \/ Goto(t, "response") /\ UNCHANGED locals
  /\ UNCHANGED <<lock, list>>

forward_response(t) ==
  /\ At(t, "response")
  /\ \/ Return(t)
     \/ /\ Goto(t, "write")
        /\ \E s \in Sizes : obj_size' = [obj_size EXCEPT ![t] = s]
        /\ UNCHANGED <<cur, key>>
  /\ UNCHANGED <<lock, list>>

(* write_cache *)
StartWrite(t) ==
  /\ At(t, "write")
  /\ Goto(t, "init_line")
  /\ P(w)
  /\ UNCHANGED <<mutex, read_cnt, list, locals>>

cache_line_init(t) ==
  /\ At(t, "init_line")
  /\ Goto(t, "evict")
  /\ \E l \in Lines \ Used :
       /\ cur' = [cur EXCEPT ![t] = l]
       /\ mem' = [mem EXCEPT ![l] = [used |-> TRUE, key |-> key[t], size |-> obj_size[t],
                                     next |-> Null, prev |-> Null]]
  /\ UNCHANGED <<lock, head, tail, size_left, key, obj_size>>

\* Mutant: the size of the new line is given back, not that of the evicted one.
Evict_OwnSize(t) ==
  /\ At(t, "evict")
  /\ Full(t) /\ tail # Null /\ mem[tail].prev # Null
  /\ head' = IF head = tail THEN Null ELSE head
  /\ tail' = mem[tail].prev
  /\ size_left' = size_left + obj_size[t]
  /\ mem' = [mem EXCEPT ![tail].used = FALSE]
  /\ UNCHANGED <<lock, pc, locals>>

\* One turn of the loop, which follows tail and tail->prev unchecked (Fault).
Evict(t) ==
  /\ At(t, "evict")
  /\ Full(t) /\ tail # Null /\ mem[tail].prev # Null
  /\ head' = IF head = tail THEN Null ELSE head
  /\ tail' = mem[tail].prev
  /\ size_left' = size_left + mem[tail].size
  /\ mem' = [mem EXCEPT ![tail].used = FALSE]
  /\ UNCHANGED <<lock, pc, locals>>

Link(t) ==
  /\ At(t, "evict")
  /\ ~Full(t)
  /\ Goto(t, "linked")
  /\ mem' = LET m == [mem EXCEPT ![cur[t]].next = head]
            IN  IF head = Null THEN m ELSE [m EXCEPT ![head].prev = cur[t]]
  /\ head' = cur[t]
  /\ tail' = IF tail = Null THEN cur[t] ELSE tail
  /\ size_left' = size_left - obj_size[t]
  /\ UNCHANGED <<lock, locals>>

EndWrite(t) ==
  /\ At(t, "linked")
  /\ V(w)
  /\ Return(t)
  /\ UNCHANGED <<mutex, read_cnt, list>>

-----------------------------------------------------------------------------
(* Steps that may end the proxy: an access of a line that was freed, a     *)
(* NULL that is followed in the eviction loop or because another reader    *)
(* has moved the line, a line that is written beyond the                   *)
(* sizeof(cache_line) bytes asked for, or an error of the network, on      *)
(* which the wrappers exit.                                                *)
Fault(t) ==
  /\ status # "ended"
  /\ \/ TouchesFreed(t)
     \/ pc[t] = "evict" /\ Full(t) /\ (tail = Null \/ mem[tail].prev = Null)
     \/ pc[t] = "unlink_prev" /\ Prev(t) = Null
     \/ pc[t] = "unlink_next" /\ Succ(t) = Null
     \/ pc[t] \in {"init_line", "send", "fetch", "response"}
  /\ status' = "ended"
  /\ UNCHANGED <<lock, list, pc, locals>>

ReaderStep(t) ==
  \/ LockMutex(t, "enter", "count")
  \/ CountIn(t)
  \/ FirstReader(t)
  \/ UnlockMutex(t)
  \/ ReadHead(t)
  \/ Walk(t)
  \/ MoveList(t)
  \/ MoveHead(t)
  \/ LockMutex(t, "leave", "uncount")
  \/ CountOut(t)
  \/ LastReader(t)
  \/ EndRead(t)

WriterStep(t) ==
  \/ StartWrite(t)
  \/ cache_line_init(t)
  \/ Evict(t)
  \/ Link(t)
  \/ EndWrite(t)

\* What the client and the server decide.
NetworkStep(t) ==
  read_request(t) \/ Send(t) \/ forward_headers(t) \/ forward_response(t)

Next == \E t \in Workers : ReaderStep(t) \/ WriterStep(t) \/ NetworkStep(t) \/ Fault(t)

Spec == Init /\ [][Next]_vars

(* The scheduler runs every worker that can run; nothing is assumed of the *)
(* network.                                                                *)
FairSpec == Spec /\ \A t \in Workers : WF_vars(ReaderStep(t) \/ WriterStep(t))

-----------------------------------------------------------------------------
Moving == {"send", "test_prev", "unlink_prev", "test_next", "unlink_next", "test_tail",
           "move_tail", "relink_prev", "relink_next"}
Reading == Moving \cup {"counted", "head", "walk", "move_head", "leave", "uncount"}
Writing == {"init_line", "evict", "linked"}
InMutex == {"count", "P(w)", "counted", "uncount", "V(w)", "uncounted"}

WorkersIn(places) == {t \in Workers : pc[t] \in places}
Readers == WorkersIn(Reading)
Writers == WorkersIn(Writing)

Place == Reading \cup Writing \cup InMutex \cup {"idle", "enter", "fetch", "response", "write"}
CacheLine == [used : BOOLEAN, key : Keys \cup {Null}, size : Nat,
              next : Lines \cup {Null}, prev : Lines \cup {Null}]

TypeOK ==
  /\ mutex \in {0, 1} /\ w \in {0, 1} /\ read_cnt \in Nat
  /\ head \in Lines \cup {Null} /\ tail \in Lines \cup {Null} /\ size_left \in Int
  /\ mem \in [Lines -> CacheLine]
  /\ pc \in [Workers -> Place]
  /\ cur \in [Workers -> Lines \cup {Null}]
  /\ key \in [Workers -> Keys \cup {Null}]
  /\ obj_size \in [Workers -> Nat]
  /\ status \in {"running", "undefined", "ended"}

\* One worker has the mutex or it is free.
MutexInv ==
  /\ \A t, u \in WorkersIn(InMutex) : t = u
  /\ mutex = 0 <=> WorkersIn(InMutex) # {}

\* The count is the number of readers, with the one that waits for w.
CountInv == read_cnt = Cardinality(WorkersIn(Reading \cup {"P(w)"}))

\* w is taken by one writer, by the readers together, or by the last of them
\* on its way out.
LockInv ==
  /\ \A t, u \in Writers : t = u
  /\ Writers # {} => Readers = {} /\ WorkersIn({"V(w)"}) = {}
  /\ WorkersIn({"V(w)"}) # {} => Readers = {}
  /\ w = 0 <=> Writers \cup Readers \cup WorkersIn({"V(w)"}) # {}

\* A reader that moves a line has one.
HitInv == \A t \in WorkersIn(Moving) : cur[t] # Null

\* The first reader finds nobody reading.
FirstInv == WorkersIn({"P(w)"}) # {} => Readers = {}

\* The sizes of lines together.
SizeOf(lines) == FoldSet(LAMBDA l, sum : sum + mem[l].size, 0, lines)

\* The line that is written and not linked yet.
Unlinked == {cur[t] : t \in WorkersIn({"evict"})}

\* A writer's new line has no line before it, so it cannot be evicted, and
\* every other line in use is paid for.
BudgetInv ==
  /\ IsFiniteSet(Used)
  /\ size_left >= 0
  /\ \A t \in WorkersIn({"evict"}) :
       cur[t] \in Used /\ mem[cur[t]].prev = Null /\ mem[cur[t]].size = obj_size[t]
  /\ status = "running" => size_left + SizeOf(Used \ Unlinked) = MAX_CACHE_SIZE

(* The inductive invariant, of the lock and of the budget. *)
IInv == TypeOK /\ MutexInv /\ CountInv /\ LockInv /\ HitInv /\ FirstInv /\ BudgetInv

(* The workers never all wait for each other: the first reader waits for w *)
(* with the mutex in hand, the others for the mutex, a writer for w.       *)
Waits(t) == \/ pc[t] \in {"enter", "leave"} /\ mutex = 0
            \/ pc[t] \in {"P(w)", "write"} /\ w = 0

NobodyStuck == ~ \A t \in Workers : Waits(t)

(* While nobody writes, what size_left lacks of the whole is the size of   *)
(* the lines that were stored and not evicted: the budget of the cache     *)
(* does not leak, as long as no line was used after it was freed.          *)
SizeAccounted ==
  status = "running" /\ Writers = {} =>
    /\ size_left >= 0
    /\ size_left + SizeOf(Used) = MAX_CACHE_SIZE

Lock == INSTANCE ReadWriteLock WITH readers <- Readers, writers <- Writers

(* mutex, w and read_cnt are a readers-writers lock. *)
ImplementsLock == Lock!Spec

(* A lookup comes to an end: a fetch that was answered from the cache      *)
(* leaves a list that the next one can walk.                               *)
LookupEnds ==
  \A t \in Workers : (status = "running" /\ pc[t] = "walk")
                       ~> (pc[t] # "walk" \/ status # "running")
=============================================================================
