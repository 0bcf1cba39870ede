-------------------------- MODULE ProxyCacheProofs --------------------------
(***************************************************************************)
(* The proxy's cache, for every set of workers, keys, lines and sizes: the *)
(* inductive invariant of its lock and of its budget, that the lock is a   *)
(* readers-writers lock and never leaves everybody waiting, and that the   *)
(* budget does not leak.                                                   *)
(***************************************************************************)
EXTENDS ProxyCache, RecursionFacts

Counted == WorkersIn(Reading \cup {"P(w)"})
Leaving == WorkersIn({"V(w)"})
Holding == WorkersIn(InMutex)

(* A worker that goes from one place to another joins or leaves a class. *)
LEMMA Moves ==
  ASSUME NEW t \in Workers, NEW to, NEW places, pc \in [Workers -> Place], Goto(t, to)
  PROVE  /\ to \in places => WorkersIn(places)' = WorkersIn(places) \cup {t}
         /\ to \notin places => WorkersIn(places)' = WorkersIn(places) \ {t}
         /\ pc[t] \in places <=> t \in WorkersIn(places)
<1>1. \A u \in Workers : pc'[u] = IF u = t THEN to ELSE pc[u]
  BY DEF Goto
<1> QED  BY <1>1 DEF WorkersIn

(* The sizes are summed as in RecursionFacts. *)
LEMMA SizeIsTotal ==
  /\ \A lines : SizeOf(lines) = Total(mem, lines)
  /\ SizeOf(Used \ Unlinked)' = Total(mem', Used' \ Unlinked')
BY DEF SizeOf, Total, FoldSet, MapThenFoldSet

(* The initial states satisfy the invariant. *)
LEMMA InitIInv == Init => IInv
<1> SUFFICES ASSUME Init PROVE IInv
  OBVIOUS
<1>1. TypeOK
  <2>1. "idle" \in Place
    BY DEF Place
  <2>2. Blank \in CacheLine
    BY DEF Blank, CacheLine
  <2>3. MAX_CACHE_SIZE \in Int
    BY CacheAssumption
  <2> QED
    BY <2>1, <2>2, <2>3 DEF Init, TypeOK
<1>2. \A places : "idle" \notin places => WorkersIn(places) = {}
  BY DEF Init, WorkersIn
<1>3. /\ Readers = {} /\ Writers = {} /\ WorkersIn(InMutex) = {}
      /\ Counted = {} /\ Leaving = {} /\ WorkersIn(Moving) = {}
  BY <1>2 DEF Readers, Writers, Counted, Leaving, Reading, Moving, Writing, InMutex
<1>4. WorkersIn({"P(w)"}) = {} /\ WorkersIn({"evict"}) = {} /\ Unlinked = {}
  BY <1>2 DEF Unlinked
<1>5. FirstInv
  BY <1>4 DEF FirstInv
<1>6. BudgetInv
  <2>1. Used = {} /\ Used \ Unlinked = {}
    BY DEF Init, Used, Blank
  <2>2. SizeOf({}) = 0
    BY SizeIsTotal, TotalOfNone
  <2> QED
    BY <1>4, <2>1, <2>2, FS_EmptySet, CacheAssumption DEF Init, BudgetInv
<1>7. MutexInv /\ CountInv /\ LockInv /\ HitInv
  BY <1>3, FS_EmptySet DEF Init, MutexInv, CountInv, LockInv, HitInv, Counted, Leaving
<1> QED
  BY <1>1, <1>5, <1>6, <1>7 DEF IInv

(* What a worker holds at its place. *)
LEMMA Holds ==
  ASSUME IInv, NEW t \in Workers
  PROVE  /\ pc[t] \in InMutex => mutex = 0
         /\ pc[t] \in Writing \cup {"V(w)"} => w = 0
         /\ pc[t] = "uncount" => read_cnt # 0
<1> USE CacheAssumption
<1>1. pc[t] \in InMutex => mutex = 0
  BY DEF IInv, MutexInv, WorkersIn
<1>2. pc[t] \in Writing \cup {"V(w)"} => w = 0
  <2>1. pc[t] \in Writing \cup {"V(w)"} => t \in Writers \cup Leaving
    BY DEF Writers, Leaving, WorkersIn
  <2>2. w = 0 <=> Writers \cup Readers \cup Leaving # {}
    BY Zenon DEF IInv, LockInv, Leaving
  <2> QED
    BY <2>1, <2>2
<1>3. ASSUME pc[t] = "uncount"
      PROVE  read_cnt # 0
  <2>1. t \in Counted /\ Counted \subseteq Workers
    BY <1>3 DEF Counted, WorkersIn, Reading, Moving
  <2>2. Cardinality(Counted) # 0
    BY <2>1, FS_Subset, FS_EmptySet
  <2> QED
    BY <2>2 DEF IInv, CountInv, Counted
<1> QED
  BY <1>1, <1>2, <1>3

(* The fields of a line, and the list. *)
LEMMA Fields ==
  ASSUME TypeOK
  PROVE  /\ \A l \in Lines : /\ mem[l].next \in Lines \cup {Null}
                             /\ mem[l].prev \in Lines \cup {Null}
                             /\ mem[l].size \in Nat
         /\ mem \in [Lines -> CacheLine] /\ Null \notin Lines
BY CacheAssumption DEF TypeOK, CacheLine

(* Changing a field of a line leaves lines. *)
LEMMA SetField ==
  ASSUME NEW m \in [Lines -> CacheLine], NEW l, NEW v \in Lines \cup {Null}
  PROVE  /\ [m EXCEPT ![l].next = v] \in [Lines -> CacheLine]
         /\ [m EXCEPT ![l].prev = v] \in [Lines -> CacheLine]
         /\ [m EXCEPT ![l].used = FALSE] \in [Lines -> CacheLine]
BY DEF CacheLine

(* What a step of a reader that moves a line may change. *)
LEMMA ListMoves ==
  ASSUME TypeOK, HitInv, NEW t \in Workers, MoveList(t)
  PROVE  /\ pc[t] \in Moving /\ cur[t] \in Lines
         /\ \E to \in Moving \cup {"move_head"} : Goto(t, to)
         /\ UNCHANGED <<lock, head, size_left, locals>>
         /\ status' \in {status, "undefined"}
         /\ tail' \in Lines \cup {Null} /\ mem' \in [Lines -> CacheLine]
         /\ \A l \in Lines : mem'[l].size = mem[l].size /\ mem'[l].used = mem[l].used
<1>0. /\ mem \in [Lines -> CacheLine] /\ tail \in Lines \cup {Null}
      /\ cur[t] \in Lines \cup {Null}
  BY DEF TypeOK
<1>1. /\ pc[t] \in Moving
      /\ \E to \in Moving \cup {"move_head"} : Goto(t, to)
      /\ UNCHANGED <<lock, head, size_left, locals>>
      /\ status' \in {status, "undefined"}
  BY DEF MoveList, Test, UnlinkFromPrev, UnlinkFromNext, MoveTail, RelinkPrev, RelinkNext,
         At, Moving, list
<1>2. cur[t] \in Lines
  BY <1>0, <1>1 DEF HitInv, WorkersIn
<1>3. Prev(t) \in Lines \cup {Null} /\ Succ(t) \in Lines \cup {Null}
  BY <1>2, Fields DEF Prev, Succ
<1>4. tail' \in Lines \cup {Null}
  BY <1>0, <1>3 DEF MoveList, Test, UnlinkFromPrev, UnlinkFromNext, MoveTail, RelinkPrev,
                    RelinkNext, list
<1>5. \/ mem' = mem
      \/ \E l \in Lines, v \in Lines \cup {Null} :
           mem' = [mem EXCEPT ![l].next = v] \/ mem' = [mem EXCEPT ![l].prev = v]
  <2>1. \/ mem' = mem
        \/ Prev(t) # Null /\ mem' = [mem EXCEPT ![Prev(t)].next = Succ(t)]
        \/ Succ(t) # Null /\ mem' = [mem EXCEPT ![Succ(t)].prev = Prev(t)]
        \/ mem' = [mem EXCEPT ![cur[t]].prev = Null]
        \/ mem' = [mem EXCEPT ![cur[t]].next = head]
    BY Zenon DEF MoveList, Test, UnlinkFromPrev, UnlinkFromNext, MoveTail, RelinkPrev,
                 RelinkNext, list
  <2>2. head \in Lines \cup {Null} /\ Null \in Lines \cup {Null}
    BY DEF TypeOK
  <2> QED
    BY <1>2, <1>3, <2>1, <2>2
<1>6. /\ mem' \in [Lines -> CacheLine]
      /\ \A l \in Lines : mem'[l].size = mem[l].size /\ mem'[l].used = mem[l].used
  BY <1>0, <1>5 DEF CacheLine
<1> QED
  BY <1>1, <1>2, <1>4, <1>6

(* Every step keeps the types. *)
LEMMA TypeStep ==
  ASSUME IInv, [Next]_vars
  PROVE  TypeOK'
<1>0. TypeOK /\ HitInv
  BY DEF IInv
<1>1. CASE UNCHANGED vars
  BY <1>0, <1>1 DEF TypeOK, vars, lock, list, locals
<1>2. ASSUME NEW t \in Workers, ReaderStep(t)
      PROVE  TypeOK'
  <2>0. /\ pc[t] \in {"counted", "uncounted"} => mutex = 0
        /\ pc[t] \in {"V(w)", "linked"} => w = 0
        /\ pc[t] = "uncount" => read_cnt # 0
    BY <1>0, Holds DEF InMutex, Writing
  <2> USE <1>0, <2>0 DEF TypeOK, lock, list, locals, At, Goto, P, V,
                       Place, Reading, Moving, Writing, InMutex
  <2>1. CASE LockMutex(t, "enter", "count")
    BY <2>1 DEF LockMutex
  <2>2. CASE CountIn(t)
    BY <2>2 DEF CountIn
  <2>3. CASE FirstReader(t)
    BY <2>3 DEF FirstReader
  <2>4. CASE UnlockMutex(t)
    BY <2>4 DEF UnlockMutex
  <2>5. CASE ReadHead(t)
    BY <2>5 DEF ReadHead
  <2>6. CASE Walk(t)
    BY <2>6, Fields DEF Walk
  <2>7. CASE MoveList(t)
    BY <2>7, ListMoves
  <2>11. CASE MoveHead(t)
    BY <2>11 DEF MoveHead
  <2>12. CASE LockMutex(t, "leave", "uncount")
    BY <2>12 DEF LockMutex
  <2>13. CASE CountOut(t)
    BY <2>13 DEF CountOut
  <2>14. CASE LastReader(t)
    BY <2>14 DEF LastReader
  <2>15. CASE EndRead(t)
    BY <2>15 DEF EndRead, Return
  <2> QED
    BY <1>2, <2>1, <2>2, <2>3, <2>4, <2>5, <2>6, <2>7, <2>11, <2>12,
       <2>13, <2>14, <2>15
    DEF ReaderStep
<1>3. ASSUME NEW t \in Workers, WriterStep(t)
      PROVE  TypeOK'
  <2>0. pc[t] \in {"V(w)", "linked"} => w = 0
    BY <1>0, Holds DEF Writing
  <2> USE <1>0, <2>0 DEF TypeOK, lock, list, locals, At, Goto, P, V,
                       Place, Reading, Moving, Writing, InMutex
  <2>1. CASE StartWrite(t)
    BY <2>1 DEF StartWrite
  <2>2. CASE cache_line_init(t)
    BY <2>2 DEF cache_line_init, Used, CacheLine
  <2>3. CASE Evict(t)
    <3>1. mem[tail].size \in Nat /\ mem[tail].prev \in Lines \cup {Null}
      BY <2>3, Fields DEF Evict
    <3>2. mem' \in [Lines -> CacheLine]
      BY <2>3, SetField DEF Evict
    <3>3. size_left' \in Int
      BY <2>3, <3>1 DEF Evict
    <3> QED
      BY <2>3, <3>1, <3>2, <3>3 DEF Evict
  <2>4. CASE Link(t)
    <3>1. [mem EXCEPT ![cur[t]].next = head] \in [Lines -> CacheLine]
      BY SetField
    <3>2. mem' \in [Lines -> CacheLine]
      BY <2>4, <3>1, SetField DEF Link
    <3> QED
      BY <2>4, <3>2 DEF Link
  <2>5. CASE EndWrite(t)
    BY <2>5 DEF EndWrite, Return
  <2> QED
    BY <1>3, <2>1, <2>2, <2>3, <2>4, <2>5 DEF WriterStep
<1>4. ASSUME NEW t \in Workers, NetworkStep(t)
      PROVE  TypeOK'
  <2>1. \A s \in Sizes : s \in Nat
    BY CacheAssumption
  <2> QED
    BY <1>0, <1>4, <2>1
    DEF NetworkStep, read_request, Send, forward_headers, forward_response, Return, TypeOK, lock, list, locals, At, Goto,
        Place, Reading, Moving, Writing, InMutex
<1>5. ASSUME NEW t \in Workers, Fault(t)
      PROVE  TypeOK'
  BY <1>0, <1>5 DEF Fault, TypeOK, lock, list, locals
<1> QED
  BY <1>1, <1>2, <1>3, <1>4, <1>5 DEF Next

(* A reader that moves a line keeps it to the end. *)
LEMMA HitStep ==
  ASSUME IInv, [Next]_vars
  PROVE  HitInv'
<1>0. TypeOK /\ HitInv
  BY DEF IInv
<1>1. CASE UNCHANGED <<pc, cur>>
  BY <1>0, <1>1 DEF HitInv, WorkersIn
<1>2. ASSUME NEW t \in Workers, NEW to, Goto(t, to),
             to \notin Moving,
             \/ UNCHANGED cur
             \/ \E l \in Lines \cup {Null} : cur' = [cur EXCEPT ![t] = l]
      PROVE  HitInv'
  BY <1>0, <1>2 DEF HitInv, WorkersIn, TypeOK, Goto
<1>3. ASSUME NEW t \in Workers, NEW to, Goto(t, to), UNCHANGED cur, cur[t] # Null
      PROVE  HitInv'
  BY <1>0, <1>3 DEF HitInv, WorkersIn, TypeOK, Goto
<1>4. ASSUME NEW t \in Workers, Return(t)
      PROVE  HitInv'
  BY <1>4, <1>2 DEF Return, Moving
<1>5. ASSUME NEW t \in Workers, ReaderStep(t)
      PROVE  HitInv'
  <2>1. CASE LockMutex(t, "enter", "count") \/ LockMutex(t, "leave", "uncount")
    BY <2>1, <1>2 DEF LockMutex, locals, Moving
  <2>2. CASE CountIn(t)
    BY <2>2, <1>2 DEF CountIn, locals, Moving
  <2>3. CASE FirstReader(t) \/ UnlockMutex(t) \/ LastReader(t)
    BY <2>3, <1>2 DEF FirstReader, UnlockMutex, LastReader, locals, Moving
  <2>4. CASE ReadHead(t)
    BY <2>4, <1>2, <1>0 DEF ReadHead, TypeOK, Moving
  <2>5. CASE Walk(t)
    <3>1. CASE Goto(t, "leave") /\ UNCHANGED cur
      BY <3>1, <1>2 DEF Moving
    <3>2. CASE Goto(t, "send") /\ UNCHANGED cur /\ cur[t] # Null
      BY <3>2, <1>3
    <3>3. CASE UNCHANGED pc /\ pc[t] = "walk" /\ cur' = [cur EXCEPT ![t] = mem[cur[t]].next]
      BY <1>0, <3>3 DEF HitInv, WorkersIn, Moving, TypeOK
    <3> QED
      BY <2>5, <3>1, <3>2, <3>3 DEF Walk, At
  <2>6. CASE MoveList(t)
    <3>1. cur[t] # Null
      BY <1>0, <2>6, ListMoves, CacheAssumption
    <3> QED
      BY <1>0, <2>6, <3>1, <1>3, ListMoves DEF locals
  <2>7. CASE MoveHead(t)
    BY <2>7, <1>2 DEF MoveHead, locals, Moving
  <2>8. CASE CountOut(t)
    BY <2>8, <1>2 DEF CountOut, locals, Moving
  <2>9. CASE EndRead(t)
    <3>1. CASE Return(t)
      BY <3>1, <1>4
    <3>2. CASE Goto(t, "fetch") /\ UNCHANGED locals
      BY <3>2, <1>2 DEF locals, Moving
    <3> QED
      BY <2>9, <3>1, <3>2 DEF EndRead
  <2> QED
    BY <1>5, <2>1, <2>2, <2>3, <2>4, <2>5, <2>6, <2>7, <2>8, <2>9 DEF ReaderStep
<1>6. ASSUME NEW t \in Workers, WriterStep(t)
      PROVE  HitInv'
  <2>1. CASE StartWrite(t) \/ Link(t)
    BY <2>1, <1>2 DEF StartWrite, Link, locals, Moving
  <2>2. CASE cache_line_init(t)
    BY <2>2, <1>2 DEF cache_line_init, Moving
  <2>3. CASE Evict(t)
    BY <2>3, <1>1 DEF Evict, locals
  <2>4. CASE EndWrite(t)
    BY <2>4, <1>4 DEF EndWrite
  <2> QED
    BY <1>6, <2>1, <2>2, <2>3, <2>4 DEF WriterStep
<1>7. ASSUME NEW t \in Workers, NetworkStep(t)
      PROVE  HitInv'
  <2>1. CASE read_request(t)
    BY <2>1, <1>2 DEF read_request, Moving
  <2>2. CASE Send(t)
    <3>1. cur[t] # Null
      BY <1>0, <2>2 DEF Send, At, HitInv, WorkersIn, Moving
    <3> QED
      BY <2>2, <3>1, <1>3 DEF Send, locals
  <2>3. CASE forward_headers(t) \/ forward_response(t)
    <3>1. CASE Return(t)
      BY <3>1, <1>4
    <3>2. CASE (Goto(t, "write") \/ Goto(t, "response")) /\ UNCHANGED cur
      BY <3>2, <1>2 DEF Moving
    <3> QED
      BY <2>3, <3>1, <3>2 DEF forward_headers, forward_response, locals
  <2> QED
    BY <1>7, <2>1, <2>2, <2>3 DEF NetworkStep
<1>8. ASSUME NEW t \in Workers, Fault(t)
      PROVE  HitInv'
  BY <1>8, <1>1 DEF Fault, locals
<1>9. CASE UNCHANGED vars
  BY <1>9, <1>1 DEF vars, locals
<1> QED
  BY <1>5, <1>6, <1>7, <1>8, <1>9 DEF Next

(* A step that stays in its class leaves the lock as it is. *)
Quiet(t, from, to) ==
  /\ pc[t] = from /\ Goto(t, to) /\ UNCHANGED lock
  /\ \/ from \in Reading /\ to \in Reading \ InMutex
     \/ from \in Writing /\ to \in Writing
     \/ {from, to} \subseteq {"idle", "enter", "fetch", "response", "write"}
  /\ from \notin InMutex

LEMMA QuietStep ==
  ASSUME IInv, NEW t \in Workers, NEW from, NEW to, Quiet(t, from, to)
  PROVE  /\ MutexInv' /\ CountInv' /\ LockInv'
         /\ UNCHANGED <<Readers, Writers>>
<1>0. pc \in [Workers -> Place] /\ pc[t] = from /\ Goto(t, to)
  BY DEF IInv, TypeOK, Quiet
<1>1. /\ from \in Reading <=> to \in Reading
      /\ from \in Writing <=> to \in Writing
      /\ from \notin InMutex /\ to \notin InMutex
      /\ from # "P(w)" /\ to # "P(w)" /\ from # "V(w)" /\ to # "V(w)"
  BY DEF Quiet, Reading, Moving, Writing, InMutex
<1>2. /\ UNCHANGED <<Readers, Writers, Counted, Leaving>>
      /\ Holding' = Holding
  <2>1. ASSUME NEW places, from \in places <=> to \in places
        PROVE  WorkersIn(places)' = WorkersIn(places)
    BY <1>0, <2>1, Moves
  <2> QED
    BY <1>1, <2>1 DEF Readers, Writers, Counted, Leaving, Holding
<1> QED
  BY <1>2 DEF Quiet, lock, IInv, MutexInv, CountInv, LockInv, Counted, Leaving, Holding

(* A change of place of worker t, seen from each class. *)
LEMMA ClassesMove ==
  ASSUME IInv, NEW t \in Workers, NEW to, Goto(t, to)
  PROVE  /\ pc[t] \in InMutex <=> t \in Holding
         /\ (pc[t] \in Reading \/ pc[t] = "P(w)") <=> t \in Counted
         /\ pc[t] \in Reading <=> t \in Readers
         /\ pc[t] \in Writing <=> t \in Writers
         /\ pc[t] = "V(w)" <=> t \in Leaving
         /\ to \in InMutex => Holding' = Holding \cup {t}
         /\ to \notin InMutex => Holding' = Holding \ {t}
         /\ to \in Reading \/ to = "P(w)" => Counted' = Counted \cup {t}
         /\ to \notin Reading /\ to # "P(w)" => Counted' = Counted \ {t}
         /\ to \in Reading => Readers' = Readers \cup {t}
         /\ to \notin Reading => Readers' = Readers \ {t}
         /\ to \in Writing => Writers' = Writers \cup {t}
         /\ to \notin Writing => Writers' = Writers \ {t}
         /\ to = "V(w)" => Leaving' = Leaving \cup {t}
         /\ to # "V(w)" => Leaving' = Leaving \ {t}
<1>0. pc \in [Workers -> Place]
  BY DEF IInv, TypeOK
<1>1. ASSUME NEW places
      PROVE  /\ to \in places => WorkersIn(places)' = WorkersIn(places) \cup {t}
             /\ to \notin places => WorkersIn(places)' = WorkersIn(places) \ {t}
             /\ pc[t] \in places <=> t \in WorkersIn(places)
  BY <1>0, Moves
<1>2. /\ pc[t] \in InMutex <=> t \in Holding
      /\ to \in InMutex => Holding' = Holding \cup {t}
      /\ to \notin InMutex => Holding' = Holding \ {t}
  BY <1>1 DEF Holding
<1>3. /\ (pc[t] \in Reading \/ pc[t] = "P(w)") <=> t \in Counted
      /\ to \in Reading \/ to = "P(w)" => Counted' = Counted \cup {t}
      /\ to \notin Reading /\ to # "P(w)" => Counted' = Counted \ {t}
  <2>1. \A p : p \in Reading \cup {"P(w)"} <=> (p \in Reading \/ p = "P(w)")
    OBVIOUS
  <2> QED
    BY <1>1, <2>1 DEF Counted
<1>4. /\ pc[t] \in Reading <=> t \in Readers
      /\ to \in Reading => Readers' = Readers \cup {t}
      /\ to \notin Reading => Readers' = Readers \ {t}
  BY <1>1 DEF Readers
<1>5. /\ pc[t] \in Writing <=> t \in Writers
      /\ to \in Writing => Writers' = Writers \cup {t}
      /\ to \notin Writing => Writers' = Writers \ {t}
  BY <1>1 DEF Writers
<1>6. /\ pc[t] = "V(w)" <=> t \in Leaving
      /\ to = "V(w)" => Leaving' = Leaving \cup {t}
      /\ to # "V(w)" => Leaving' = Leaving \ {t}
  <2>1. \A p : p \in {"V(w)"} <=> p = "V(w)"
    OBVIOUS
  <2> QED
    BY <1>1, <2>1 DEF Leaving
<1> QED
  BY <1>2, <1>3, <1>4, <1>5, <1>6

(* The lock's invariant, class by class. *)
LEMMA LockFacts ==
  ASSUME IInv
  PROVE  /\ \A t, u \in Holding : t = u
         /\ mutex = 0 <=> Holding # {}
         /\ read_cnt = Cardinality(Counted) /\ IsFiniteSet(Counted)
         /\ \A t, u \in Writers : t = u
         /\ Writers # {} => Readers = {} /\ Leaving = {}
         /\ Leaving # {} => Readers = {}
         /\ w = 0 <=> Writers \cup Readers \cup Leaving # {}
         /\ mutex \in {0, 1} /\ w \in {0, 1} /\ read_cnt \in Nat
         /\ Readers \subseteq Counted
<1>1. Counted \subseteq Workers /\ Readers \subseteq Counted
  BY DEF Counted, Readers, WorkersIn
<1>2. IsFiniteSet(Counted)
  BY <1>1, CacheAssumption, FS_Subset
<1> QED
  BY <1>1, <1>2, Zenon DEF IInv, TypeOK, MutexInv, CountInv, LockInv, Counted, Leaving, Holding

(* One reader more or less counts for one. *)
LEMMA CountChange ==
  ASSUME IInv, NEW t \in Workers
  PROVE  /\ t \notin Counted => Cardinality(Counted \cup {t}) = read_cnt + 1
         /\ t \in Counted => Cardinality(Counted \ {t}) = read_cnt - 1
         /\ read_cnt = 0 => Counted = {}
         /\ read_cnt = 1 /\ t \in Counted => Counted = {t}
         /\ read_cnt > 1 => \E u \in Counted : u # t
<1>1. IsFiniteSet(Counted) /\ read_cnt = Cardinality(Counted) /\ read_cnt \in Nat
  BY LockFacts
<1>2. t \notin Counted => Cardinality(Counted \cup {t}) = read_cnt + 1
  BY <1>1, FS_AddElement
<1>3. t \in Counted => /\ Cardinality(Counted \ {t}) = read_cnt - 1
                       /\ IsFiniteSet(Counted \ {t})
  BY <1>1, FS_RemoveElement
<1>4. read_cnt = 0 => Counted = {}
  BY <1>1, FS_EmptySet
<1>5. read_cnt = 1 /\ t \in Counted => Counted = {t}
  <2>1. read_cnt = 1 /\ t \in Counted => Counted \ {t} = {}
    BY <1>1, <1>3, FS_EmptySet
  <2> QED
    BY <2>1
<1>6. ASSUME read_cnt > 1
      PROVE  \E u \in Counted : u # t
  <2>1. Cardinality({t}) = 1 /\ Cardinality({}) = 0
    BY FS_Singleton, FS_EmptySet
  <2>2. Counted # {t} /\ Counted # {}
    BY <1>1, <1>6, <2>1
  <2> QED
    BY <2>2
<1> QED
  BY <1>2, <1>3, <1>4, <1>5, <1>6

(* A reader past the count is the one that waits for w or is inside, and   *)
(* nobody waits for w while another has the mutex.                         *)
LEMMA CountedInside ==
  ASSUME IInv, NEW t \in Workers, pc[t] \in InMutex, NEW u \in Counted, u # t
  PROVE  u \in Readers
<1>1. pc[u] = "P(w)" => u \in Holding
  BY DEF Counted, Holding, WorkersIn, InMutex
<1>2. t \in Holding
  BY DEF Holding, WorkersIn
<1>3. pc[u] # "P(w)"
  BY <1>1, <1>2, LockFacts
<1> QED
  BY <1>3 DEF Counted, Readers, WorkersIn

(* What the worker's move does to the lock. *)
LockNext ==
  /\ MutexInv' /\ CountInv' /\ LockInv'
  /\ [Lock!Next]_<<Readers, Writers>>

LEMMA LockNextFromClasses ==
  ASSUME TypeOK',
         (\A t, u \in Holding : t = u)',
         (mutex = 0 <=> Holding # {})',
         (read_cnt = Cardinality(Counted))',
         (\A t, u \in Writers : t = u)',
         (Writers # {} => Readers = {} /\ Leaving = {})',
         (Leaving # {} => Readers = {})',
         (w = 0 <=> Writers \cup Readers \cup Leaving # {})',
         [Lock!Next]_<<Readers, Writers>>
  PROVE  LockNext
BY Zenon DEF LockNext, MutexInv, CountInv, LockInv, Counted, Leaving, Holding

(* A step that stays in its class changes nothing. *)
LEMMA QuietNext ==
  ASSUME IInv, TypeOK', NEW t \in Workers, NEW from, NEW to, Quiet(t, from, to)
  PROVE  LockNext
BY QuietStep DEF LockNext

(* A class keeps its workers when the worker that moves is in it before and after, *)
(* or neither before nor after.                                                    *)
LEMMA ClassesStay ==
  ASSUME IInv, NEW t \in Workers, NEW to, Goto(t, to)
  PROVE  /\ (to \in InMutex <=> pc[t] \in InMutex) => Holding' = Holding
         /\ (to \in Reading \/ to = "P(w)" <=> pc[t] \in Reading \/ pc[t] = "P(w)") => Counted' = Counted
         /\ (to \in Reading <=> pc[t] \in Reading) => Readers' = Readers
         /\ (to \in Writing <=> pc[t] \in Writing) => Writers' = Writers
         /\ (to = "V(w)" <=> pc[t] = "V(w)") => Leaving' = Leaving
<1>1. \A S : t \in S => S \cup {t} = S
  OBVIOUS
<1>2. \A S : t \notin S => S \ {t} = S
  OBVIOUS
<1> QED
  BY <1>1, <1>2, ClassesMove

(* Which places hold the mutex, read and write. *)
LEMMA PlaceClasses ==
  /\ "idle" \notin InMutex /\ "idle" \notin Reading /\ "idle" \notin Writing
  /\ "enter" \notin InMutex /\ "enter" \notin Reading /\ "enter" \notin Writing
  /\ "fetch" \notin InMutex /\ "fetch" \notin Reading /\ "fetch" \notin Writing
  /\ "response" \notin InMutex /\ "response" \notin Reading /\ "response" \notin Writing
  /\ "write" \notin InMutex /\ "write" \notin Reading /\ "write" \notin Writing
  /\ "count" \in InMutex /\ "count" \notin Reading /\ "count" \notin Writing
  /\ "P(w)" \in InMutex /\ "P(w)" \notin Reading /\ "P(w)" \notin Writing
  /\ "counted" \in InMutex /\ "counted" \in Reading /\ "counted" \notin Writing
  /\ "head" \notin InMutex /\ "head" \in Reading /\ "head" \notin Writing
  /\ "leave" \notin InMutex /\ "leave" \in Reading /\ "leave" \notin Writing
  /\ "uncount" \in InMutex /\ "uncount" \in Reading /\ "uncount" \notin Writing
  /\ "V(w)" \in InMutex /\ "V(w)" \notin Reading /\ "V(w)" \notin Writing
  /\ "uncounted" \in InMutex /\ "uncounted" \notin Reading /\ "uncounted" \notin Writing
  /\ "init_line" \notin InMutex /\ "init_line" \notin Reading /\ "init_line" \in Writing
  /\ "linked" \notin InMutex /\ "linked" \notin Reading /\ "linked" \in Writing
BY DEF InMutex, Reading, Moving, Writing

(* A reader's step keeps the lock and starts or ends a read, or neither. *)
LEMMA ReaderLockStep ==
  ASSUME IInv, TypeOK', NEW t \in Workers, ReaderStep(t)
  PROVE  LockNext
<1>0. pc[t] \in InMutex => mutex = 0 /\ Holding = {t}
  BY LockFacts, Holds DEF Holding, WorkersIn
<1>1. CASE ReadHead(t) \/ MoveList(t) \/ MoveHead(t)
  <2>1. CASE ReadHead(t)
    BY <2>1, QuietNext DEF ReadHead, At, Quiet, lock, Reading, Moving, InMutex
  <2>2. CASE MoveList(t)
    <3>1. PICK to \in Moving \cup {"move_head"} : Goto(t, to)
      BY <2>2, ListMoves DEF IInv
    <3>2. pc[t] \in Moving /\ UNCHANGED lock
      BY <2>2, ListMoves DEF IInv
    <3>3. /\ Moving \cup {"move_head"} \subseteq Reading
          /\ (Moving \cup {"move_head"}) \cap InMutex = {}
      BY DEF Reading, Moving, InMutex
    <3>4. Quiet(t, pc[t], to)
      BY <3>1, <3>2, <3>3 DEF Quiet
    <3> QED
      BY <3>4, QuietNext
  <2>3. CASE MoveHead(t)
    BY <2>3, QuietNext DEF MoveHead, At, Quiet, lock, Reading, Moving, InMutex
  <2> QED
    BY <1>1, <2>1, <2>2, <2>3
<1>2. CASE Walk(t)
  <2>w. pc[t] = "walk" /\ UNCHANGED lock
    BY <1>2 DEF Walk, At
  <2>1. CASE Goto(t, "leave")
    <3>1. Quiet(t, "walk", "leave")
      BY <2>w, <2>1 DEF Quiet, Reading, Moving, InMutex
    <3> QED
      BY <3>1, QuietNext
  <2>2. CASE Goto(t, "send")
    <3>1. Quiet(t, "walk", "send")
      BY <2>w, <2>2 DEF Quiet, Reading, Moving, InMutex
    <3> QED
      BY <3>1, QuietNext
  <2>3. CASE pc' = pc
    <3>1. Goto(t, "walk")
      BY <1>2, <2>3 DEF Walk, At, Goto, IInv, TypeOK
    <3> QED
      BY <1>2, <3>1, QuietNext DEF Walk, At, Quiet, lock, Reading, Moving, InMutex
  <2> QED
    BY <1>2, <2>1, <2>2, <2>3 DEF Walk
<1>3. CASE LockMutex(t, "enter", "count")
  <2>1. /\ pc[t] = "enter" /\ Goto(t, "count") /\ UNCHANGED <<w, read_cnt>>
        /\ mutex = 1 /\ mutex' = 0
    BY <1>3, LockFacts DEF LockMutex, At, P
  <2>2. /\ Holding' = Holding \cup {t}
        /\ UNCHANGED <<Counted, Readers, Writers, Leaving>>
    BY <2>1, ClassesMove, ClassesStay, PlaceClasses
  <2>3. Holding = {}
    BY <2>1, LockFacts
  <2> QED
    BY <2>1, <2>2, <2>3, LockFacts, LockNextFromClasses
<1>4. CASE LockMutex(t, "leave", "uncount")
  <2>1. /\ pc[t] = "leave" /\ Goto(t, "uncount") /\ UNCHANGED <<w, read_cnt>>
        /\ mutex = 1 /\ mutex' = 0
    BY <1>4, LockFacts DEF LockMutex, At, P
  <2>2. /\ Holding' = Holding \cup {t}
        /\ UNCHANGED <<Counted, Readers, Writers, Leaving>>
    BY <2>1, ClassesMove, ClassesStay, PlaceClasses
  <2>3. Holding = {}
    BY <2>1, LockFacts
  <2> QED
    BY <2>1, <2>2, <2>3, LockFacts, LockNextFromClasses
<1>5. CASE CountIn(t)
  <2>1. /\ pc[t] = "count" /\ read_cnt' = read_cnt + 1 /\ UNCHANGED <<mutex, w>>
        /\ Goto(t, IF read_cnt = 0 THEN "P(w)" ELSE "counted")
    BY <1>5 DEF CountIn, At
  <2>2. CASE read_cnt = 0
    <3>g. pc[t] = "count" /\ Goto(t, "P(w)")
      BY <2>1, <2>2
    <3>1. /\ Holding' = Holding /\ UNCHANGED <<Readers, Writers, Leaving>>
          /\ Counted' = Counted \cup {t} /\ t \notin Counted
      BY <3>g, ClassesMove, ClassesStay, PlaceClasses
    <3>2. Cardinality(Counted \cup {t}) = read_cnt + 1
      BY <3>1, CountChange
    <3> QED
      BY <2>1, <3>1, <3>2, LockFacts, LockNextFromClasses
  <2>3. CASE read_cnt # 0
    <3>g. pc[t] = "count" /\ Goto(t, "counted")
      BY <2>1, <2>3
    <3>1. /\ Holding' = Holding /\ UNCHANGED <<Writers, Leaving>>
          /\ Counted' = Counted \cup {t} /\ t \notin Counted
          /\ Readers' = Readers \cup {t}
      BY <3>g, ClassesMove, ClassesStay, PlaceClasses
    <3>2. Cardinality(Counted \cup {t}) = read_cnt + 1
      BY <3>1, CountChange
    <3>3. Readers # {}
      <4>1. PICK u \in Counted : u # t
        BY <2>3, <3>1, LockFacts, FS_EmptySet
      <4> QED
        BY <2>1, <4>1, CountedInside DEF InMutex
    <3>4. Writers = {} /\ Leaving = {} /\ w = 0
      BY <3>3, LockFacts
    <3>5. Lock!StartRead(t)
      BY <3>1, <3>4 DEF Lock!StartRead
    <3> QED
      BY <2>1, <3>1, <3>2, <3>4, <3>5, LockFacts, LockNextFromClasses DEF Lock!Next
  <2> QED
    BY <2>2, <2>3
<1>6. CASE FirstReader(t)
  <2>1. /\ pc[t] = "P(w)" /\ Goto(t, "counted") /\ UNCHANGED <<mutex, read_cnt>>
        /\ w = 1 /\ w' = 0
    BY <1>6, LockFacts DEF FirstReader, At, P
  <2>2. /\ Holding' = Holding
        /\ UNCHANGED <<Counted, Writers, Leaving>> /\ Readers' = Readers \cup {t}
    BY <1>0, <2>1, ClassesMove, ClassesStay, PlaceClasses
  <2>3. Writers = {} /\ Leaving = {}
    BY <2>1, LockFacts
  <2>4. Lock!StartRead(t)
    BY <2>2, <2>3 DEF Lock!StartRead
  <2> QED
    BY <2>1, <2>2, <2>3, <2>4, LockFacts, LockNextFromClasses DEF Lock!Next
<1>7. CASE UnlockMutex(t)
  <2>1. /\ pc[t] = "counted" /\ Goto(t, "head") /\ UNCHANGED <<w, read_cnt>>
        /\ mutex' = 1
    BY <1>0, <1>7 DEF UnlockMutex, At, V, InMutex
  <2>h. Holding = {t}
    BY <1>0, <2>1 DEF InMutex
  <2>2. /\ Holding' = Holding \ {t} /\ UNCHANGED <<Counted, Readers, Writers, Leaving>>
    BY <2>1, ClassesMove, ClassesStay, PlaceClasses
  <2> QED
    BY <2>h, <2>1, <2>2, LockFacts, LockNextFromClasses
<1>8. CASE CountOut(t)
  <2>1. /\ pc[t] = "uncount" /\ read_cnt' = read_cnt - 1 /\ UNCHANGED <<mutex, w>>
        /\ Goto(t, IF read_cnt = 1 THEN "V(w)" ELSE "uncounted")
    BY <1>8 DEF CountOut, At
  <2>2. /\ Holding' = Holding /\ UNCHANGED Writers
        /\ Counted' = Counted \ {t} /\ t \in Counted
        /\ Readers' = Readers \ {t} /\ t \in Readers
        /\ Leaving' = IF read_cnt = 1 THEN Leaving \cup {t} ELSE Leaving
    <3>1. CASE read_cnt = 1
      <4>g. Goto(t, "V(w)")
        BY <2>1, <3>1
      <4>1. Holding' = Holding /\ UNCHANGED Writers /\ Leaving' = Leaving \cup {t}
        BY <2>1, <4>g, ClassesMove, ClassesStay, PlaceClasses
      <4>2. /\ Counted' = Counted \ {t} /\ t \in Counted
            /\ Readers' = Readers \ {t} /\ t \in Readers
        BY <2>1, <4>g, ClassesMove, ClassesStay, PlaceClasses
      <4> QED
        BY <3>1, <4>1, <4>2
    <3>2. CASE read_cnt # 1
      <4>g. Goto(t, "uncounted")
        BY <2>1, <3>2
      <4>1. /\ Holding' = Holding /\ UNCHANGED <<Writers, Leaving>>
        BY <2>1, <4>g, ClassesMove, ClassesStay, PlaceClasses
      <4>2. /\ Counted' = Counted \ {t} /\ t \in Counted
            /\ Readers' = Readers \ {t} /\ t \in Readers
        BY <2>1, <4>g, ClassesMove, ClassesStay, PlaceClasses
      <4> QED
        BY <3>2, <4>1, <4>2
    <3> QED
      BY <3>1, <3>2
  <2>3. Cardinality(Counted \ {t}) = read_cnt - 1
    BY <2>2, CountChange
  <2>4. Writers = {} /\ Leaving = {} /\ w = 0
    BY <2>2, LockFacts
  <2>5. Lock!EndRead(t)
    BY <2>2 DEF Lock!EndRead
  <2>6. CASE read_cnt = 1
    <3>1. Readers' = {}
      BY <2>2, <2>6, CountChange, LockFacts
    <3> QED
      BY <2>1, <2>2, <2>3, <2>4, <2>5, <2>6, <3>1, LockFacts, LockNextFromClasses
      DEF Lock!Next
  <2>7. CASE read_cnt # 1
    <3>1. Readers' # {}
      <4>1. PICK u \in Counted : u # t
        BY <2>2, <2>7, CountChange, LockFacts, FS_EmptySet
      <4> QED
        BY <2>1, <2>2, <4>1, CountedInside DEF InMutex
    <3> QED
      BY <2>1, <2>2, <2>3, <2>4, <2>5, <2>7, <3>1, LockFacts, LockNextFromClasses
      DEF Lock!Next
  <2> QED
    BY <2>6, <2>7
<1>9. CASE LastReader(t)
  <2>1. /\ pc[t] = "V(w)" /\ Goto(t, "uncounted") /\ UNCHANGED <<mutex, read_cnt>>
        /\ w = 0 /\ w' = 1
    BY <1>9, Holds DEF LastReader, At, V
  <2>2. /\ Holding' = Holding /\ UNCHANGED <<Counted, Readers, Writers>>
        /\ Leaving' = Leaving \ {t} /\ t \in Leaving
    BY <1>0, <2>1, ClassesMove, ClassesStay, PlaceClasses
  <2>3. Leaving \subseteq Holding /\ Holding = {t}
    BY <1>0, <2>1 DEF Leaving, Holding, WorkersIn, InMutex
  <2>4. Leaving' = {} /\ Readers = {} /\ Writers = {}
    BY <2>2, <2>3, LockFacts
  <2> QED
    BY <2>1, <2>2, <2>4, LockFacts, LockNextFromClasses
<1>10. CASE EndRead(t)
  <2>1. /\ pc[t] = "uncounted" /\ UNCHANGED <<w, read_cnt>> /\ mutex' = 1
        /\ Goto(t, "idle") \/ Goto(t, "fetch")
    BY <1>0, <1>10 DEF EndRead, Return, At, V, InMutex
  <2>h. Holding = {t}
    BY <1>0, <2>1 DEF InMutex
  <2>2. /\ Holding' = Holding \ {t} /\ UNCHANGED <<Counted, Readers, Writers, Leaving>>
    <3>p. pc[t] = "uncounted"
      BY <2>1
    <3>c. PICK to \in {"idle", "fetch"} : Goto(t, to)
      BY <2>1
    <3>1. Holding' = Holding \ {t} /\ UNCHANGED <<Counted, Leaving>>
      BY <3>p, <3>c, ClassesMove, ClassesStay, PlaceClasses
    <3>2. UNCHANGED <<Readers, Writers>>
      BY <3>p, <3>c, ClassesMove, ClassesStay, PlaceClasses
    <3> QED
      BY <3>1, <3>2
  <2> QED
    BY <2>h, <2>1, <2>2, LockFacts, LockNextFromClasses
<1> QED
  BY <1>1, <1>2, <1>3, <1>4, <1>5, <1>6, <1>7, <1>8, <1>9, <1>10 DEF ReaderStep

(* A writer's step keeps the lock and starts or ends a write, or neither. *)
LEMMA WriterLockStep ==
  ASSUME IInv, TypeOK', NEW t \in Workers, WriterStep(t)
  PROVE  LockNext
<1>0. w \in {0, 1}
  BY DEF IInv, TypeOK
<1>1. CASE StartWrite(t)
  <2>1. /\ pc[t] = "write" /\ Goto(t, "init_line") /\ UNCHANGED <<mutex, read_cnt>>
        /\ w = 1 /\ w' = 0
    <3>1. /\ pc[t] = "write" /\ Goto(t, "init_line") /\ UNCHANGED <<mutex, read_cnt>>
          /\ w > 0 /\ w' = w - 1
      BY <1>1, Zenon DEF StartWrite, At, P
    <3>2. w = 1 /\ w' = 0
      BY <1>0, <3>1
    <3> QED
      BY <3>1, <3>2, Zenon
  <2>2. /\ Writers' = Writers \cup {t}
        /\ UNCHANGED <<Holding, Counted, Readers, Leaving>>
    BY <2>1, ClassesMove, ClassesStay, PlaceClasses
  <2>3. Readers = {} /\ Writers = {} /\ Leaving = {}
    <3>1. w = 0 <=> Writers \cup Readers \cup Leaving # {}
      BY LockFacts
    <3>2. w # 0
      BY <2>1
    <3> QED
      BY <3>1, <3>2, Zenon
  <2>4. Lock!StartWrite(t)
    BY <2>2, <2>3 DEF Lock!StartWrite
  <2> QED
    BY <2>1, <2>2, <2>3, <2>4, LockFacts, LockNextFromClasses DEF Lock!Next
<1>2. CASE EndWrite(t)
  <2>1. /\ pc[t] = "linked" /\ Goto(t, "idle") /\ UNCHANGED <<mutex, read_cnt>>
        /\ w' = 1
    <3>1. pc[t] = "linked" => w = 0
      BY Holds DEF Writing
    <3> QED
      BY <1>2, <3>1 DEF EndWrite, Return, At, V
  <2>2. /\ Writers' = Writers \ {t} /\ t \in Writers
        /\ UNCHANGED <<Holding, Counted, Readers, Leaving>>
    <3>1. Writers' = Writers \ {t} /\ t \in Writers /\ UNCHANGED Holding
      BY <2>1, ClassesMove, ClassesStay, PlaceClasses
    <3>2. UNCHANGED <<Counted, Readers, Leaving>>
      BY <2>1, ClassesMove, ClassesStay, PlaceClasses
    <3> QED
      BY <3>1, <3>2
  <2>3. Writers' = {} /\ Readers = {} /\ Leaving = {}
    BY <2>2, LockFacts
  <2>4. Lock!EndWrite(t)
    BY <2>2 DEF Lock!EndWrite
  <2> QED
    BY <2>1, <2>2, <2>3, <2>4, LockFacts, LockNextFromClasses DEF Lock!Next
<1>3. CASE cache_line_init(t)
  BY <1>3, QuietNext DEF cache_line_init, At, Quiet, lock, Writing, InMutex
<1>4. CASE Link(t)
  BY <1>4, QuietNext DEF Link, At, Quiet, lock, Writing, InMutex
<1>5. CASE Evict(t)
  <2>1. Goto(t, "evict")
    BY <1>5 DEF Evict, At, Goto, IInv, TypeOK
  <2> QED
    BY <1>5, <2>1, QuietNext DEF Evict, At, Quiet, lock, Writing, InMutex
<1> QED
  BY <1>1, <1>2, <1>3, <1>4, <1>5 DEF WriterStep

(* The network's steps do not concern the lock. *)
LEMMA NetworkLockStep ==
  ASSUME IInv, TypeOK', NEW t \in Workers, NetworkStep(t)
  PROVE  LockNext
<1>1. CASE read_request(t)
  BY <1>1, QuietNext DEF read_request, At, Quiet, lock, InMutex
<1>2. CASE Send(t)
  BY <1>2, QuietNext DEF Send, At, Quiet, lock, Reading, Moving, InMutex
<1>3. CASE forward_headers(t)
  <2>1. CASE Goto(t, "idle")
    BY <1>3, <2>1, QuietNext DEF forward_headers, At, Quiet, lock, InMutex
  <2>2. CASE Goto(t, "response")
    BY <1>3, <2>2, QuietNext DEF forward_headers, At, Quiet, lock, InMutex
  <2> QED
    BY <1>3, <2>1, <2>2 DEF forward_headers, Return
<1>4. CASE forward_response(t)
  <2>1. CASE Goto(t, "idle")
    BY <1>4, <2>1, QuietNext DEF forward_response, At, Quiet, lock, InMutex
  <2>2. CASE Goto(t, "write")
    BY <1>4, <2>2, QuietNext DEF forward_response, At, Quiet, lock, InMutex
  <2> QED
    BY <1>4, <2>1, <2>2 DEF forward_response, Return
<1> QED
  BY <1>1, <1>2, <1>3, <1>4 DEF NetworkStep

(* A reader comes to wait for w when it is the only one counted, and while *)
(* it waits it has the mutex, so nobody becomes a reader.                  *)
LEMMA FirstStep ==
  ASSUME IInv, [Next]_vars
  PROVE  FirstInv'
<1> DEFINE First == WorkersIn({"P(w)"})
<1>0. /\ pc \in [Workers -> Place] /\ (First # {} => Readers = {})
      /\ \A t, u \in Holding : t = u
  BY LockFacts DEF IInv, TypeOK, FirstInv
<1>1. ASSUME NEW t \in Workers, NEW to, Goto(t, to), to # "P(w)",
             to \in Reading => pc[t] \in Reading \/ pc[t] \in InMutex
      PROVE  FirstInv'
  <2>1. First' = First \ {t}
    BY <1>0, <1>1, Moves
  <2>2. CASE pc[t] \in InMutex
    <3>1. First \subseteq Holding /\ t \in Holding
      BY <2>2 DEF WorkersIn, Holding, InMutex
    <3>2. First' = {}
      BY <1>0, <2>1, <3>1
    <3> QED
      BY <3>2 DEF FirstInv
  <2>3. CASE pc[t] \notin InMutex
    <3>1. Readers' \subseteq Readers
      BY <1>1, <2>3, ClassesMove
    <3> QED
      BY <1>0, <2>1, <3>1 DEF FirstInv
  <2> QED
    BY <2>2, <2>3
<1>2. CASE UNCHANGED pc
  BY <1>0, <1>2 DEF FirstInv, Readers, WorkersIn
<1>3. ASSUME NEW t \in Workers, CountIn(t)
      PROVE  FirstInv'
  <2>1. CASE read_cnt = 0
    <3>1. pc[t] = "count" /\ Goto(t, "P(w)")
      BY <1>3, <2>1 DEF CountIn, At
    <3>2. Readers' = Readers \ {t}
      BY <3>1, ClassesMove DEF Reading, Moving
    <3>3. Readers = {}
      BY <2>1, CountChange, LockFacts
    <3> QED
      BY <3>2, <3>3 DEF FirstInv
  <2>2. CASE read_cnt # 0
    BY <1>1, <1>3, <2>2 DEF CountIn, At, InMutex
  <2> QED
    BY <2>1, <2>2
<1>4. ASSUME NEW t \in Workers, ReaderStep(t)
      PROVE  FirstInv'
  <2> USE DEF At, Reading, Moving, InMutex
  <2>1. CASE LockMutex(t, "enter", "count") \/ LockMutex(t, "leave", "uncount")
    BY <1>1, <2>1 DEF LockMutex
  <2>2. CASE FirstReader(t) \/ UnlockMutex(t) \/ LastReader(t)
    BY <1>1, <2>2 DEF FirstReader, UnlockMutex, LastReader
  <2>3. CASE ReadHead(t)
    BY <1>1, <2>3 DEF ReadHead
  <2>4. CASE Walk(t)
    <3>1. \/ UNCHANGED pc
          \/ pc[t] = "walk" /\ (Goto(t, "leave") \/ Goto(t, "send"))
      BY <2>4 DEF Walk
    <3> QED
      BY <1>1, <1>2, <3>1
  <2>5. CASE MoveList(t)
    <3>1. PICK to \in Moving \cup {"move_head"} : Goto(t, to)
      BY <2>5, ListMoves DEF IInv
    <3>2. pc[t] \in Moving
      BY <2>5, ListMoves DEF IInv
    <3> QED
      BY <1>1, <3>1, <3>2
  <2>6. CASE MoveHead(t)
    BY <1>1, <2>6 DEF MoveHead
  <2>7. CASE CountOut(t)
    <3>1. Goto(t, "V(w)") \/ Goto(t, "uncounted")
      BY <2>7 DEF CountOut
    <3> QED
      BY <1>1, <3>1
  <2>8. CASE EndRead(t)
    <3>1. Goto(t, "idle") \/ Goto(t, "fetch")
      BY <2>8 DEF EndRead, Return
    <3> QED
      BY <1>1, <3>1
  <2> QED
    BY <1>3, <1>4, <2>1, <2>2, <2>3, <2>4, <2>5, <2>6, <2>7, <2>8 DEF ReaderStep
<1>5. ASSUME NEW t \in Workers, WriterStep(t)
      PROVE  FirstInv'
  <2>1. \/ Goto(t, "init_line") \/ Goto(t, "evict") \/ UNCHANGED pc
        \/ Goto(t, "linked") \/ Goto(t, "idle")
    BY <1>5 DEF WriterStep, StartWrite, cache_line_init, Evict, Link, EndWrite, Return
  <2> QED
    BY <1>1, <1>2, <2>1 DEF Reading, Moving
<1>6. ASSUME NEW t \in Workers, NetworkStep(t)
      PROVE  FirstInv'
  <2>1. \/ Goto(t, "enter") \/ Goto(t, "response") \/ Goto(t, "write") \/ Goto(t, "idle")
        \/ pc[t] = "send" /\ Goto(t, "test_prev")
    BY <1>6
    DEF NetworkStep, read_request, Send, forward_headers, forward_response, Return, At
  <2> QED
    BY <1>1, <2>1 DEF Reading, Moving
<1> QED
  BY <1>2, <1>4, <1>5, <1>6 DEF Next, Fault, vars

(* The parts of the budget's invariant. *)
LEMMA BudgetFacts ==
  ASSUME IInv
  PROVE  /\ IsFiniteSet(Used) /\ Used \subseteq Lines /\ size_left \in Nat
         /\ \A l \in Lines : mem[l].size \in Nat
         /\ \A t \in Workers : pc[t] = "evict" =>
              cur[t] \in Used /\ mem[cur[t]].prev = Null /\ mem[cur[t]].size = obj_size[t]
         /\ status = "running" => size_left + Total(mem, Used \ Unlinked) = MAX_CACHE_SIZE
         /\ Unlinked = {cur[t] : t \in WorkersIn({"evict"})}
<1>1. Used \subseteq Lines
  BY DEF Used
<1>2. size_left \in Nat
  BY DEF IInv, TypeOK, BudgetInv
<1>3. status = "running" => size_left + Total(mem, Used \ Unlinked) = MAX_CACHE_SIZE
  BY SizeIsTotal DEF IInv, BudgetInv
<1>4. \A l \in Lines : mem[l].size \in Nat
  BY Fields DEF IInv
<1> QED
  BY <1>1, <1>2, <1>3, <1>4 DEF IInv, BudgetInv, WorkersIn, Unlinked

(* A step of a worker that does not evict keeps the budget, when it frees  *)
(* no line, takes none, and leaves the sizes and the writer's new line.    *)
LEMMA BudgetKept ==
  ASSUME IInv, NEW t \in Workers, NEW to, Goto(t, to), pc[t] # "evict", to # "evict",
         UNCHANGED size_left,
         \A u \in Workers \ {t} : cur'[u] = cur[u] /\ obj_size'[u] = obj_size[u],
         \A l \in Lines : mem'[l].size = mem[l].size /\ mem'[l].used = mem[l].used,
         mem' = mem \/ Writers = {},
         status' = "running" => status = "running"
  PROVE  BudgetInv'
<1>1. WorkersIn({"evict"})' = WorkersIn({"evict"}) /\ t \notin WorkersIn({"evict"})
  <2>1. \A u \in Workers : pc'[u] = IF u = t THEN to ELSE pc[u]
    BY DEF Goto, IInv, TypeOK
  <2> QED
    BY <2>1 DEF WorkersIn
<1>2. WorkersIn({"evict"}) \subseteq Workers \ {t} /\ WorkersIn({"evict"}) \subseteq Writers
  BY <1>1 DEF WorkersIn, Writers, Writing
<1>3. Used' = Used
  BY DEF Used
<1>4. Unlinked' = Unlinked
  BY <1>1, <1>2 DEF Unlinked
<1>5. \A u \in WorkersIn({"evict"})' :
        /\ cur'[u] \in Used' /\ mem'[cur'[u]].prev = Null
        /\ mem'[cur'[u]].size = obj_size'[u]
  <2>1. ASSUME NEW u \in WorkersIn({"evict"})
        PROVE  /\ cur'[u] \in Used' /\ mem'[cur'[u]].prev = Null
               /\ mem'[cur'[u]].size = obj_size'[u]
    <3>1. u \in Workers /\ pc[u] = "evict" /\ mem' = mem
      BY <1>2, <2>1 DEF WorkersIn
    <3> QED
      BY <1>2, <1>3, <2>1, <3>1, BudgetFacts
  <2> QED
    BY <1>1, <2>1
<1>6. Total(mem', Used \ Unlinked) = Total(mem, Used \ Unlinked)
  <2>1. IsFiniteSet(Used \ Unlinked) /\ Used \ Unlinked \subseteq Lines
    BY BudgetFacts, FS_Subset
  <2> QED
    BY <2>1, TotalSame
<1>7. status' = "running" => size_left' + SizeOf(Used \ Unlinked)' = MAX_CACHE_SIZE
  BY <1>3, <1>4, <1>6, SizeIsTotal, BudgetFacts
<1> QED
  BY <1>3, <1>5, <1>7, BudgetFacts DEF BudgetInv

(* The writer is alone with its line. *)
LEMMA WriterAlone ==
  ASSUME IInv, NEW t \in Workers, pc[t] \in Writing
  PROVE  /\ pc[t] # "evict" => WorkersIn({"evict"}) = {} /\ Unlinked = {}
         /\ pc[t] = "evict" => WorkersIn({"evict"}) = {t} /\ Unlinked = {cur[t]}
<1>1. WorkersIn({"evict"}) \subseteq Writers /\ t \in Writers
  BY DEF WorkersIn, Writers, Writing
<1>2. \A u \in WorkersIn({"evict"}) : u = t /\ pc[u] = "evict"
  BY <1>1, LockFacts DEF WorkersIn
<1>3. pc[t] = "evict" => t \in WorkersIn({"evict"})
  BY DEF WorkersIn
<1> QED
  BY <1>2, <1>3 DEF Unlinked

(* A writer's new line is not paid for until it is linked. *)
LEMMA NewLineBudget ==
  ASSUME IInv, NEW t \in Workers, cache_line_init(t)
  PROVE  BudgetInv'
<1>1. PICK l \in Lines \ Used :
        /\ cur' = [cur EXCEPT ![t] = l]
        /\ mem' = [mem EXCEPT ![l] = [used |-> TRUE, key |-> key[t], size |-> obj_size[t],
                                      next |-> Null, prev |-> Null]]
  BY DEF cache_line_init
<1>2. /\ pc[t] = "init_line" /\ pc' = [pc EXCEPT ![t] = "evict"]
      /\ UNCHANGED <<size_left, obj_size>> /\ (status' = "running" => status = "running")
      /\ pc \in [Workers -> Place] /\ cur \in [Workers -> Lines \cup {Null}]
      /\ mem \in [Lines -> CacheLine]
  BY DEF cache_line_init, At, Goto, list, locals, IInv, TypeOK
<1>3. Unlinked = {} /\ WorkersIn({"evict"}) = {}
  BY <1>2, WriterAlone DEF Writing
<1>4. WorkersIn({"evict"})' = {t}
  BY <1>2, <1>3 DEF WorkersIn
<1>5. Unlinked' = {l} /\ cur'[t] = l
  BY <1>1, <1>2, <1>4 DEF Unlinked
<1>6. Used' = Used \cup {l} /\ IsFiniteSet(Used')
  <2>1. Used' = Used \cup {l}
    BY <1>1, <1>2 DEF Used
  <2> QED
    BY <2>1, BudgetFacts, FS_AddElement
<1>7. Used' \ Unlinked' = Used /\ Used \ Unlinked = Used
  BY <1>1, <1>3, <1>5, <1>6
<1>8. Total(mem', Used) = Total(mem, Used)
  <2>1. \A x \in Used : mem'[x].size = mem[x].size
    BY <1>1, <1>2 DEF Used
  <2> QED
    BY <2>1, BudgetFacts, TotalSame
<1>9. status' = "running" => size_left' + SizeOf(Used \ Unlinked)' = MAX_CACHE_SIZE
  BY <1>2, <1>7, <1>8, SizeIsTotal, BudgetFacts
<1>10. mem'[l].prev = Null /\ mem'[l].size = obj_size'[t]
  BY <1>1, <1>2
<1> QED
  BY <1>2, <1>4, <1>5, <1>6, <1>9, <1>10, BudgetFacts DEF BudgetInv

(* An evicted line gives its size back; it is not the writer's new line,   *)
(* which has no line before it.                                            *)
LEMMA EvictBudget ==
  ASSUME IInv, NEW t \in Workers, Evict(t)
  PROVE  BudgetInv'
<1>1. /\ pc[t] = "evict" /\ tail \in Lines /\ mem[tail].prev # Null
      /\ size_left' = size_left + mem[tail].size
      /\ mem' = [mem EXCEPT ![tail].used = FALSE]
      /\ UNCHANGED <<pc, cur, obj_size>>
      /\ mem \in [Lines -> CacheLine]
  BY DEF Evict, At, locals, IInv, TypeOK
<1>2. status' = "running" => status = "running" /\ tail \in Used
  BY <1>1 DEF Evict, At, TouchesFreed, Touched
<1>3. WorkersIn({"evict"})' = {t} /\ Unlinked' = {cur[t]} /\ Unlinked = {cur[t]}
  <2>1. WorkersIn({"evict"}) = {t} /\ Unlinked = {cur[t]}
    BY <1>1, WriterAlone DEF Writing
  <2>2. WorkersIn({"evict"})' = {t}
    BY <1>1, <2>1 DEF WorkersIn
  <2> QED
    BY <1>1, <2>1, <2>2 DEF Unlinked
<1>4. cur[t] \in Used /\ mem[cur[t]].prev = Null /\ mem[cur[t]].size = obj_size[t]
      /\ cur[t] # tail
  BY <1>1, BudgetFacts
<1>5. Used' = Used \ {tail} /\ IsFiniteSet(Used')
  <2>1. Used' = Used \ {tail}
    BY <1>1 DEF Used, CacheLine
  <2> QED
    BY <2>1, BudgetFacts, FS_RemoveElement
<1>6. \A l \in Lines : mem'[l].size = mem[l].size /\ mem'[l].prev = mem[l].prev
  BY <1>1 DEF CacheLine
<1>7. size_left' >= 0
  BY <1>1, BudgetFacts
<1>8. ASSUME status' = "running"
      PROVE  size_left' + SizeOf(Used \ Unlinked)' = MAX_CACHE_SIZE
  <2> DEFINE paid == Used \ Unlinked
  <2>1. IsFiniteSet(paid) /\ paid \subseteq Lines /\ tail \in paid
    BY <1>2, <1>3, <1>4, <1>8, BudgetFacts, FS_Subset
  <2>2. Used' \ Unlinked' = paid \ {tail}
    BY <1>3, <1>5
  <2> HIDE DEF paid
  <2>3. /\ Total(mem, paid) = Total(mem, paid \ {tail}) + mem[tail].size
        /\ Total(mem, paid) \in Nat /\ Total(mem, paid \ {tail}) \in Nat
    BY <2>1, BudgetFacts, TotalRemove
  <2>4. Total(mem', paid \ {tail}) = Total(mem, paid \ {tail})
    <3>1. IsFiniteSet(paid \ {tail}) /\ paid \ {tail} \subseteq Lines
      BY <2>1, FS_RemoveElement
    <3> QED
      BY <1>6, <3>1, TotalSame
  <2>5. size_left + Total(mem, paid) = MAX_CACHE_SIZE
    BY <1>2, <1>8, BudgetFacts DEF paid
  <2>6. SizeOf(Used \ Unlinked)' = Total(mem, paid \ {tail})
    BY <2>2, <2>4, SizeIsTotal
  <2>7. size_left \in Nat /\ mem[tail].size \in Nat
    BY <1>1, BudgetFacts
  <2> QED
    BY <1>1, <2>3, <2>5, <2>6, <2>7
<1>9. /\ cur'[t] \in Used' /\ mem'[cur'[t]].prev = Null
      /\ mem'[cur'[t]].size = obj_size'[t]
  BY <1>1, <1>4, <1>5, <1>6, BudgetFacts
<1> QED
  BY <1>3, <1>5, <1>7, <1>8, <1>9 DEF BudgetInv

(* A line that is linked is paid for; the loop before made room for it. *)
LEMMA LinkBudget ==
  ASSUME IInv, NEW t \in Workers, Link(t)
  PROVE  BudgetInv'
<1>1. /\ pc[t] = "evict" /\ ~Full(t) /\ pc' = [pc EXCEPT ![t] = "linked"]
      /\ size_left' = size_left - obj_size[t]
      /\ status' = "running" => status = "running"
      /\ mem \in [Lines -> CacheLine] /\ pc \in [Workers -> Place]
      /\ obj_size[t] \in Nat
  BY DEF Link, At, Goto, IInv, TypeOK
<1>2. \A l \in Lines : mem'[l].size = mem[l].size /\ mem'[l].used = mem[l].used
  <2> DEFINE m == [mem EXCEPT ![cur[t]].next = head]
  <2>1. \A l \in Lines : m[l].size = mem[l].size /\ m[l].used = mem[l].used
    BY <1>1 DEF CacheLine
  <2>2. m \in [Lines -> CacheLine]
    BY <1>1, SetField DEF IInv, TypeOK
  <2>3. mem' = m \/ mem' = [m EXCEPT ![head].prev = cur[t]]
    BY DEF Link
  <2> HIDE DEF m
  <2>4. \A l \in Lines : mem'[l].size = m[l].size /\ mem'[l].used = m[l].used
    BY <2>2, <2>3 DEF CacheLine
  <2> QED
    BY <2>1, <2>4
<1>3. Used' = Used
  BY <1>2 DEF Used
<1>4. WorkersIn({"evict"}) = {t} /\ Unlinked = {cur[t]}
  BY <1>1, WriterAlone DEF Writing
<1>5. WorkersIn({"evict"})' = {} /\ Unlinked' = {}
  <2>1. WorkersIn({"evict"})' = {}
    BY <1>1, <1>4 DEF WorkersIn
  <2> QED
    BY <2>1 DEF Unlinked
<1>6. cur[t] \in Used /\ mem[cur[t]].size = obj_size[t]
  BY <1>1, BudgetFacts
<1>7. Total(mem', Used) = Total(mem, Used \ Unlinked) + obj_size[t]
      /\ Total(mem, Used \ Unlinked) \in Nat
  <2>1. Total(mem', Used) = Total(mem, Used)
    BY <1>2, BudgetFacts, TotalSame
  <2>2. /\ Total(mem, Used) = Total(mem, Used \ {cur[t]}) + mem[cur[t]].size
        /\ Total(mem, Used \ {cur[t]}) \in Nat
    BY <1>6, BudgetFacts, TotalRemove
  <2> QED
    BY <1>4, <1>6, <2>1, <2>2
<1>8. status' = "running" => size_left' + SizeOf(Used \ Unlinked)' = MAX_CACHE_SIZE
  <2>1. Used' \ Unlinked' = Used
    BY <1>3, <1>5
  <2>2. SizeOf(Used \ Unlinked)' = Total(mem, Used \ Unlinked) + obj_size[t]
    BY <1>7, <2>1, SizeIsTotal
  <2>3. /\ status = "running" => size_left + Total(mem, Used \ Unlinked) = MAX_CACHE_SIZE
        /\ size_left \in Nat
    BY BudgetFacts
  <2> QED
    BY <1>1, <1>7, <2>2, <2>3
<1>9. size_left' >= 0
  BY <1>1, BudgetFacts DEF Full
<1> QED
  BY <1>3, <1>5, <1>8, <1>9, BudgetFacts DEF BudgetInv

(* Every step keeps the budget. *)
LEMMA BudgetStep ==
  ASSUME IInv, [Next]_vars
  PROVE  BudgetInv'
<1>0. /\ pc \in [Workers -> Place] /\ mem \in [Lines -> CacheLine]
      /\ cur \in [Workers -> Lines \cup {Null}] /\ obj_size \in [Workers -> Nat]
  BY DEF IInv, TypeOK
<1>1. ASSUME NEW t \in Workers, NEW to, pc[t] # "evict", to # "evict", Goto(t, to),
             UNCHANGED <<size_left, mem>>, status' = "running" => status = "running",
             \/ UNCHANGED cur
             \/ \E l : cur' = [cur EXCEPT ![t] = l],
             \/ UNCHANGED obj_size
             \/ \E n : obj_size' = [obj_size EXCEPT ![t] = n]
      PROVE  BudgetInv'
  <2>1. \A u \in Workers \ {t} : cur'[u] = cur[u] /\ obj_size'[u] = obj_size[u]
    BY <1>0, <1>1
  <2> QED
    BY <1>1, <2>1, BudgetKept
<1>2. ASSUME NEW t \in Workers, Return(t), pc[t] # "evict", UNCHANGED <<size_left, mem>>,
             status' = "running" => status = "running"
      PROVE  BudgetInv'
  BY <1>1, <1>2 DEF Return
<1>3. ASSUME NEW t \in Workers, NEW to, pc[t] \in Reading, to \in Reading, Goto(t, to),
             UNCHANGED <<size_left, cur, obj_size>>, status' = "running" => status = "running",
             \A l \in Lines : mem'[l].size = mem[l].size /\ mem'[l].used = mem[l].used
      PROVE  BudgetInv'
  <2>1. Writers = {}
    BY <1>3, LockFacts DEF Readers, WorkersIn
  <2>2. pc[t] # "evict" /\ to # "evict"
    BY <1>3 DEF Reading, Moving
  <2> QED
    BY <1>3, <2>1, <2>2, BudgetKept
<1>4. ASSUME NEW t \in Workers, ReaderStep(t)
      PROVE  BudgetInv'
  <2> USE DEF At, list, locals
  <2>1. CASE LockMutex(t, "enter", "count") \/ LockMutex(t, "leave", "uncount")
    BY <1>1, <2>1 DEF LockMutex
  <2>2. CASE CountIn(t) \/ CountOut(t)
    BY <1>1, <2>2 DEF CountIn, CountOut
  <2>3. CASE FirstReader(t) \/ UnlockMutex(t) \/ LastReader(t)
    BY <1>1, <2>3 DEF FirstReader, UnlockMutex, LastReader
  <2>4. CASE ReadHead(t)
    BY <1>1, <2>4 DEF ReadHead
  <2>5. CASE Walk(t)
    <3>1. /\ pc[t] = "walk" /\ UNCHANGED <<size_left, mem, obj_size>>
          /\ status' = "running" => status = "running"
      BY <2>5 DEF Walk
    <3>2. \/ UNCHANGED cur /\ (Goto(t, "leave") \/ Goto(t, "send"))
          \/ cur' = [cur EXCEPT ![t] = mem[cur[t]].next] /\ Goto(t, "walk")
      BY <1>0, <2>5 DEF Walk, Goto
    <3> QED
      BY <1>1, <3>1, <3>2
  <2>6. CASE MoveList(t)
    <3>1. PICK to \in Moving \cup {"move_head"} : Goto(t, to)
      BY <2>6, ListMoves DEF IInv
    <3>2. /\ pc[t] \in Moving /\ UNCHANGED <<size_left, cur, obj_size>>
          /\ status' = "running" => status = "running"
          /\ \A l \in Lines : mem'[l].size = mem[l].size /\ mem'[l].used = mem[l].used
      BY <2>6, ListMoves DEF IInv
    <3>3. Moving \cup {"move_head"} \subseteq Reading
      BY DEF Reading, Moving
    <3> QED
      BY <1>3, <3>1, <3>2, <3>3
  <2>8. CASE MoveHead(t)
    BY <1>1, <2>8 DEF MoveHead
  <2>10. CASE EndRead(t)
    BY <1>1, <1>2, <2>10 DEF EndRead
  <2> QED
    BY <1>4, <2>1, <2>2, <2>3, <2>4, <2>5, <2>6, <2>8, <2>10 DEF ReaderStep
<1>5. ASSUME NEW t \in Workers, WriterStep(t)
      PROVE  BudgetInv'
  <2>1. CASE StartWrite(t)
    BY <1>1, <2>1 DEF StartWrite, At, list, locals
  <2>2. CASE EndWrite(t)
    BY <1>2, <2>2 DEF EndWrite, At, list
  <2> QED
    BY <1>5, <2>1, <2>2, NewLineBudget, EvictBudget, LinkBudget DEF WriterStep
<1>6. ASSUME NEW t \in Workers, NetworkStep(t)
      PROVE  BudgetInv'
  <2> USE DEF At, list, locals
  <2>1. CASE read_request(t) \/ Send(t)
    BY <1>1, <2>1 DEF read_request, Send
  <2>2. CASE forward_headers(t)
    BY <1>1, <1>2, <2>2 DEF forward_headers
  <2>3. CASE forward_response(t)
    BY <1>1, <1>2, <2>3 DEF forward_response
  <2> QED
    BY <1>6, <2>1, <2>2, <2>3 DEF NetworkStep
<1>7. CASE \/ UNCHANGED vars
           \/ \E t \in Workers : Fault(t)
  <2>1. /\ UNCHANGED <<size_left, mem, pc, cur, obj_size>>
        /\ status' = "running" => status = "running"
    BY <1>7 DEF Fault, vars, list, locals
  <2>2. UNCHANGED <<Used, Unlinked, WorkersIn({"evict"})>>
    BY <2>1 DEF Used, Unlinked, WorkersIn
  <2>3. SizeOf(Used \ Unlinked)' = SizeOf(Used \ Unlinked)
    BY <2>1, <2>2, SizeIsTotal
  <2> QED
    BY <2>1, <2>2, <2>3 DEF BudgetInv, IInv
<1> QED
  BY <1>4, <1>5, <1>6, <1>7 DEF Next

(* Every step keeps the invariant and is a step of the abstract lock. *)
LEMMA LockStep ==
  ASSUME IInv, [Next]_vars
  PROVE  IInv' /\ [Lock!Next]_<<Readers, Writers>>
<1>1. TypeOK' /\ HitInv' /\ FirstInv' /\ BudgetInv'
  BY TypeStep, HitStep, FirstStep, BudgetStep
<1>2. LockNext
  <2>1. CASE UNCHANGED <<pc, lock>>
    BY <2>1
    DEF LockNext, lock, IInv, MutexInv, CountInv, LockInv, Readers, Writers, WorkersIn
  <2>2. ASSUME NEW t \in Workers, Fault(t)
        PROVE  LockNext
    BY <2>1, <2>2 DEF Fault
  <2>3. CASE UNCHANGED vars
    BY <2>1, <2>3 DEF vars
  <2> QED
    BY <1>1, <2>2, <2>3, ReaderLockStep, WriterLockStep, NetworkLockStep DEF Next
<1> QED
  BY <1>1, <1>2 DEF LockNext, IInv

-----------------------------------------------------------------------------
(* The semaphores and the count agree with the places of the workers, for  *)
(* every number of workers: a writer is alone, and w is taken while        *)
(* somebody reads.                                                         *)
THEOREM Invariance == Spec => []IInv
<1>1. IInv /\ [Next]_vars => IInv'
  BY LockStep
<1> QED
  BY InitIInv, <1>1, PTL DEF Spec

(* Whatever the readers and writers do, somebody can go on: a lookup or a  *)
(* store waits in read_cache and write_cache only for a worker that does   *)
(* not wait.                                                               *)
THEOREM NoDeadlock == ASSUME Workers # {} PROVE Spec => []NobodyStuck
<1>1. ASSUME IInv, \A t \in Workers : Waits(t)
      PROVE  FALSE
  <2>1. PICK t \in Workers : Waits(t)
    BY <1>1
  <2>2. \A u \in Workers : u \in Holding => pc[u] = "P(w)" /\ w = 0
    BY <1>1 DEF Waits, Holding, WorkersIn, InMutex
  <2>3. CASE mutex = 0
    <3>1. PICK h \in Workers : h \in Holding
      BY <1>1, <2>3, LockFacts DEF Holding, WorkersIn
    <3>2. Readers = {} /\ w = 0
      BY <1>1, <2>2, <3>1 DEF IInv, FirstInv, WorkersIn
    <3>3. Writers # {} \/ Leaving # {}
      BY <1>1, <3>2, LockFacts
    <3> QED
      BY <1>1, <3>3 DEF Waits, Writers, Leaving, WorkersIn, Writing
  <2>4. CASE mutex # 0
    <3>1. \A u \in Workers : pc[u] \in {"P(w)", "write"} /\ w = 0
      BY <1>1, <2>4 DEF Waits
    <3>2. Holding = {}
      BY <1>1, <2>4, LockFacts
    <3>3. \A u \in Workers : pc[u] = "write"
      BY <3>1, <3>2 DEF Holding, WorkersIn, InMutex
    <3>4. Writers = {} /\ Readers = {} /\ Leaving = {}
      BY <3>3 DEF Writers, Readers, Leaving, WorkersIn, Writing, Reading, Moving
    <3> QED
      BY <1>1, <2>1, <3>1, <3>4, LockFacts
  <2> QED
    BY <2>3, <2>4
<1>2. IInv => NobodyStuck
  BY <1>1 DEF NobodyStuck
<1> QED
  BY <1>2, Invariance, PTL

(* Evicting and storing keep the budget of the cache: size_left is never   *)
(* negative and lacks the sizes of the stored lines, while no freed line   *)
(* was used.                                                               *)
THEOREM BudgetKeeps == Spec => []SizeAccounted
<1>1. ASSUME IInv
      PROVE  SizeAccounted
  <2>1. ASSUME status = "running", Writers = {}
        PROVE  size_left >= 0 /\ size_left + SizeOf(Used) = MAX_CACHE_SIZE
    <3>1. WorkersIn({"evict"}) = {}
      BY <2>1 DEF Writers, WorkersIn, Writing
    <3>2. Unlinked = {} /\ Used \ Unlinked = Used
      BY <3>1 DEF Unlinked
    <3> QED
      BY <1>1, <2>1, <3>2, BudgetFacts, SizeIsTotal
  <2> QED
    BY <2>1 DEF SizeAccounted
<1> QED
  BY <1>1, Invariance, PTL

(* read_cache and write_cache use mutex, w and read_cnt as a lock that     *)
(* excludes a writer from everybody else.                                  *)
THEOREM Refinement == Spec => ImplementsLock
<1>1. Init => Lock!Init
  <2>1. ASSUME Init
        PROVE  Readers = {} /\ Writers = {}
    BY <2>1 DEF Init, Readers, Writers, WorkersIn, Reading, Moving, Writing
  <2> QED
    BY <2>1 DEF Lock!Init
<1>2. IInv /\ [Next]_vars => [Lock!Next]_<<Readers, Writers>>
  BY LockStep
<1> QED
  BY <1>1, <1>2, Invariance, PTL DEF Spec, ImplementsLock, Lock!Spec
=============================================================================
