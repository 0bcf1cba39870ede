-------------------------- MODULE ThreadPoolProofs --------------------------
(***************************************************************************)
(* The bounded buffer between the proxy's threads, for every number of     *)
(* workers, every buffer size and every run length: the invariant IInv of  *)
(* ThreadPool is inductive.                                                *)
(***************************************************************************)
EXTENDS ThreadPool, FiniteSetTheorems, SequenceTheorems, TLAPS

USE PoolAssumption

\* The cell of an index is a cell of the buffer.
LEMMA CellInBuffer ==
  ASSUME NEW k \in Int
  PROVE  k % n \in 0 .. n - 1
OBVIOUS

\* Indices less than n apart have different cells.
LEMMA CellsApart ==
  ASSUME NEW j \in Int, NEW k \in Int, j < k, k - j < n
  PROVE  j % n # k % n
<1> DEFINE q(x) == x \div n
<1>1. /\ j = n * q(j) + (j % n) /\ q(j) \in Int
      /\ k = n * q(k) + (k % n) /\ q(k) \in Int
  OBVIOUS
<1> SUFFICES ASSUME j % n = k % n PROVE FALSE
  OBVIOUS
<1> HIDE DEF q
<1>2. j % n \in Int
  BY CellInBuffer
<1>3. k - j = n * (q(k) - q(j))
  BY <1>1, <1>2
<1>4. PICK d \in Int : d = q(k) - q(j)
  BY <1>1
<1>5. k - j = n * d
  BY <1>3, <1>4
<1>6. CASE d <= 0
  <2>1. n * d <= 0
    BY <1>6
  <2> QED
    BY <2>1, <1>5
<1>7. CASE d >= 1
  <2>1. n * d >= n
    BY <1>7
  <2> QED
    BY <2>1, <1>5
<1> QED
  BY <1>6, <1>7

LEMMA InitInv == Init => IInv
<1> SUFFICES ASSUME Init PROVE IInv
  OBVIOUS
<1> USE DEF Init, sbuf_init, Threads
<1>1. TypeOK
  BY DEF TypeOK, MainPlaces, WorkerPlaces
<1>2. PlacesInv
  BY DEF PlacesInv, MainPlaces, WorkerPlaces
<1>3. LockInv
  BY DEF LockInv, MutualExclusion, Inside
<1>4. TokensCounted
  <2>1. Takers = {} /\ Givers = {}
    BY DEF Takers, Givers
  <2> QED
    BY <2>1, FS_EmptySet DEF TokensCounted, MainHasItem, MainHasSlot
<1>5. OneHolder
  BY DEF OneHolder, Queued, Window, Held
<1> QED
  BY <1>1, <1>2, <1>3, <1>4, <1>5 DEF IInv

\* The sets that the semaphores are counted with.
LEMMA CountsType ==
  /\ IsFiniteSet(Takers) /\ Cardinality(Takers) \in Nat
  /\ IsFiniteSet(Givers) /\ Cardinality(Givers) \in Nat
  /\ \A w \in Workers : pc[w] = "take" => Cardinality(Takers) >= 1
<1>1. Takers \in SUBSET Workers /\ Givers \in SUBSET Workers
  BY DEF Takers, Givers
<1>2. IsFiniteSet(Takers) /\ IsFiniteSet(Givers)
  BY <1>1, FS_Subset
<1>3. Cardinality(Takers) \in Nat /\ Cardinality(Givers) \in Nat
  BY <1>2, FS_CardinalityType
<1>4. ASSUME NEW w \in Workers, pc[w] = "take" PROVE Cardinality(Takers) # 0
  <2>1. w \in Takers
    BY <1>4 DEF Takers
  <2> QED
    BY <2>1, <1>2, FS_EmptySet
<1> QED
  BY <1>2, <1>3, <1>4

\* What the tokens say of the two indices.
LEMMA IndicesApart ==
  ASSUME IInv
  PROVE  BufferInBounds
<1> USE DEF IInv, TypeOK
<1>1. /\ items + Cardinality(Takers) + MainHasItem = rear - front
      /\ slots + Cardinality(Givers) + MainHasSlot = n - (rear - front)
  BY DEF TokensCounted
<1>2. MainHasItem \in {0, 1} /\ MainHasSlot \in {0, 1}
  BY DEF MainHasItem, MainHasSlot
<1>3. pc[Main] = "put" => MainHasSlot = 1
  BY DEF MainHasSlot
<1> QED
  BY <1>1, <1>2, <1>3, CountsType DEF BufferInBounds

\* The cell that a removal reads holds a connection.
LEMMA CellHolds ==
  ASSUME IInv, NEW w \in Workers, pc[w] = "take"
  PROVE  /\ front + 1 \in Window
         /\ Cell(front + 1) \in Fds /\ Cell(front + 1) # NoFd
<1>1. front \in Nat /\ rear \in Int /\ open \subseteq Fds
  BY DEF IInv, TypeOK
<1>2. front + 1 \in Window
  BY <1>1, IndicesApart DEF BufferInBounds, Window
<1>3. Cell(front + 1) \in open
  BY <1>2 DEF IInv, OneHolder, Queued
<1> QED
  BY <1>1, <1>2, <1>3

\* The places of the threads, and what they hold there.
LEMMA PlacesStep ==
  ASSUME IInv, [Next]_vars
  PROVE  PlacesInv'
<1> USE DEF IInv, TypeOK, PlacesInv, MainPlaces, WorkerPlaces, Threads
<1>1. CASE Accept
  BY <1>1 DEF Accept, Goto
<1>2. CASE InsertSlots
  BY <1>2 DEF InsertSlots, Goto, P
<1>3. CASE Lock(Main, "P(mutex)", "put")
  BY <1>3 DEF Lock, Goto, P
<1>4. CASE Put
  BY <1>4 DEF Put, Goto
<1>5. CASE Unlock(Main, "V(mutex)", "V(items)")
  BY <1>5 DEF Unlock, Goto, V
<1>6. CASE InsertItems
  BY <1>6 DEF InsertItems, Goto, V
<1>7. ASSUME NEW w \in Workers, RemoveItems(w, "P(items)", "P(mutex)") PROVE PlacesInv'
  BY <1>7 DEF RemoveItems, Goto, P
<1>8. ASSUME NEW w \in Workers, Lock(w, "P(mutex)", "take") PROVE PlacesInv'
  BY <1>8 DEF Lock, Goto, P
<1>9. ASSUME NEW w \in Workers, Take(w) PROVE PlacesInv'
  <2>1. pc[w] = "take"
    BY <1>9 DEF Take, Goto
  <2>2. buf[(front + 1) % n] # NoFd
    BY <2>1, CellHolds DEF Cell
  <2> QED
    BY <1>9, <2>2 DEF Take, Goto
<1>10. ASSUME NEW w \in Workers, Unlock(w, "V(mutex)", "V(slots)") PROVE PlacesInv'
  BY <1>10 DEF Unlock, Goto, V
<1>11. ASSUME NEW w \in Workers, RemoveSlots(w) PROVE PlacesInv'
  BY <1>11 DEF RemoveSlots, Goto, V
<1>12. ASSUME NEW w \in Workers, Serve(w) PROVE PlacesInv'
  BY <1>12 DEF Serve, Goto
<1>13. ASSUME NEW w \in Workers, Close(w) PROVE PlacesInv'
  BY <1>13 DEF Close, Goto
<1>14. CASE UNCHANGED memory
  BY <1>14 DEF memory
<1> QED
  BY <1>1, <1>2, <1>3, <1>4, <1>5, <1>6, <1>7, <1>8, <1>9, <1>10, <1>11, <1>12, <1>13, <1>14
     DEF Next, MainStep, Removes, unix_error, vars

\* At most one thread is inside, and then the mutex is taken.
LEMMA LockStep ==
  ASSUME IInv, [Next]_vars
  PROVE  LockInv'
<1> USE DEF IInv, TypeOK, PlacesInv, MainPlaces, WorkerPlaces, Threads, LockInv,
            MutualExclusion, Inside
<1>1. CASE Accept
  BY <1>1 DEF Accept, Goto
<1>2. CASE InsertSlots
  BY <1>2 DEF InsertSlots, Goto, P
<1>3. CASE Lock(Main, "P(mutex)", "put")
  BY <1>3 DEF Lock, Goto, P
<1>4. CASE Put
  BY <1>4 DEF Put, Goto
<1>5. CASE Unlock(Main, "V(mutex)", "V(items)")
  BY <1>5 DEF Unlock, Goto, V
<1>6. CASE InsertItems
  BY <1>6 DEF InsertItems, Goto, V
<1>7. ASSUME NEW w \in Workers, RemoveItems(w, "P(items)", "P(mutex)") PROVE LockInv'
  BY <1>7 DEF RemoveItems, Goto, P
<1>8. ASSUME NEW w \in Workers, Lock(w, "P(mutex)", "take") PROVE LockInv'
  BY <1>8 DEF Lock, Goto, P
<1>9. ASSUME NEW w \in Workers, Take(w) PROVE LockInv'
  BY <1>9 DEF Take, Goto
<1>10. ASSUME NEW w \in Workers, Unlock(w, "V(mutex)", "V(slots)") PROVE LockInv'
  BY <1>10 DEF Unlock, Goto, V
<1>11. ASSUME NEW w \in Workers, RemoveSlots(w) PROVE LockInv'
  BY <1>11 DEF RemoveSlots, Goto, V
<1>12. ASSUME NEW w \in Workers, Serve(w) PROVE LockInv'
  BY <1>12 DEF Serve, Goto
<1>13. ASSUME NEW w \in Workers, Close(w) PROVE LockInv'
  BY <1>13 DEF Close, Goto
<1>14. CASE UNCHANGED memory
  BY <1>14 DEF memory
<1> QED
  BY <1>1, <1>2, <1>3, <1>4, <1>5, <1>6, <1>7, <1>8, <1>9, <1>10, <1>11, <1>12, <1>13, <1>14
     DEF Next, MainStep, Removes, unix_error, vars

\* The types, which need the lock (V(mutex) gives 1) and the tokens (a removal
\* reads a connection).
LEMMA TypeStep ==
  ASSUME IInv, [Next]_vars
  PROVE  TypeOK'
<1> USE DEF IInv, TypeOK, MainPlaces, WorkerPlaces, Threads
<1>1. CASE Accept
  BY <1>1 DEF Accept, Goto
<1>2. CASE InsertSlots
  BY <1>2 DEF InsertSlots, Goto, P
<1>3. CASE Lock(Main, "P(mutex)", "put")
  BY <1>3 DEF Lock, Goto, P
<1>4. CASE Put
  <2>1. rear < MAX_CONN /\ fd[Main] \in Fds
    BY <1>4 DEF Put, Goto, PlacesInv
  <2>2. rear + 1 \in Int /\ rear + 1 \in 0 .. MAX_CONN
    BY <2>1
  <2>3. buf' \in [0 .. n - 1 -> Fds \cup {NoFd}]
    BY <1>4, <2>1 DEF Put
  <2> QED
    BY <1>4, <2>1, <2>2, <2>3 DEF Put, Goto
<1>5. CASE Unlock(Main, "V(mutex)", "V(items)")
  BY <1>5 DEF Unlock, Goto, V, LockInv, Inside
<1>6. CASE InsertItems
  BY <1>6 DEF InsertItems, Goto, V
<1>7. ASSUME NEW w \in Workers, RemoveItems(w, "P(items)", "P(mutex)") PROVE TypeOK'
  BY <1>7 DEF RemoveItems, Goto, P
<1>8. ASSUME NEW w \in Workers, Lock(w, "P(mutex)", "take") PROVE TypeOK'
  BY <1>8 DEF Lock, Goto, P
<1>9. ASSUME NEW w \in Workers, Take(w) PROVE TypeOK'
  <2>1. pc[w] = "take"
    BY <1>9 DEF Take, Goto
  <2>2. buf[(front + 1) % n] \in Fds
    BY <2>1, CellHolds DEF Cell
  <2> QED
    BY <1>9, <2>2 DEF Take, Goto
<1>10. ASSUME NEW w \in Workers, Unlock(w, "V(mutex)", "V(slots)") PROVE TypeOK'
  BY <1>10 DEF Unlock, Goto, V, LockInv, Inside
<1>11. ASSUME NEW w \in Workers, RemoveSlots(w) PROVE TypeOK'
  BY <1>11 DEF RemoveSlots, Goto, V
<1>12. ASSUME NEW w \in Workers, Serve(w) PROVE TypeOK'
  BY <1>12 DEF Serve, Goto
<1>13. ASSUME NEW w \in Workers, Close(w) PROVE TypeOK'
  BY <1>13 DEF Close, Goto
<1>14. CASE UNCHANGED memory /\ status' \in {"running", "exited"}
  BY <1>14 DEF memory
<1> QED
  BY <1>1, <1>2, <1>3, <1>4, <1>5, <1>6, <1>7, <1>8, <1>9, <1>10, <1>11, <1>12, <1>13, <1>14 DEF Next, MainStep, Removes, unix_error, vars

\* Putting an element in a finite set, or taking it out.
LEMMA CountChange ==
  ASSUME NEW S, IsFiniteSet(S), NEW x, NEW b \in BOOLEAN
  PROVE  Cardinality(IF b THEN S \cup {x} ELSE S \ {x})
           = Cardinality(S) + (IF b THEN 1 ELSE 0) - (IF x \in S THEN 1 ELSE 0)
<1>1. Cardinality(S) \in Nat
  BY FS_CardinalityType
<1>2. CASE b
  <2>1. Cardinality(S \cup {x}) = IF x \in S THEN Cardinality(S) ELSE Cardinality(S) + 1
    BY FS_AddElement
  <2> QED
    BY <1>1, <1>2, <2>1
<1>3. CASE ~ b
  <2>1. Cardinality(S \ {x}) = IF x \in S THEN Cardinality(S) - 1 ELSE Cardinality(S)
    BY FS_RemoveElement
  <2> QED
    BY <1>1, <1>3, <2>1
<1> QED
  BY <1>2, <1>3

\* How a worker's step changes the counted sets.
LEMMA CountsAfter ==
  ASSUME NEW w \in Workers, \A t \in Threads \ {w} : pc'[t] = pc[t]
  PROVE  /\ Cardinality(Takers') = Cardinality(Takers)
              + (IF pc'[w] \in {"P(mutex)", "take"} THEN 1 ELSE 0)
              - (IF pc[w] \in {"P(mutex)", "take"} THEN 1 ELSE 0)
         /\ Cardinality(Givers') = Cardinality(Givers)
              + (IF pc'[w] \in {"V(mutex)", "V(slots)"} THEN 1 ELSE 0)
              - (IF pc[w] \in {"V(mutex)", "V(slots)"} THEN 1 ELSE 0)
         /\ MainHasItem' = MainHasItem /\ MainHasSlot' = MainHasSlot
<1> DEFINE T == {"P(mutex)", "take"}
           G == {"V(mutex)", "V(slots)"}
<1>2. Takers' = IF pc'[w] \in T THEN Takers \cup {w} ELSE Takers \ {w}
  BY DEF Takers, Threads
<1>3. Givers' = IF pc'[w] \in G THEN Givers \cup {w} ELSE Givers \ {w}
  BY DEF Givers, Threads
<1>4. (w \in Takers <=> pc[w] \in T) /\ (w \in Givers <=> pc[w] \in G)
  BY DEF Takers, Givers
<1>5. IsFiniteSet(Takers) /\ IsFiniteSet(Givers)
      /\ Cardinality(Takers) \in Nat /\ Cardinality(Givers) \in Nat
  BY CountsType
<1>6. MainHasItem' = MainHasItem /\ MainHasSlot' = MainHasSlot
  BY DEF MainHasItem, MainHasSlot, Threads
<1> HIDE DEF T, G
<1>7. (pc'[w] \in T) \in BOOLEAN /\ (pc'[w] \in G) \in BOOLEAN
  OBVIOUS
<1>8. Cardinality(Takers') = Cardinality(Takers) + (IF pc'[w] \in T THEN 1 ELSE 0)
                             - (IF pc[w] \in T THEN 1 ELSE 0)
  BY <1>2, <1>4, <1>5, <1>7, CountChange
<1>9. Cardinality(Givers') = Cardinality(Givers) + (IF pc'[w] \in G THEN 1 ELSE 0)
                             - (IF pc[w] \in G THEN 1 ELSE 0)
  BY <1>3, <1>4, <1>5, <1>7, CountChange
<1> QED
  BY <1>6, <1>8, <1>9 DEF T, G

\* A step of main leaves the workers' sets alone.
LEMMA CountsKept ==
  ASSUME \A w \in Workers : pc'[w] = pc[w]
  PROVE  Takers' = Takers /\ Givers' = Givers
  BY DEF Takers, Givers

\* Tokens are neither made nor lost.
LEMMA TokensStep ==
  ASSUME IInv, [Next]_vars
  PROVE  TokensCounted'
<1> USE DEF TokensCounted
<1>t. /\ TypeOK /\ items \in Int /\ slots \in Int /\ front \in Int /\ rear \in Int
      /\ Cardinality(Takers) \in Int /\ Cardinality(Givers) \in Int
      /\ MainHasItem \in Int /\ MainHasSlot \in Int
      /\ items + Cardinality(Takers) + MainHasItem = rear - front
      /\ slots + Cardinality(Givers) + MainHasSlot = n - (rear - front)
  BY CountsType DEF IInv, TypeOK, MainHasItem, MainHasSlot
<1>1. CASE Accept
  <2>1. /\ pc[Main] = "accept" /\ pc'[Main] = "P(slots)"
        /\ \A w \in Workers : pc'[w] = pc[w]
    BY <1>1, <1>t DEF Accept, Goto, TypeOK, Threads
  <2>2. MainHasItem = 0 /\ MainHasSlot = 0
    BY <2>1 DEF MainHasItem, MainHasSlot
  <2>3. /\ Takers' = Takers /\ Givers' = Givers
        /\ MainHasItem' = 0 /\ MainHasSlot' = 0
    BY <2>1, CountsKept DEF MainHasItem, MainHasSlot
  <2> QED
    BY <1>1, <1>t, <2>2, <2>3 DEF Accept
<1>2. CASE InsertSlots
  <2>1. /\ pc[Main] = "P(slots)" /\ pc'[Main] = "P(mutex)"
        /\ \A w \in Workers : pc'[w] = pc[w]
    BY <1>2, <1>t DEF InsertSlots, Goto, TypeOK, Threads
  <2>2. MainHasItem = 0 /\ MainHasSlot = 0
    BY <2>1 DEF MainHasItem, MainHasSlot
  <2>3. /\ Takers' = Takers /\ Givers' = Givers
        /\ MainHasItem' = 0 /\ MainHasSlot' = 1
    BY <2>1, CountsKept DEF MainHasItem, MainHasSlot
  <2> QED
    BY <1>2, <1>t, <2>2, <2>3 DEF InsertSlots, P
<1>3. CASE Lock(Main, "P(mutex)", "put")
  <2>1. /\ pc[Main] = "P(mutex)" /\ pc'[Main] = "put"
        /\ \A w \in Workers : pc'[w] = pc[w]
    BY <1>3, <1>t DEF Lock, Goto, TypeOK, Threads
  <2>2. MainHasItem = 0 /\ MainHasSlot = 1
    BY <2>1 DEF MainHasItem, MainHasSlot
  <2>3. /\ Takers' = Takers /\ Givers' = Givers
        /\ MainHasItem' = 0 /\ MainHasSlot' = 1
    BY <2>1, CountsKept DEF MainHasItem, MainHasSlot
  <2> QED
    BY <1>3, <1>t, <2>2, <2>3 DEF Lock, P
<1>4. CASE Put
  <2>1. /\ pc[Main] = "put" /\ pc'[Main] = "V(mutex)"
        /\ \A w \in Workers : pc'[w] = pc[w]
    BY <1>4, <1>t DEF Put, Goto, TypeOK, Threads
  <2>2. MainHasItem = 0 /\ MainHasSlot = 1
    BY <2>1 DEF MainHasItem, MainHasSlot
  <2>3. /\ Takers' = Takers /\ Givers' = Givers
        /\ MainHasItem' = 1 /\ MainHasSlot' = 0
    BY <2>1, CountsKept DEF MainHasItem, MainHasSlot
  <2> QED
    BY <1>4, <1>t, <2>2, <2>3 DEF Put
<1>5. CASE Unlock(Main, "V(mutex)", "V(items)")
  <2>1. /\ pc[Main] = "V(mutex)" /\ pc'[Main] = "V(items)"
        /\ \A w \in Workers : pc'[w] = pc[w]
    BY <1>5, <1>t DEF Unlock, Goto, TypeOK, Threads
  <2>2. MainHasItem = 1 /\ MainHasSlot = 0
    BY <2>1 DEF MainHasItem, MainHasSlot
  <2>3. /\ Takers' = Takers /\ Givers' = Givers
        /\ MainHasItem' = 1 /\ MainHasSlot' = 0
    BY <2>1, CountsKept DEF MainHasItem, MainHasSlot
  <2> QED
    BY <1>5, <1>t, <2>2, <2>3 DEF Unlock, V
<1>6. CASE InsertItems
  <2>1. /\ pc[Main] = "V(items)" /\ pc'[Main] = "accept"
        /\ \A w \in Workers : pc'[w] = pc[w]
    BY <1>6, <1>t DEF InsertItems, Goto, TypeOK, Threads
  <2>2. MainHasItem = 1 /\ MainHasSlot = 0
    BY <2>1 DEF MainHasItem, MainHasSlot
  <2>3. /\ Takers' = Takers /\ Givers' = Givers
        /\ MainHasItem' = 0 /\ MainHasSlot' = 0
    BY <2>1, CountsKept DEF MainHasItem, MainHasSlot
  <2> QED
    BY <1>6, <1>t, <2>2, <2>3 DEF InsertItems, V
<1>7. ASSUME NEW w \in Workers, RemoveItems(w, "P(items)", "P(mutex)") PROVE TokensCounted'
  <2>1. /\ pc[w] = "P(items)" /\ pc'[w] = "P(mutex)"
        /\ \A t \in Threads \ {w} : pc'[t] = pc[t]
    BY <1>7, <1>t DEF RemoveItems, Goto, TypeOK, Threads
  <2>2. /\ Cardinality(Takers') = Cardinality(Takers) + 1
        /\ Cardinality(Givers') = Cardinality(Givers)
        /\ MainHasItem' = MainHasItem /\ MainHasSlot' = MainHasSlot
    BY <1>t, <2>1, CountsAfter
  <2> QED
    BY <1>7, <1>t, <2>2 DEF RemoveItems, P
<1>8. ASSUME NEW w \in Workers, Lock(w, "P(mutex)", "take") PROVE TokensCounted'
  <2>1. /\ pc[w] = "P(mutex)" /\ pc'[w] = "take"
        /\ \A t \in Threads \ {w} : pc'[t] = pc[t]
    BY <1>8, <1>t DEF Lock, Goto, TypeOK, Threads
  <2>2. /\ Cardinality(Takers') = Cardinality(Takers)
        /\ Cardinality(Givers') = Cardinality(Givers)
        /\ MainHasItem' = MainHasItem /\ MainHasSlot' = MainHasSlot
    BY <1>t, <2>1, CountsAfter
  <2> QED
    BY <1>8, <1>t, <2>2 DEF Lock, P
<1>9. ASSUME NEW w \in Workers, Take(w) PROVE TokensCounted'
  <2>1. /\ pc[w] = "take" /\ pc'[w] = "V(mutex)"
        /\ \A t \in Threads \ {w} : pc'[t] = pc[t]
    BY <1>9, <1>t DEF Take, Goto, TypeOK, Threads
  <2>2. /\ Cardinality(Takers') = Cardinality(Takers) - 1
        /\ Cardinality(Givers') = Cardinality(Givers) + 1
        /\ MainHasItem' = MainHasItem /\ MainHasSlot' = MainHasSlot
    BY <1>t, <2>1, CountsAfter
  <2> QED
    BY <1>9, <1>t, <2>2 DEF Take
<1>10. ASSUME NEW w \in Workers, Unlock(w, "V(mutex)", "V(slots)") PROVE TokensCounted'
  <2>1. /\ pc[w] = "V(mutex)" /\ pc'[w] = "V(slots)"
        /\ \A t \in Threads \ {w} : pc'[t] = pc[t]
    BY <1>10, <1>t DEF Unlock, Goto, TypeOK, Threads
  <2>2. /\ Cardinality(Takers') = Cardinality(Takers)
        /\ Cardinality(Givers') = Cardinality(Givers)
        /\ MainHasItem' = MainHasItem /\ MainHasSlot' = MainHasSlot
    BY <1>t, <2>1, CountsAfter
  <2> QED
    BY <1>10, <1>t, <2>2 DEF Unlock, V
<1>11. ASSUME NEW w \in Workers, RemoveSlots(w) PROVE TokensCounted'
  <2>1. /\ pc[w] = "V(slots)" /\ pc'[w] = "serve"
        /\ \A t \in Threads \ {w} : pc'[t] = pc[t]
    BY <1>11, <1>t DEF RemoveSlots, Goto, TypeOK, Threads
  <2>2. /\ Cardinality(Takers') = Cardinality(Takers)
        /\ Cardinality(Givers') = Cardinality(Givers) - 1
        /\ MainHasItem' = MainHasItem /\ MainHasSlot' = MainHasSlot
    BY <1>t, <2>1, CountsAfter
  <2> QED
    BY <1>11, <1>t, <2>2 DEF RemoveSlots, V
<1>12. ASSUME NEW w \in Workers, Serve(w) PROVE TokensCounted'
  <2>1. /\ pc[w] = "serve" /\ pc'[w] = "close"
        /\ \A t \in Threads \ {w} : pc'[t] = pc[t]
    BY <1>12, <1>t DEF Serve, Goto, TypeOK, Threads
  <2>2. Takers' = Takers /\ Givers' = Givers
    BY <2>1 DEF Takers, Givers, Threads
  <2>3. MainHasItem' = MainHasItem /\ MainHasSlot' = MainHasSlot
    BY <2>1 DEF MainHasItem, MainHasSlot, Threads
  <2> QED
    BY <1>12, <1>t, <2>2, <2>3 DEF Serve
<1>13. ASSUME NEW w \in Workers, Close(w) PROVE TokensCounted'
  <2>1. /\ pc[w] = "close" /\ pc'[w] = "P(items)"
        /\ \A t \in Threads \ {w} : pc'[t] = pc[t]
    BY <1>13, <1>t DEF Close, Goto, TypeOK, Threads
  <2>2. Takers' = Takers /\ Givers' = Givers
    BY <2>1 DEF Takers, Givers, Threads
  <2>3. MainHasItem' = MainHasItem /\ MainHasSlot' = MainHasSlot
    BY <2>1 DEF MainHasItem, MainHasSlot, Threads
  <2> QED
    BY <1>13, <1>t, <2>2, <2>3 DEF Close
<1>14. CASE UNCHANGED memory
  <2>1. /\ Takers' = Takers /\ Givers' = Givers
        /\ MainHasItem' = MainHasItem /\ MainHasSlot' = MainHasSlot
    BY <1>14 DEF memory, Takers, Givers, MainHasItem, MainHasSlot
  <2> QED
    BY <1>14, <1>t, <2>1 DEF memory
<1> QED
  BY <1>1, <1>2, <1>3, <1>4, <1>5, <1>6, <1>7, <1>8, <1>9, <1>10, <1>11, <1>12, <1>13, <1>14
     DEF Next, MainStep, Removes, unix_error, vars

\* A step that leaves the buffer, the indices, the hands and the open set alone.
LEMMA HoldersKept ==
  ASSUME OneHolder, UNCHANGED <<buf, front, rear, fd, open>>
  PROVE  OneHolder'
<1>1. Queued' = Queued /\ Held' = Held /\ Window' = Window
  BY DEF Queued, Held, Window, Cell
<1>2. \A k \in Window : Cell(k)' = Cell(k)
  BY DEF Cell
<1> QED
  BY <1>1, <1>2 DEF OneHolder, Cell

\* The cells of an insertion: one more, the others untouched.
LEMMA PutCells ==
  ASSUME IInv, Put
  PROVE  /\ Window' = Window \cup {rear + 1} /\ rear + 1 \notin Window
         /\ \A k \in Window : Cell(k)' = Cell(k)
         /\ \A k \in {rear + 1} : Cell(k)' = fd[Main]
<1>1. /\ front \in Nat /\ rear \in Nat
      /\ buf \in [0 .. n - 1 -> Fds \cup {NoFd}]
  BY DEF IInv, TypeOK
<1>2. 0 <= rear - front /\ rear - front < n
  BY IndicesApart DEF BufferInBounds, Put, Goto
<1>3. /\ rear' = rear + 1 /\ front' = front
      /\ buf' = [buf EXCEPT ![(rear + 1) % n] = fd[Main]]
  BY DEF Put
<1>4. Window' = Window \cup {rear + 1} /\ rear + 1 \notin Window
  BY <1>1, <1>2, <1>3 DEF Window
<1>5. (rear + 1) % n \in 0 .. n - 1
  <2>1. rear + 1 \in Int
    BY <1>1
  <2> QED
    BY <2>1, CellInBuffer
<1>6. ASSUME NEW k \in Window PROVE Cell(k)' = Cell(k)
  <2>1. k \in Int /\ rear + 1 \in Int /\ k < rear + 1 /\ (rear + 1) - k < n
    BY <1>1, <1>2 DEF Window
  <2>2. k % n # (rear + 1) % n /\ k % n \in 0 .. n - 1
    BY <2>1, CellsApart, CellInBuffer
  <2> QED
    BY <1>1, <1>3, <2>2 DEF Cell
<1>7. \A k \in {rear + 1} : Cell(k)' = fd[Main]
  BY <1>1, <1>3, <1>5 DEF Cell
<1> QED
  BY <1>4, <1>6, <1>7

\* The cells of a removal: the oldest is no longer in the window.
LEMMA TakeCells ==
  ASSUME IInv, NEW w \in Workers, Take(w)
  PROVE  /\ front + 1 \in Window /\ Window' = Window \ {front + 1}
         /\ \A k \in Window : Cell(k)' = Cell(k)
         /\ fd' = [fd EXCEPT ![w] = Cell(front + 1)]
         /\ Cell(front + 1) # NoFd
<1>1. front \in Nat /\ rear \in Nat
  BY DEF IInv, TypeOK
<1>2. pc[w] = "take" /\ front' = front + 1 /\ rear' = rear /\ buf' = buf
  BY DEF Take, Goto
<1>3. front + 1 \in Window /\ Cell(front + 1) # NoFd
  BY <1>2, CellHolds
<1>4. Window' = Window \ {front + 1}
  BY <1>1, <1>2 DEF Window
<1>5. \A k \in Window : Cell(k)' = Cell(k)
  BY <1>2 DEF Cell
<1>6. fd' = [fd EXCEPT ![w] = Cell(front + 1)]
  BY DEF Take, Cell
<1> QED
  BY <1>3, <1>4, <1>5, <1>6

\* Each open connection keeps exactly one holder.
LEMMA HolderStep ==
  ASSUME IInv, [Next]_vars
  PROVE  OneHolder'
<1>t. /\ OneHolder /\ Main \in Threads /\ Workers \subseteq Threads
      /\ fd \in [Threads -> Fds \cup {NoFd}]
  BY DEF IInv, TypeOK, Threads
<1>1. CASE Accept
  <2>1. PICK c \in Fds \ open : fd' = [fd EXCEPT ![Main] = c] /\ open' = open \cup {c}
    BY <1>1 DEF Accept
  <2>2. fd[Main] = NoFd
    BY <1>1 DEF Accept, Goto, IInv, PlacesInv
  <2>3. Held' = Held \cup {c}
    BY <1>t, <2>1, <2>2 DEF Held, Threads
  <2>4. Queued' = Queued /\ Window' = Window /\ \A k \in Window : Cell(k)' = Cell(k)
    BY <1>1 DEF Accept, Queued, Window, Cell
  <2>5. \A t \in Threads : fd[t] # c
    BY <1>t, <2>1 DEF OneHolder, Held
  <2> QED
    BY <1>t, <2>1, <2>3, <2>4, <2>5 DEF OneHolder
<1>2. CASE InsertSlots
  BY <1>2, <1>t, HoldersKept DEF InsertSlots
<1>3. CASE Lock(Main, "P(mutex)", "put")
  BY <1>3, <1>t, HoldersKept DEF Lock
<1>4. CASE Put
  <2>1. /\ Window' = Window \cup {rear + 1} /\ rear + 1 \notin Window
        /\ \A k \in Window : Cell(k)' = Cell(k)
        /\ \A k \in {rear + 1} : Cell(k)' = fd[Main]
    BY <1>4, PutCells
  <2>2. fd' = [fd EXCEPT ![Main] = NoFd] /\ open' = open /\ fd[Main] # NoFd
    BY <1>4 DEF Put, Goto, IInv, PlacesInv
  <2>3. Queued' = Queued \cup {fd[Main]}
    BY <2>1 DEF Queued
  <2>4. Held' = Held \ {fd[Main]} /\ fd[Main] \in Held
    BY <1>t, <2>2 DEF Held, OneHolder
  <2>5. \A k \in Window : Cell(k) # fd[Main]
    BY <1>t, <2>4 DEF OneHolder, Queued
  <2>6. \A j, k \in Window' : Cell(j)' = Cell(k)' => j = k
    <3> SUFFICES ASSUME NEW j \in Window', NEW k \in Window', Cell(j)' = Cell(k)'
                 PROVE  j = k
      OBVIOUS
    <3>1. CASE j \in Window /\ k \in Window
      BY <1>t, <2>1, <3>1 DEF OneHolder
    <3>2. CASE j = rear + 1 \/ k = rear + 1
      BY <2>1, <2>5, <3>2
    <3> QED
      BY <2>1, <3>1, <3>2
  <2>7. \A t, u \in Threads : fd'[t] = fd'[u] /\ fd'[t] # NoFd => t = u
    BY <1>t, <2>2 DEF OneHolder
  <2> QED
    BY <1>t, <2>2, <2>3, <2>4, <2>6, <2>7 DEF OneHolder
<1>5. CASE Unlock(Main, "V(mutex)", "V(items)")
  BY <1>5, <1>t, HoldersKept DEF Unlock
<1>6. CASE InsertItems
  BY <1>6, <1>t, HoldersKept DEF InsertItems
<1>7. ASSUME NEW w \in Workers, RemoveItems(w, "P(items)", "P(mutex)") PROVE OneHolder'
  BY <1>7, <1>t, HoldersKept DEF RemoveItems
<1>8. ASSUME NEW w \in Workers, Lock(w, "P(mutex)", "take") PROVE OneHolder'
  BY <1>8, <1>t, HoldersKept DEF Lock
<1>9. ASSUME NEW w \in Workers, Take(w) PROVE OneHolder'
  <2> DEFINE c == Cell(front + 1)
  <2>1. /\ front + 1 \in Window /\ Window' = Window \ {front + 1}
        /\ \A k \in Window : Cell(k)' = Cell(k)
        /\ fd' = [fd EXCEPT ![w] = c] /\ c # NoFd
    BY <1>9, TakeCells
  <2>2. fd[w] = NoFd /\ open' = open
    BY <1>9 DEF Take, Goto, IInv, PlacesInv
  <2>3. \A k \in Window : Cell(k) = c => k = front + 1
    BY <1>t, <2>1 DEF OneHolder
  <2>4. Queued' = Queued \ {c} /\ c \in Queued
    <3> HIDE DEF c
    <3>1. Queued' = {Cell(k) : k \in Window \ {front + 1}}
      BY <2>1 DEF Queued
    <3>2. c \in Queued
      BY <2>1 DEF Queued, c
    <3> QED
      BY <2>1, <2>3, <3>1, <3>2 DEF Queued, c
  <2>5. Held' = Held \cup {c} /\ c \notin Held
    BY <1>t, <2>1, <2>2, <2>4 DEF Held, OneHolder
  <2>6. \A t, u \in Threads : fd'[t] = fd'[u] /\ fd'[t] # NoFd => t = u
    BY <1>t, <2>1, <2>5 DEF OneHolder, Held
  <2>7. \A j, k \in Window' : Cell(j)' = Cell(k)' => j = k
    BY <1>t, <2>1 DEF OneHolder
  <2> QED
    BY <1>t, <2>2, <2>4, <2>5, <2>6, <2>7 DEF OneHolder
<1>10. ASSUME NEW w \in Workers, Unlock(w, "V(mutex)", "V(slots)") PROVE OneHolder'
  BY <1>10, <1>t, HoldersKept DEF Unlock
<1>11. ASSUME NEW w \in Workers, RemoveSlots(w) PROVE OneHolder'
  BY <1>11, <1>t, HoldersKept DEF RemoveSlots
<1>12. ASSUME NEW w \in Workers, Serve(w) PROVE OneHolder'
  BY <1>12, <1>t, HoldersKept DEF Serve
<1>13. ASSUME NEW w \in Workers, Close(w) PROVE OneHolder'
  <2>1. fd' = [fd EXCEPT ![w] = NoFd] /\ open' = open \ {fd[w]} /\ fd[w] # NoFd
    BY <1>13 DEF Close, Goto, IInv, PlacesInv
  <2>2. Held' = Held \ {fd[w]} /\ fd[w] \in Held
    BY <1>t, <2>1 DEF Held, OneHolder
  <2>3. Queued' = Queued /\ Window' = Window /\ \A k \in Window : Cell(k)' = Cell(k)
    BY <1>13 DEF Close, Queued, Window, Cell
  <2>4. \A t, u \in Threads : fd'[t] = fd'[u] /\ fd'[t] # NoFd => t = u
    BY <1>t, <2>1 DEF OneHolder
  <2> QED
    BY <1>t, <2>1, <2>2, <2>3, <2>4 DEF OneHolder
<1>14. CASE UNCHANGED memory
  BY <1>14, <1>t, HoldersKept DEF memory
<1> QED
  BY <1>1, <1>2, <1>3, <1>4, <1>5, <1>6, <1>7, <1>8, <1>9, <1>10, <1>11, <1>12, <1>13, <1>14
     DEF Next, MainStep, Removes, unix_error, vars

(* In every behaviour the invariant holds. *)
THEOREM Invariance == Spec => []IInv
<1>1. IInv /\ [Next]_vars => IInv'
  <2> SUFFICES ASSUME IInv, [Next]_vars PROVE IInv'
    OBVIOUS
  <2> QED
    BY TypeStep, PlacesStep, LockStep, TokensStep, HolderStep DEF IInv
<1> QED
  BY InitInv, <1>1, PTL DEF Spec

(* No two threads are ever inside sbuf's critical sections together. *)
THEOREM Exclusion == Spec => []MutualExclusion
<1>1. IInv => MutualExclusion
  BY DEF IInv, LockInv
<1> QED
  BY Invariance, <1>1, PTL

(* No insertion overwrites a waiting connection, no removal reads an empty *)
(* cell.                                                                   *)
THEOREM IndicesInBounds == Spec => []BufferInBounds
<1>1. IInv => BufferInBounds
  BY IndicesApart
<1> QED
  BY Invariance, <1>1, PTL

(* No connection is lost, served twice or closed twice. *)
THEOREM NoConnectionLost == Spec => []OneHolder
<1>1. IInv => OneHolder
  BY DEF IInv
<1> QED
  BY Invariance, <1>1, PTL

-----------------------------------------------------------------------------
\* The cells in the window, oldest first, are a sequence.
LEMMA WaitingIsSeq ==
  ASSUME IInv
  PROVE  /\ Waiting \in Seq(Fds) /\ Len(Waiting) = rear - front
         /\ \A k \in 1 .. rear - front : Waiting[k] = Cell(front + k)
<1>1. rear - front \in Nat /\ front \in Nat /\ rear \in Nat
  BY IndicesApart DEF IInv, TypeOK, BufferInBounds
<1>2. \A k \in 1 .. rear - front : Cell(front + k) \in Fds
  <2> SUFFICES ASSUME NEW k \in 1 .. rear - front PROVE Cell(front + k) \in Fds
    OBVIOUS
  <2>1. front + k \in Window
    BY <1>1 DEF Window
  <2>2. (front + k) % n \in 0 .. n - 1
    <3>1. front + k \in Int
      BY <1>1
    <3> QED
      BY <3>1, CellInBuffer
  <2>3. Cell(front + k) \in open /\ open \subseteq Fds
    BY <2>1 DEF IInv, TypeOK, OneHolder, Queued
  <2> QED
    BY <2>3
<1> QED
  BY <1>1, <1>2 DEF Waiting

\* What the abstract queue sees of a step that leaves the buffer and the
\* workers' hands alone.
LEMMA Stutters ==
  ASSUME UNCHANGED <<buf, front, rear>>, \A w \in Workers : fd'[w] = fd[w]
  PROVE  UNCHANGED <<Waiting, [w \in Workers |-> fd[w]]>>
<1>1. Waiting' = Waiting
  BY DEF Waiting, Cell
<1> QED
  BY <1>1

\* An insertion appends.
LEMMA PutEnqueues ==
  ASSUME IInv, IInv', Put
  PROVE  Queue!Enqueue
<1>1. /\ front \in Nat /\ rear \in Nat /\ front' = front /\ rear' = rear + 1
      /\ 0 <= rear - front /\ rear - front < n
  BY IndicesApart DEF IInv, TypeOK, BufferInBounds, Put, Goto
<1>2. fd[Main] \in Fds /\ \A w \in Workers : fd'[w] = fd[w]
  BY DEF Put, Goto, IInv, TypeOK, PlacesInv, Threads
<1>3. /\ Waiting \in Seq(Fds) /\ Len(Waiting) = rear - front
      /\ \A k \in 1 .. rear - front : Waiting[k] = Cell(front + k)
  BY WaitingIsSeq
<1>4. /\ \A k \in Window : Cell(k)' = Cell(k)
      /\ \A k \in {rear + 1} : Cell(k)' = fd[Main]
  BY PutCells
<1>5. Waiting' = [k \in 1 .. (rear - front) + 1 |-> buf'[(front + k) % n]]
  BY <1>1 DEF Waiting, Cell
<1>6. \A k \in 1 .. (rear - front) + 1 :
        buf'[(front + k) % n] = IF k <= rear - front THEN Waiting[k] ELSE fd[Main]
  <2> SUFFICES ASSUME NEW k \in 1 .. (rear - front) + 1
               PROVE  buf'[(front + k) % n]
                        = IF k <= rear - front THEN Waiting[k] ELSE fd[Main]
    OBVIOUS
  <2>1. CASE k <= rear - front
    <3>1. front + k \in Window /\ k \in 1 .. rear - front
      BY <1>1, <2>1 DEF Window
    <3> QED
      BY <1>3, <1>4, <2>1, <3>1 DEF Cell
  <2>2. CASE ~ (k <= rear - front)
    <3>1. front + k = rear + 1
      BY <1>1, <2>2
    <3> QED
      BY <1>4, <2>2, <3>1 DEF Cell
  <2> QED
    BY <2>1, <2>2
<1>7. Waiting' = Append(Waiting, fd[Main])
  <2>1. (rear - front) + 1 \in Nat
    BY <1>1
  <2>2. \A k \in 1 .. (rear - front) + 1 : buf'[(front + k) % n] \in Fds
    <3> SUFFICES ASSUME NEW k \in 1 .. (rear - front) + 1
                 PROVE  buf'[(front + k) % n] \in Fds
      OBVIOUS
    <3>1. CASE k <= rear - front
      <4>1. k \in 1 .. Len(Waiting)
        BY <1>1, <1>3, <3>1
      <4>2. Waiting[k] \in Fds
        BY <1>3, <4>1, ElementOfSeq
      <4> QED
        BY <1>6, <3>1, <4>2
    <3>2. CASE ~ (k <= rear - front)
      BY <1>2, <1>6, <3>2
    <3> QED
      BY <3>1, <3>2
  <2>3. Waiting' \in Seq(Fds) /\ Len(Waiting') = Len(Waiting) + 1
    BY <1>3, <1>5, <2>1, <2>2
  <2>4. /\ Append(Waiting, fd[Main]) \in Seq(Fds)
        /\ Len(Append(Waiting, fd[Main])) = Len(Waiting) + 1
        /\ \A k \in 1 .. Len(Waiting) : Append(Waiting, fd[Main])[k] = Waiting[k]
        /\ Append(Waiting, fd[Main])[Len(Waiting) + 1] = fd[Main]
    BY <1>2, <1>3, AppendProperties
  <2>5. \A k \in 1 .. Len(Waiting') : Waiting'[k] = Append(Waiting, fd[Main])[k]
    <3> SUFFICES ASSUME NEW k \in 1 .. Len(Waiting')
                 PROVE  Waiting'[k] = Append(Waiting, fd[Main])[k]
      OBVIOUS
    <3>1. Waiting'[k] = IF k <= rear - front THEN Waiting[k] ELSE fd[Main]
      BY <1>3, <1>5, <1>6, <2>3
    <3> QED
      BY <1>1, <1>3, <2>3, <2>4, <3>1
  <2> QED
    BY <2>3, <2>4, <2>5, SeqEqual
<1> QED
  BY <1>1, <1>2, <1>3, <1>7 DEF Queue!Enqueue

\* A removal takes the head.
LEMMA TakeDequeues ==
  ASSUME IInv, NEW w \in Workers, Take(w)
  PROVE  Queue!Dequeue(w)
<1>1. /\ front \in Nat /\ rear \in Nat /\ front' = front + 1 /\ rear' = rear
      /\ buf' = buf /\ front < rear
  BY IndicesApart DEF IInv, TypeOK, BufferInBounds, Take, Goto
<1>2. /\ Waiting \in Seq(Fds) /\ Len(Waiting) = rear - front
      /\ \A k \in 1 .. rear - front : Waiting[k] = Cell(front + k)
  BY WaitingIsSeq
<1>3. /\ fd' = [fd EXCEPT ![w] = Cell(front + 1)]
      /\ fd \in [Threads -> Fds \cup {NoFd}] /\ fd[w] = NoFd /\ Workers \subseteq Threads
  BY DEF Take, Goto, Cell, IInv, TypeOK, PlacesInv, Threads
<1>4. Waiting # << >> /\ Head(Waiting) = Cell(front + 1)
  BY <1>1, <1>2
<1>5. Waiting' = [k \in 1 .. (rear - front) - 1 |-> Cell(front + (k + 1))]
  <2>1. \A k \in Int : (front + 1) + k = front + (k + 1)
    BY <1>1
  <2>2. rear - (front + 1) = (rear - front) - 1
    BY <1>1
  <2> QED
    BY <1>1, <2>1, <2>2 DEF Waiting, Cell
<1>6. \A k \in 1 .. (rear - front) - 1 : Cell(front + (k + 1)) = Waiting[k + 1]
  BY <1>1, <1>2
<1>7. Waiting' = Tail(Waiting)
  <2>1. (rear - front) - 1 \in Nat
    BY <1>1
  <2>2. \A k \in 1 .. (rear - front) - 1 : Cell(front + (k + 1)) \in Fds
    <3> SUFFICES ASSUME NEW k \in 1 .. (rear - front) - 1
                 PROVE  Cell(front + (k + 1)) \in Fds
      OBVIOUS
    <3>1. k + 1 \in 1 .. Len(Waiting)
      BY <1>1, <1>2
    <3>2. Waiting[k + 1] \in Fds
      BY <1>2, <3>1, ElementOfSeq
    <3> QED
      BY <1>6, <3>2
  <2>3. Waiting' \in Seq(Fds) /\ Len(Waiting') = Len(Waiting) - 1
    BY <1>2, <1>5, <2>1, <2>2
  <2>4. /\ Tail(Waiting) \in Seq(Fds) /\ Len(Tail(Waiting)) = Len(Waiting) - 1
        /\ \A k \in 1 .. Len(Tail(Waiting)) : Tail(Waiting)[k] = Waiting[k + 1]
    BY <1>2, <1>4, HeadTailProperties
  <2>5. \A k \in 1 .. Len(Waiting') : Waiting'[k] = Tail(Waiting)[k]
    BY <1>2, <1>5, <1>6, <2>3, <2>4
  <2> QED
    BY <2>3, <2>4, <2>5, SeqEqual
<1>8. [v \in Workers |-> fd[v]]' = [[v \in Workers |-> fd[v]] EXCEPT ![w] = Head(Waiting)]
  BY <1>3, <1>4
<1> QED
  BY <1>3, <1>4, <1>7, <1>8 DEF Queue!Dequeue

(* The buffer, its indices and its three semaphores, whatever the threads' *)
(* interleaving, are one FIFO queue of at most n connections.              *)
THEOREM Refinement == Spec => ImplementsQueue
<1>1. Init => Queue!Init
  <2> SUFFICES ASSUME Init PROVE Queue!Init
    OBVIOUS
  <2>1. Waiting = << >>
    BY DEF Init, sbuf_init, Waiting
  <2>2. [w \in Workers |-> fd[w]] = [w \in Workers |-> NoFd]
    BY DEF Init, Threads
  <2> QED
    BY <2>1, <2>2 DEF Queue!Init
<1>2. IInv /\ IInv' /\ [Next]_vars
        => [Queue!Next]_<<Waiting, [w \in Workers |-> fd[w]]>>
  <2> SUFFICES ASSUME IInv, IInv', [Next]_vars
               PROVE  [Queue!Next]_<<Waiting, [w \in Workers |-> fd[w]]>>
    OBVIOUS
  <2>t. fd \in [Threads -> Fds \cup {NoFd}] /\ Workers \subseteq Threads /\ Main \notin Workers
    BY DEF IInv, TypeOK, Threads
  <2>1. CASE Accept
    BY <2>1, <2>t, Stutters DEF Accept
  <2>2. CASE InsertSlots
    BY <2>2, Stutters DEF InsertSlots
  <2>3. CASE Lock(Main, "P(mutex)", "put")
    BY <2>3, Stutters DEF Lock
  <2>4. CASE Put
    BY <2>4, PutEnqueues DEF Queue!Next
  <2>5. CASE Unlock(Main, "V(mutex)", "V(items)")
    BY <2>5, Stutters DEF Unlock
  <2>6. CASE InsertItems
    BY <2>6, Stutters DEF InsertItems
  <2>7. ASSUME NEW w \in Workers, Removes(w) \/ Serve(w)
        PROVE  [Queue!Next]_<<Waiting, [v \in Workers |-> fd[v]]>>
    <3>1. CASE Take(w)
      BY <3>1, TakeDequeues DEF Queue!Next
    <3>2. CASE Close(w)
      <4>1. [v \in Workers |-> fd[v]]' = [[v \in Workers |-> fd[v]] EXCEPT ![w] = NoFd]
        BY <3>2, <2>t DEF Close
      <4>2. Waiting' = Waiting
        BY <3>2 DEF Close, Waiting, Cell
      <4> QED
        BY <4>1, <4>2 DEF Queue!Next, Queue!Done
    <3>3. CASE UNCHANGED <<buf, front, rear, fd>>
      BY <3>3, Stutters
    <3> QED
      BY <2>7, <3>1, <3>2, <3>3 DEF Removes, RemoveItems, Lock, Unlock, RemoveSlots, Serve
  <2>8. CASE UNCHANGED memory
    BY <2>8, Stutters DEF memory
  <2> QED
    BY <2>1, <2>2, <2>3, <2>4, <2>5, <2>6, <2>7, <2>8
       DEF Next, MainStep, unix_error, vars
<1> QED
  BY <1>1, <1>2, Invariance, PTL DEF Spec, ImplementsQueue, Queue!Spec
=============================================================================
