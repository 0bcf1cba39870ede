----------------------------- MODULE ThreadPool -----------------------------
(***************************************************************************)
(* The proxy's threads and the bounded buffer between them: main in        *)
(* proxy.c accepts connections and inserts them (sbuf_insert), the workers *)
(* remove them (sbuf_remove), serve them and close them.  Every semaphore  *)
(* operation and every access to the buffer is a step, so the threads      *)
(* interleave as the code allows.                                          *)
(***************************************************************************)
EXTENDS Integers, Sequences, FiniteSets

CONSTANTS Workers,      \* the threads running `thread'
          Main,         \* the thread running `main'
          Fds,          \* descriptors accept may return
          NoFd,         \* no connection in hand
          n,            \* cells of the buffer
          MAX_CONN      \* connections accepted in a run: `rear' is an int

ASSUME PoolAssumption ==
  /\ n \in Nat \ {0}
  /\ MAX_CONN \in Nat
  /\ Main \notin Workers
  /\ NoFd \notin Fds
  /\ IsFiniteSet(Workers)

VARIABLES buf, front, rear,             \* sbuf_t
          items, slots, mutex,          \* its semaphores
          pc,                           \* thread -> what it does next
          fd,                           \* thread -> the connection it has
          open,                         \* the client connections not closed
          status                        \* whether the process has ended

memory == <<buf, front, rear, items, slots, mutex, pc, fd, open>>
vars == <<memory, status>>

Threads == {Main} \cup Workers

(* Mutant: one slot too many. *)
sbuf_init_ExtraSlot ==
  /\ buf = [k \in 0 .. n - 1 |-> NoFd]
  /\ front = 0 /\ rear = 0
  /\ items = 0 /\ slots = n + 1 /\ mutex = 1

sbuf_init ==
  /\ buf = [k \in 0 .. n - 1 |-> NoFd]
  /\ front = 0 /\ rear = 0
  /\ items = 0 /\ slots = n /\ mutex = 1

Init ==
  /\ sbuf_init
  /\ pc = [t \in Threads |-> IF t = Main THEN "accept" ELSE "P(items)"]
  /\ fd = [t \in Threads |-> NoFd]
  /\ open = {}
  /\ status = "running"

Goto(t, from, to) ==
  /\ status = "running"
  /\ pc[t] = from
  /\ pc' = [pc EXCEPT ![t] = to]
  /\ UNCHANGED status

(* A wrapper of csapp.c that fails prints a message and ends the process,  *)
(* all threads with it: Accept and Getnameinfo in main, Open_clientfd,     *)
(* Rio_readlineb and the others that serve_client calls, Close.  So does   *)
(* SIGPIPE, which the proxy leaves at its default.                         *)
unix_error(t) ==
  /\ status = "running"
  /\ pc[t] \in {"accept", "serve", "close"}
  /\ status' = "exited"
  /\ UNCHANGED memory

(* The semaphore operations. *)
P(sem) == sem > 0 /\ sem' = sem - 1
V(sem) == sem' = sem + 1

-----------------------------------------------------------------------------
(* main *)
Accept ==
  /\ Goto(Main, "accept", "P(slots)")
  /\ rear < MAX_CONN
  /\ \E c \in Fds \ open : fd' = [fd EXCEPT ![Main] = c] /\ open' = open \cup {c}
  /\ UNCHANGED <<buf, front, rear, items, slots, mutex>>

InsertSlots ==
  /\ Goto(Main, "P(slots)", "P(mutex)")
  /\ P(slots)
  /\ UNCHANGED <<buf, front, rear, items, mutex, fd, open>>

Lock(t, from, to) ==
  /\ Goto(t, from, to)
  /\ P(mutex)
  /\ UNCHANGED <<buf, front, rear, items, slots, fd, open>>

Unlock(t, from, to) ==
  /\ Goto(t, from, to)
  /\ V(mutex)
  /\ UNCHANGED <<buf, front, rear, items, slots, fd, open>>

Put ==
  /\ Goto(Main, "put", "V(mutex)")
  /\ rear' = rear + 1
  /\ buf' = [buf EXCEPT ![(rear + 1) % n] = fd[Main]]
  /\ fd' = [fd EXCEPT ![Main] = NoFd]
  /\ UNCHANGED <<front, items, slots, mutex, open>>

InsertItems ==
  /\ Goto(Main, "V(items)", "accept")
  /\ V(items)
  /\ UNCHANGED <<buf, front, rear, slots, mutex, fd, open>>

MainStep ==
  \/ Accept
  \/ InsertSlots
  \/ Lock(Main, "P(mutex)", "put")
  \/ Put
  \/ Unlock(Main, "V(mutex)", "V(items)")
  \/ InsertItems

-----------------------------------------------------------------------------
(* A worker *)
RemoveItems(w, from, to) ==
  /\ Goto(w, from, to)
  /\ P(items)
  /\ UNCHANGED <<buf, front, rear, slots, mutex, fd, open>>

(* Mutant: the index is read before it is advanced. *)
Take_PostIncrement(w) ==
  /\ Goto(w, "take", "V(mutex)")
  /\ front' = front + 1
  /\ fd' = [fd EXCEPT ![w] = buf[front % n]]
  /\ UNCHANGED <<buf, rear, items, slots, mutex, open>>

Take(w) ==
  /\ Goto(w, "take", "V(mutex)")
  /\ front' = front + 1
  /\ fd' = [fd EXCEPT ![w] = buf[(front + 1) % n]]
  /\ UNCHANGED <<buf, rear, items, slots, mutex, open>>

RemoveSlots(w) ==
  /\ Goto(w, "V(slots)", "serve")
  /\ V(slots)
  /\ UNCHANGED <<buf, front, rear, items, mutex, fd, open>>

(* serve_client returns, after however long the client and server take. *)
Serve(w) ==
  /\ Goto(w, "serve", "close")
  /\ UNCHANGED <<buf, front, rear, items, slots, mutex, fd, open>>

Close(w) ==
  /\ Goto(w, "close", "P(items)")
  /\ open' = open \ {fd[w]}
  /\ fd' = [fd EXCEPT ![w] = NoFd]
  /\ UNCHANGED <<buf, front, rear, items, slots, mutex>>

(* Mutants: P(mutex) before P(items); no P(mutex). *)
Removes_MutexFirst(w) ==
  \/ Lock(w, "P(items)", "P(mutex)")
  \/ RemoveItems(w, "P(mutex)", "take")
  \/ Take(w)
  \/ Unlock(w, "V(mutex)", "V(slots)")
  \/ RemoveSlots(w)
  \/ Close(w)

Removes_NoLock(w) ==
  \/ RemoveItems(w, "P(items)", "take")
  \/ Take(w)
  \/ Unlock(w, "V(mutex)", "V(slots)")
  \/ RemoveSlots(w)
  \/ Close(w)

(* What a worker does on its own account, serve_client apart. *)
Removes(w) ==
  \/ RemoveItems(w, "P(items)", "P(mutex)")
  \/ Lock(w, "P(mutex)", "take")
  \/ Take(w)
  \/ Unlock(w, "V(mutex)", "V(slots)")
  \/ RemoveSlots(w)
  \/ Close(w)

Next ==
  \/ MainStep
  \/ \E w \in Workers : Removes(w) \/ Serve(w)
  \/ \E t \in Threads : unix_error(t)

Spec == Init /\ [][Next]_vars

(* The scheduler runs every thread that can run.  Nothing is assumed of    *)
(* accept, which waits for clients, or of serve_client, which waits for    *)
(* the client and the server, nor that the process lives on.               *)
Fairness ==
  /\ WF_vars(MainStep /\ ~Accept)
  /\ \A w \in Workers : WF_vars(Removes(w))

FairSpec == Spec /\ Fairness

-----------------------------------------------------------------------------
(* The connections that wait are in the cells front + 1 to rear, mod n. *)
Window == front + 1 .. rear
Cell(k) == buf[k % n]
Waiting == [k \in 1 .. rear - front |-> Cell(front + k)]
Queued == {Cell(k) : k \in Window}
Held == {fd[t] : t \in Threads} \ {NoFd}

Inside == {"put", "take", "V(mutex)"}      \* between P(mutex) and V(mutex)

MainPlaces == {"accept", "P(slots)", "P(mutex)", "put", "V(mutex)", "V(items)"}
WorkerPlaces == {"P(items)", "P(mutex)", "take", "V(mutex)", "V(slots)", "serve", "close"}

TypeOK ==
  /\ buf \in [0 .. n - 1 -> Fds \cup {NoFd}]
  /\ front \in Nat /\ rear \in 0 .. MAX_CONN
  /\ items \in Nat /\ slots \in Nat /\ mutex \in {0, 1}
  /\ pc \in [Threads -> MainPlaces \cup WorkerPlaces]
  /\ fd \in [Threads -> Fds \cup {NoFd}]
  /\ open \subseteq Fds
  /\ status \in {"running", "exited"}

(* Two threads are never between P(mutex) and V(mutex) of sbuf, so the     *)
(* two-step updates of front, rear and buf do not mix.                     *)
MutualExclusion ==
  \A t, u \in Threads : pc[t] \in Inside /\ pc[u] \in Inside => t = u

(* The semaphores keep the indices apart: an insertion never overwrites a  *)
(* connection that waits and a removal never reads a cell it was not given. *)
BufferInBounds ==
  /\ 0 <= rear - front /\ rear - front <= n
  /\ pc[Main] = "put" => rear - front < n
  /\ \A w \in Workers : pc[w] = "take" => front < rear

(* Every open client connection is in exactly one place: with main, in one *)
(* cell of the queue, or with one worker, which alone will close it.  None *)
(* is lost and none is served or closed twice.                             *)
OneHolder ==
  /\ open = Queued \cup Held
  /\ Queued \cap Held = {}
  /\ \A t, u \in Threads : fd[t] = fd[u] /\ fd[t] # NoFd => t = u
  /\ \A j, k \in Window : Cell(j) = Cell(k) => j = k

(* The threads that hold an item or a slot the semaphores do not count.    *)
Takers == {w \in Workers : pc[w] \in {"P(mutex)", "take"}}
Givers == {w \in Workers : pc[w] \in {"V(mutex)", "V(slots)"}}
MainHasSlot == IF pc[Main] \in {"P(mutex)", "put"} THEN 1 ELSE 0
MainHasItem == IF pc[Main] \in {"V(mutex)", "V(items)"} THEN 1 ELSE 0

(* Why the indices stay apart: every waiting connection is counted by      *)
(* items or promised to a thread, every free cell by slots likewise.       *)
TokensCounted ==
  /\ items + Cardinality(Takers) + MainHasItem = rear - front
  /\ slots + Cardinality(Givers) + MainHasSlot = n - (rear - front)

(* Where a thread is tells whether it has a connection. *)
PlacesInv ==
  /\ pc[Main] \in MainPlaces
  /\ \A w \in Workers : pc[w] \in WorkerPlaces
  /\ fd[Main] # NoFd <=> pc[Main] \in {"P(slots)", "P(mutex)", "put"}
  /\ \A w \in Workers :
       fd[w] # NoFd <=> pc[w] \in {"V(mutex)", "V(slots)", "serve", "close"}
  /\ pc[Main] \in {"P(slots)", "P(mutex)", "put"} => rear < MAX_CONN

LockInv ==
  /\ MutualExclusion
  /\ \A t \in Threads : pc[t] \in Inside => mutex = 0

(* The inductive invariant. *)
IInv == TypeOK /\ PlacesInv /\ LockInv /\ TokensCounted /\ OneHolder

Queue == INSTANCE ConnectionQueue WITH
  waiting <- Waiting, held <- [w \in Workers |-> fd[w]]

(* The buffer behaves as one FIFO queue of at most n connections. *)
ImplementsQueue == Queue!Spec

(* A connection that waits is taken by a worker, unless every worker is    *)
(* stuck in serve_client or an error, of whichever thread, has ended the   *)
(* proxy: nobody waits for a lock or a slot for ever.                      *)
ConnectionsAreTaken ==
  \A c \in Fds :
    (c \in open /\ \A w \in Workers : fd[w] # c)
      ~> \/ \E w \in Workers : fd[w] = c
         \/ \A w \in Workers : pc[w] = "serve"
         \/ status = "exited"
=============================================================================
