-------------------------- MODULE ConnectionQueue --------------------------
(***************************************************************************)
(* What sbuf promises the proxy: connections wait in a queue of bounded    *)
(* length, and each goes to one worker, in the order they were accepted.   *)
(***************************************************************************)
EXTENDS Naturals, Sequences

CONSTANTS n, Workers, Fds, NoFd

VARIABLES waiting,      \* the connections in the queue, oldest first
          held          \* worker -> the connection it has, or NoFd

Init == waiting = << >> /\ held = [w \in Workers |-> NoFd]

Enqueue ==
  /\ Len(waiting) < n
  /\ \E fd \in Fds : waiting' = Append(waiting, fd)
  /\ UNCHANGED held

Dequeue(w) ==
  /\ waiting # << >>
  /\ held[w] = NoFd
  /\ held' = [held EXCEPT ![w] = Head(waiting)]
  /\ waiting' = Tail(waiting)

Done(w) == held' = [held EXCEPT ![w] = NoFd] /\ UNCHANGED waiting

Next == Enqueue \/ \E w \in Workers : Dequeue(w) \/ Done(w)

Spec == Init /\ [][Next]_<<waiting, held>>
=============================================================================
