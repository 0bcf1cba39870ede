--------------------------- MODULE SequenceQueue ---------------------------
(***************************************************************************)
(* What queue.c promises: one queue of strings, open at both ends.  An     *)
(* operation changes it as its name says, or fails and changes nothing.    *)
(* Once an operation was broken off nothing is promised (known is FALSE).  *)
(***************************************************************************)
EXTENDS Integers, Sequences

VARIABLES queue,        \* <<>> or <<the queue>>
          known,
          command,      \* the operation asked for: its name op, its string s,
                        \* and its answer, got of a removal or cnt of a size
          count         \* insertions said to have succeeded, less removals

Init == queue = <<>> /\ known = TRUE /\ command.op = "none" /\ count = 0

\* The next operation; the caller keeps its count.
Ask == command'.op # command.op /\ UNCHANGED <<queue, known>>

Asked(op) == known /\ command.op = op /\ UNCHANGED known
Change(op, new) == Asked(op) /\ queue # <<>> /\ queue' = <<new>>

New == Asked("new") /\ queue = <<>> /\ queue' = << <<>> >> /\ UNCHANGED <<command, count>>
Free == \E op \in {"free", "renew", "quit"} : Asked(op) /\ queue' = <<>> /\ UNCHANGED <<command, count>>
InsertHead ==
  Change("insert_head", <<command.s>> \o queue[1]) /\ count' = count + 1 /\ UNCHANGED command
InsertTail ==
  Change("insert_tail", Append(queue[1], command.s)) /\ count' = count + 1 /\ UNCHANGED command
RemoveHead ==
  /\ queue # <<>> /\ queue[1] # <<>>
  /\ Change("remove_head", Tail(queue[1]))
  /\ command' = [command EXCEPT !.got = Head(queue[1])]
  /\ UNCHANGED count
Reverse ==
  /\ Change("reverse", [i \in DOMAIN queue[1] |-> queue[1][Len(queue[1]) + 1 - i]])
  /\ UNCHANGED <<command, count>>
Size ==
  /\ Asked("size")
  /\ command' = [command EXCEPT !.cnt = IF queue = <<>> THEN 0 ELSE Len(queue[1])]
  /\ UNCHANGED <<queue, count>>
BreakOff == known' = FALSE

Next == \/ Ask \/ New \/ Free \/ InsertHead \/ InsertTail
        \/ RemoveHead \/ Reverse \/ Size \/ BreakOff

Spec == Init /\ [][Next]_<<queue, known, command, count>>
=============================================================================
