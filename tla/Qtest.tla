------------------------------- MODULE Qtest -------------------------------
(***************************************************************************)
(* qtest.c: the commands that run the functions of queue.c under           *)
(* exception_setup, and what they conclude.  A command begins, makes one   *)
(* or more risky calls, each of which is over or is left by an alarm, and  *)
(* ends.                                                                   *)
(***************************************************************************)
EXTENDS QueueHeap

CONSTANTS
  MaxReps, fail_limit, big_queue_size,
  MaxLength,            \* bound: insertions are begun while the queue is shorter
  MaxFails,             \* bound: commands are begun while there were fewer failures
  MaxAlarms             \* bound: alarms of a run

VARIABLES m,
          qcnt,         \* a size_t: -n stands for 2^64 - n
          fail_count,
          running,      \* the command and its locals; raised: an alarm left
                        \* it, and was reported as an ERROR
          alarms,       \* how many risky calls were left by an alarm
          returned,     \* what the last command returned
          verbose       \* verblevel is at least 3, so show_queue walks the queue

vars == <<m, qcnt, fail_count, running, alarms, returned, verbose>>

Idle == [op |-> "none", s |-> Null, reps |-> 0, ok |-> TRUE, raised |-> FALSE,
         rval |-> FALSE, got |-> Null, cnt |-> 0]

queue_init ==
  /\ m = EmptyMemory
  /\ qcnt = 0 /\ fail_count = 0
  /\ running = Idle
  /\ alarms = 0
  /\ returned = TRUE
  /\ verbose \in BOOLEAN

Init == queue_init

\* The harness's list holds no freed block.  An alarm between two assignments
\* of test_malloc or test_free can leave one there; what the program does from
\* then on is undefined and not followed.
Defined == LET listed == ToSet(Walk(m.bnext, m.allocated))
           IN  listed \cup {m.bprev[b] : b \in listed} \subseteq m.live \cup {Null}

\* A command that clears the error of an earlier one before its risky call.
Begin(op, s, reps) ==
  /\ running = Idle /\ Defined
  /\ fail_count < MaxFails
  /\ running' = [Idle EXCEPT !.op = op, !.s = s, !.reps = reps]
  /\ m' = [m EXCEPT !.error = FALSE]
  /\ UNCHANGED <<qcnt, fail_count, alarms, returned, verbose>>

Command ==
  \/ \E op \in {IF m.q = Null THEN "new" ELSE "renew", "free", "reverse"} : Begin(op, Null, 1)
  \/ \E reps \in 1..MaxReps : Begin("size", Null, reps)
  \/ \E check \in Strings \cup {Null} : Begin("remove_head", check, 1)
  \/ /\ Len(Elements(m)) < MaxLength
     /\ \E op \in {"insert_head", "insert_tail"}, s \in Strings, reps \in 1..MaxReps :
          Begin(op, s, reps)

-----------------------------------------------------------------------------
(* Between exception_setup and exception_cancel. *)
Risky == running.reps > 0

\* count > k.  A count below 0 is one that wrapped: an alarm left an insertion
\* before it was counted, and the element was removed and counted.
Above(count, k) == count < 0 \/ count > k

\* Without caution a queue that is thought to be long is freed faster.
Cautious == ~Above(qcnt, big_queue_size)

Runs ==
  CASE running.op \in {"free", "renew", "quit"} -> q_free(m, Cautious)
    [] running.op = "new" -> q_new(m)
    [] running.op = "insert_head" -> q_insert_head(m, running.s)
    [] running.op = "insert_tail" -> q_insert_tail(m, running.s)
    [] running.op = "remove_head" -> q_remove_head(m)
    [] running.op = "reverse" -> q_reverse(m)
    [] running.op = "size" -> {Ran(<<m>>, q_size(m))}

\* sigalrmhandler and trigger_exception at any point, and the second return of
\* exception_setup.  (At a negative verbosity sigsegvhandler does the same where
\* test_malloc writes through the NULL that the C library gave it.)
Alarm ==
  /\ Risky
  /\ alarms < MaxAlarms
  /\ alarms' = alarms + 1
  /\ \E r \in Runs : \E i \in DOMAIN r.trace : m' = [r.trace[i] EXCEPT !.error = TRUE]
  /\ running' = [running EXCEPT !.reps = 0, !.raised = TRUE]
  /\ UNCHANGED <<qcnt, fail_count, returned, verbose>>

\* The C library has no memory left for test_malloc: a FATAL ERROR, exit(1).
OutOfMemory ==
  /\ Risky
  /\ \/ running.op = "new"
     \/ running.op \in {"insert_head", "insert_tail"} /\ m.q # Null
  /\ running' = [Idle EXCEPT !.op = "aborted"]
  /\ returned' = FALSE
  /\ UNCHANGED <<m, qcnt, fail_count, alarms, verbose>>

\* One turn of the loop of do_insert_head or do_insert_tail.
Insert ==
  /\ Risky
  /\ running.op \in {"insert_head", "insert_tail"}
  /\ \E r \in Runs :
       LET after == Last(r.trace)
           allowed == r.ret \/ fail_count + 1 < fail_limit
           ok == allowed /\ ~after.error
       IN  /\ qcnt' = qcnt + (IF r.ret THEN 1 ELSE 0)
           /\ fail_count' = fail_count + (IF r.ret THEN 0 ELSE 1)
           /\ m' = [after EXCEPT !.error = @ /\ ~allowed]
           /\ running' = [running EXCEPT !.ok = ok, !.reps = IF ok THEN @ - 1 ELSE 0]
  /\ UNCHANGED <<alarms, returned, verbose>>

Size ==
  /\ Risky
  /\ running.op = "size"
  /\ \E r \in Runs : running' = [running EXCEPT !.cnt = r.ret, !.reps = @ - 1]
  /\ UNCHANGED <<m, qcnt, fail_count, alarms, returned, verbose>>

Call ==
  /\ Risky
  /\ running.op \notin {"insert_head", "insert_tail", "size"}
  /\ \E r \in Runs :
       /\ m' = IF running.op = "new" THEN [Last(r.trace) EXCEPT !.q = r.ret] ELSE Last(r.trace)
       /\ running' = [running EXCEPT !.reps = 0, !.rval = running.op \in {"remove_head"} /\ r.ret,
                        !.got = IF running.op = "remove_head" /\ r.ret
                                THEN m.text[m.value[m.head]] ELSE Null]
  /\ UNCHANGED <<qcnt, fail_count, alarms, returned, verbose>>

-----------------------------------------------------------------------------
(* After exception_cancel: show_queue(3), and what the command returns. *)
Ends(op) == running.op = op /\ ~Risky /\ UNCHANGED verbose

\* show_queue calls error_check for each element it shows, and says whether it
\* came to the end.  It is itself under exception_setup: after an alarm what it
\* says depends on whether its local e is still the one of the start.
show_queue(shows, memory, count) ==
  LET tries == shows /\ memory.q # Null
      walks == tries /\ memory.head # Null /\ Above(count, 0)
      whole == count < 0 \/ Len(Elements(memory)) <= count
  IN  {[m |-> IF walks THEN [memory EXCEPT !.error = FALSE] ELSE memory,
        alarms |-> alarms, ok |-> whole /\ ~(walks /\ memory.error)]} \cup
      {[m |-> [memory EXCEPT !.error = TRUE], alarms |-> alarms + 1, ok |-> ok] :
         ok \in IF tries /\ alarms < MaxAlarms THEN {whole, Elements(memory) = <<>>} ELSE {}}

\* Mutant: the error is not looked at.
ReturnChecked_NoCheck(memory, ok) ==
  /\ m' = [memory EXCEPT !.error = FALSE]
  /\ returned' = ok
  /\ running' = Idle

\* ok && !error_check()
ReturnChecked(memory, ok) ==
  /\ m' = IF ok THEN [memory EXCEPT !.error = FALSE] ELSE memory
  /\ returned' = (ok /\ ~memory.error)
  /\ running' = Idle

NoQueue(memory) == [memory EXCEPT !.q = Null, !.head = Null, !.tail = Null, !.sizeL = 0]
Balanced(memory) == memory.allocated_count = 0

do_free ==
  /\ Ends("free")
  /\ qcnt' = 0
  /\ ReturnChecked(NoQueue(m), Balanced(m))
  /\ UNCHANGED <<fail_count, alarms>>

\* do_new frees the old queue first, clears the error, and goes on.
do_new ==
  \/ /\ Ends("renew") /\ Defined
     /\ qcnt' = 0
     /\ m' = [NoQueue(m) EXCEPT !.error = FALSE]
     /\ running' = [running EXCEPT !.op = "new", !.reps = 1, !.ok = Balanced(m) /\ ~m.error]
     /\ UNCHANGED <<fail_count, alarms, returned>>
  \/ /\ Ends("new")
     /\ qcnt' = 0
     /\ \E shown \in show_queue(verbose, m, 0) :
          alarms' = shown.alarms /\ ReturnChecked(shown.m, running.ok)
     /\ UNCHANGED fail_count

\* They return ok without a look at the error.
do_insert ==
  /\ Ends("insert_head") \/ Ends("insert_tail")
  /\ \E shown \in show_queue(verbose, m, qcnt) : alarms' = shown.alarms /\ m' = shown.m
  /\ returned' = running.ok
  /\ running' = Idle
  /\ UNCHANGED <<qcnt, fail_count>>

\* With a string to compare, or without, as in do_remove_head_quiet.
do_remove_head ==
  /\ Ends("remove_head")
  /\ qcnt' = qcnt - (IF running.rval THEN 1 ELSE 0)
  /\ fail_count' = fail_count + (IF running.rval THEN 0 ELSE 1)
  /\ \E shown \in show_queue(verbose, m, qcnt') :
       /\ alarms' = shown.alarms
       /\ ReturnChecked(shown.m, IF running.rval THEN running.s \in {Null, running.got}
                                 ELSE running.s = Null /\ fail_count' < fail_limit)

do_reverse ==
  /\ Ends("reverse")
  /\ \E shown \in show_queue(verbose, m, qcnt) :
       alarms' = shown.alarms /\ ReturnChecked(shown.m, TRUE)
  /\ UNCHANGED <<qcnt, fail_count>>

do_size ==
  /\ Ends("size")
  /\ \E shown \in show_queue(verbose, m, qcnt) :
       alarms' = shown.alarms /\ ReturnChecked(shown.m, running.ok /\ qcnt = running.cnt)
  /\ UNCHANGED <<qcnt, fail_count>>

\* show_queue(0), at any verbosity and with an error of an earlier command.
do_show ==
  /\ running = Idle
  /\ \E shown \in show_queue(TRUE, m, qcnt) :
       m' = shown.m /\ alarms' = shown.alarms /\ returned' = shown.ok
  /\ UNCHANGED <<qcnt, fail_count, running, verbose>>

\* The last thing the program does.
queue_quit ==
  \/ /\ running = Idle /\ Defined
     /\ running' = [Idle EXCEPT !.op = "quit", !.reps = 1]
     /\ UNCHANGED <<m, qcnt, fail_count, alarms, returned, verbose>>
  \/ /\ Ends("quit")
     /\ returned' = Balanced(m)
     /\ running' = [Idle EXCEPT !.op = "exited"]
     /\ UNCHANGED <<m, qcnt, fail_count, alarms>>

Next ==
  \/ Command \/ Alarm \/ OutOfMemory \/ Insert \/ Size \/ Call
  \/ do_free \/ do_new \/ do_insert \/ do_remove_head \/ do_reverse \/ do_size
  \/ do_show \/ queue_quit

Spec == Init /\ [][Next]_vars

-----------------------------------------------------------------------------
(* However often an alarm left an operation between two of its             *)
(* assignments, the queue that the next command finds is a list of blocks  *)
(* not freed, with tail one of them: no later operation follows a pointer  *)
(* to freed memory or walks for ever.                                      *)
QueueIntact ==
  running.op \notin {"free", "renew", "quit", "exited"} =>
  LET es == Elements(m)
  IN  /\ Len(es) <= Cardinality(Blocks)
      /\ m.q # Null => m.q \in m.live
      /\ \A i \in DOMAIN es : es[i] \in m.live /\ m.value[es[i]] \in m.live
      /\ m.tail # Null => m.tail \in ToSet(es)

(* Without an alarm every block belongs to the queue, the harness's list   *)
(* is exactly these blocks with right back links, and no command sees an   *)
(* error; between commands the counts of queue, qtest and harness agree.   *)
NothingLost ==
  alarms = 0 =>
    LET es == Elements(m)
        listed == Walk(m.bnext, m.allocated)
    IN  /\ ~m.error
        /\ running.op \in {"none", "remove_head", "size"} =>
             m.live = ({m.q} \ {Null}) \cup ToSet(es) \cup {m.value[e] : e \in ToSet(es)}
        /\ ToSet(listed) = m.live
        /\ Len(listed) = m.allocated_count /\ m.allocated_count = Cardinality(m.live)
        /\ \A i \in DOMAIN listed : m.bprev[listed[i]] = IF i = 1 THEN Null ELSE listed[i-1]
        /\ running.op = "none" => qcnt = Len(es) /\ m.sizeL = qcnt

(* queue.c is a queue open at both ends: its pointers implement a sequence *)
(* that changes as the command says and as often as qtest was told, until  *)
(* an alarm leaves an operation unfinished.                                *)
Sequence == INSTANCE SequenceQueue WITH
  queue <- IF m.q \notin m.live \/ alarms > 0 THEN <<>> ELSE <<Contents(m)>>,
  known <- alarms = 0, count <- qcnt,
  command <- [op |-> running.op, s |-> running.s, got |-> running.got, cnt |-> running.cnt]

ImplementsSequence == Sequence!Spec

(* A command that an alarm left, which the time limit reports as an ERROR,  *)
(* returns FALSE, so that the script's exit status shows it, and so does   *)
(* one whose show_queue an alarm left.  Exempt are the insertions, which   *)
(* return ok without a look at the error, and at verbosity 3 the commands  *)
(* whose show_queue clears the error of what it shows before they look.    *)
AlarmsCount ==
  [][ /\ running' = Idle
      /\ \/ running.raised /\ running.op \in {"free", "new"} \cup
                                (IF verbose THEN {} ELSE {"remove_head", "reverse", "size"})
         \/ alarms' > alarms /\ running.op \in {"new", "remove_head", "reverse", "size"}
      => ~returned' ]_vars
=============================================================================
