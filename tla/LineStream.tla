----------------------------- MODULE LineStream -----------------------------
(***************************************************************************)
(* What the RIO functions promise a reader: the bytes of the writer, once  *)
(* and in order, a line or a block at a time, as it asks.  Only at the end *)
(* of the stream is one shorter than asked for.                            *)
(***************************************************************************)
EXTENDS Integers, Sequences

CONSTANTS Newline, MaxLine, Block     \* the longest line, and the block asked for

VARIABLES rest,         \* what was not read yet
          last,         \* what the last call returned
          call,         \* what the reader waits for, or "none"
          failed,       \* a call ended the reader's process
          cut           \* the writer's process ended before its last byte

Init == last = <<>> /\ call = "none" /\ failed = FALSE /\ cut = FALSE

Ask == call = "none" /\ call' \in {"readlineb", "readnb"} /\ UNCHANGED <<rest, last, failed, cut>>

Take(n) ==
  /\ last' = SubSeq(rest, 1, n) /\ rest' = SubSeq(rest, n + 1, Len(rest))
  /\ call' = "none" /\ UNCHANGED <<failed, cut>>

ReadLine ==
  /\ call = "readlineb"
  /\ \E n \in 0..MaxLine :
       /\ n <= Len(rest)
       /\ \A i \in 1..n-1 : rest[i] # Newline
       /\ n = MaxLine \/ n = Len(rest) \/ (n > 0 /\ rest[n] = Newline)
       /\ Take(n)

ReadBlock == call = "readnb" /\ Take(IF Block < Len(rest) THEN Block ELSE Len(rest))

Fail == failed' = TRUE /\ call' = "none" /\ UNCHANGED <<rest, last, cut>>

\* Once, a writer that ends loses the last bytes.
Cut ==
  /\ ~cut /\ cut' = TRUE
  /\ \E n \in 0..Len(rest) : rest' = SubSeq(rest, 1, n)
  /\ UNCHANGED <<last, call, failed>>

Next == Ask \/ ReadLine \/ ReadBlock \/ Fail \/ Cut

Spec == Init /\ [][Next]_<<rest, last, call, failed, cut>>
=============================================================================
