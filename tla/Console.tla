------------------------------ MODULE Console ------------------------------
(***************************************************************************)
(* console.c of the C programming lab, and main of qtest.c: a stack of     *)
(* command files with a read buffer each, lines taken from the top one,    *)
(* the built-in commands, and the exit status.  A text is a sequence of    *)
(* words, blanks and newlines; each counts as one character.               *)
(***************************************************************************)
EXTENDS Integers, SequencesExt

CONSTANTS Scripts,        \* what the files may hold: functions from names
          Main,           \* the name given with -f
          RIO_BUFSIZE,    \* the longest read; a line is cut two shorter
          DefaultLimit    \* err_limit at the start

VARIABLES
  files,
  c,                      \* the globals of console.c
  interpreted,            \* the lines that were given to interpret_cmda
  failures,               \* how many of them failed
  torn,                   \* a file was not opened, or not read to its end
  status                  \* Running, then the exit status

vars == <<files, c, interpreted, failures, torn, status>>

Running == -1

Blank == " "
Newline == "\n"

-----------------------------------------------------------------------------
(* The stack of files. *)
Opened(name) == [rest |-> files[name], buf |-> <<>>]

\* Mutant: the files of the stack share one buffer.
push_file_OneBuffer(con, name) ==
  [con EXCEPT !.buf_stack = <<Opened(name)>> \o [i \in DOMAIN @ |-> [@[i] EXCEPT !.buf = <<>>]]]

push_file(con, name) == [con EXCEPT !.buf_stack = <<Opened(name)>> \o @]

pop_file(con) == [con EXCEPT !.buf_stack = IF @ = <<>> THEN <<>> ELSE Tail(@)]

LineLimit == RIO_BUFSIZE - 2

\* What is left of a file after n characters: those that were not in the
\* buffer came by reads of any length, and the last may have brought more.
After(file, n) ==
  LET text == file.buf \o file.rest
      bought == IF n <= Len(file.buf) THEN {Len(file.buf)}
                ELSE {k \in n..Len(text) : k - n < RIO_BUFSIZE}
  IN  {[buf |-> SubSeq(text, n + 1, k), rest |-> SubSeq(text, k + 1, Len(text))] : k \in bought}

\* The line (none is NULL) and what becomes of the stack.
readline(con) ==
  LET top == Head(con.buf_stack)
      text == top.buf \o top.rest
      ends == {n \in 1..Len(text) : text[n] = Newline \/ n = LineLimit}
      n == CHOOSE e \in ends : \A f \in ends : e <= f
  IN  IF ends = {}
      THEN {[line |-> IF text = <<>> THEN <<>> ELSE <<text>>, con |-> pop_file(con)]}
      ELSE {[line |-> <<SubSeq(text, 1, IF text[n] = Newline THEN n - 1 ELSE n)>>,
             con |-> [con EXCEPT !.buf_stack[1] = left]] : left \in After(top, n)}

\* read fails after n characters of a line, which readline takes for the end of
\* the file: what it has is the last line, and the rest of the file is lost.
readline_fails(con) ==
  LET top == Head(con.buf_stack)
      text == top.buf \o top.rest
      had == {n \in Len(top.buf)..Len(text)-1 : n < LineLimit /\ \A k \in 1..n : text[k] # Newline}
  IN  {[line |-> IF n = 0 THEN <<>> ELSE <<SubSeq(text, 1, n)>>, con |-> pop_file(con)] : n \in had}

read_ready(con) == con.buf_stack # <<>> /\ Newline \in ToSet(Head(con.buf_stack).buf)

-----------------------------------------------------------------------------
(* Commands. *)
parse_args(line) ==
  FlattenSeq([k \in DOMAIN line |-> IF line[k] = Blank THEN <<>> ELSE <<line[k]>>])

\* times calls, one after the other.
record_error(con, times) ==
  [con EXCEPT !.err_cnt = @ + times,
              !.quit_flag = @ \/ con.err_cnt + times >= con.err_limit]

Outcome(con, ok) == [con |-> con, ok |-> ok]

\* The only helper is queue_quit of qtest.c.
do_quit_cmd(con) ==
  {Outcome([con EXCEPT !.buf_stack = <<>>, !.quit_flag = TRUE, !.helped = Append(@, ok)], ok)
     : ok \in BOOLEAN}

do_source_cmd(con, argv) ==
  IF Len(argv) > 1 /\ argv[2] \in DOMAIN files THEN Outcome(push_file(con, argv[2]), TRUE)
  ELSE Outcome(con, FALSE)

get_int == [w \in {"1", "2"} |-> IF w = "1" THEN 1 ELSE 2]

Parameters == {"verbose", "error", "echo", "length", "malloc", "fail"}

\* Names and values in pairs, obeyed up to the first that is not in order.  Of
\* the parameters only the limit of errors is told apart.
do_option_cmd(con, argv) ==
  LET pairs == 1..(Len(argv) \div 2)
      good(k) == /\ argv[2*k] \in Parameters
                 /\ 2*k + 1 <= Len(argv) /\ argv[2*k + 1] \in DOMAIN get_int
      obeyed == {k \in pairs : \A j \in 1..k : good(j)}
      limits == {k \in obeyed : argv[2*k] = "error"}
  IN  Outcome(IF limits = {} THEN con
              ELSE [con EXCEPT !.err_limit = get_int[argv[2 * Max(limits) + 1]]],
              obeyed = pairs)

\* work stands for the commands of qtest.c, which may fail; any other word is unknown.
Operation(con, argv) ==
  CASE argv[1] = "quit" -> do_quit_cmd(con)
    [] argv[1] = "source" -> {do_source_cmd(con, argv)}
    [] argv[1] = "option" -> {do_option_cmd(con, argv)}
    [] argv[1] = "work" -> {Outcome(con, TRUE), Outcome(con, FALSE)}
    [] OTHER -> {Outcome(con, FALSE)}

\* time (do_time_cmd) interprets the words after it.
Times(argv) ==
  CHOOSE n \in 0..Len(argv) :
    (\A k \in 1..n : argv[k] = "time") /\ (n < Len(argv) => argv[n + 1] # "time")
Command(argv) == SubSeq(argv, Times(argv) + 1, Len(argv))

\* Mutant: a failed quit is not recorded.
interpret_cmda_QuitLost(con, argv) ==
  IF Command(argv) = <<>> THEN {Outcome(con, TRUE)}
  ELSE {IF r.ok \/ r.con.quit_flag THEN r
        ELSE Outcome(record_error(r.con, Times(argv) + 1), FALSE) : r \in Operation(con, Command(argv))}

\* A failure is recorded at each level, of the command and of every time before it.
interpret_cmda(con, argv) ==
  IF Command(argv) = <<>> THEN {Outcome(con, TRUE)}
  ELSE {IF r.ok THEN r ELSE Outcome(record_error(r.con, Times(argv) + 1), FALSE)
          : r \in Operation(con, Command(argv))}

-----------------------------------------------------------------------------
(* init_cmd and run_console's push_file: main returns 1 if the file cannot be opened. *)
Init ==
  /\ files \in Scripts
  /\ torn \in BOOLEAN
  /\ c = [buf_stack |-> IF torn THEN <<>> ELSE <<Opened(Main)>>, err_cnt |-> 0,
          err_limit |-> DefaultLimit, quit_flag |-> FALSE, helped |-> <<>>]
  /\ interpreted = <<>> /\ failures = 0
  /\ status = IF torn THEN 1 ELSE Running

cmd_done == c.buf_stack = <<>> \/ c.quit_flag

\* The line is interpreted, unless there is none or quit_flag is set.
interpret_cmd(r) ==
  IF r.line = <<>> \/ c.quit_flag
  THEN c' = r.con /\ UNCHANGED <<interpreted, failures>>
  ELSE /\ interpreted' = Append(interpreted, r.line[1])
       /\ \E o \in interpret_cmda(r.con, parse_args(r.line[1])) :
            c' = o.con /\ failures' = failures + (IF o.ok THEN 0 ELSE 1)

\* A turn of either loop of cmd_select.  A line that is in the buffer is taken
\* even after quit_flag is set.
cmd_select ==
  /\ status = Running
  /\ read_ready(c) \/ ~cmd_done
  /\ \/ torn' = torn /\ \E r \in readline(c) : interpret_cmd(r)
     \/ torn' = TRUE /\ \E r \in readline_fails(c) : interpret_cmd(r)
  /\ UNCHANGED <<files, status>>

\* run_console returns, and main calls finish_cmd if there was no error.
Finish ==
  /\ status = Running
  /\ ~read_ready(c) /\ cmd_done
  /\ IF c.err_cnt = 0 /\ ~c.quit_flag
     THEN \E o \in do_quit_cmd(c) : c' = o.con /\ status' = IF o.ok THEN 0 ELSE 1
     ELSE c' = c /\ status' = IF c.err_cnt = 0 THEN 0 ELSE 1
  /\ UNCHANGED <<files, interpreted, failures, torn>>

Next == cmd_select \/ Finish

Spec == Init /\ [][Next]_vars

-----------------------------------------------------------------------------
(* The lines of a text, cut at the limit. *)
Cut(text) ==
  CHOOSE k \in 1..Len(text) :
    /\ k = Len(text) \/ k = LineLimit \/ text[k] = Newline
    /\ \A j \in 1..k-1 : j # LineLimit /\ text[j] # Newline
FirstLine(text) ==
  SubSeq(text, 1, IF text[Cut(text)] = Newline THEN Cut(text) - 1 ELSE Cut(text))

\* The last k characters.
Ending(text, k) == SubSeq(text, Len(text) - k + 1, Len(text))

Lines(text) ==
  LET from[k \in 0..Len(text)] ==
        IF k = 0 THEN <<>>
        ELSE <<FirstLine(Ending(text, k))>> \o from[k - Cut(Ending(text, k))]
  IN  from[Len(text)]

\* Lines, each source command followed by what its file expands to.
Expanded(lines, expansion) ==
  FlattenSeq([k \in DOMAIN lines |->
    LET argv == Command(parse_args(lines[k]))
        sources == Len(argv) > 1 /\ argv[1] = "source" /\ argv[2] \in DOMAIN files
    IN  <<lines[k]>> \o (IF sources THEN expansion[argv[2]] ELSE <<>>)])

Expansion[name \in DOMAIN files] == Expanded(Lines(files[name]), Expansion)

(* However the reads cut the files, what was interpreted and what the      *)
(* stack still holds are the script with its source commands expanded in   *)
(* place: no line is lost, repeated or moved, and if the script was not    *)
(* stopped all of it has been interpreted.  That ends with a read that     *)
(* fails: readline takes it for the end of the file.                       *)
ScriptInOrder ==
  LET script == Expansion[Main]
      held == FlattenSeq([k \in DOMAIN c.buf_stack |->
                Expanded(Lines(c.buf_stack[k].buf \o c.buf_stack[k].rest), Expansion)])
  IN  \/ torn
      \/ IF c.quit_flag THEN IsPrefix(interpreted, script) ELSE interpreted \o held = script

(* Exit status 0 means that no command that was interpreted failed, and    *)
(* that the queue was freed without a block left, once; after a failure,   *)
(* or without a script to read, it is 1.  A quit in the middle of the      *)
(* script, or a read that failed, leaves commands that were not            *)
(* interpreted, and the status may be 0.                                   *)
StatusHonest ==
  /\ Len(c.helped) <= 1
  /\ status = 0 => failures = 0 /\ c.helped = <<TRUE>>
  /\ failures > 0 /\ status # Running => status = 1
=============================================================================
