---------------------------- MODULE LabPrograms ----------------------------
(***************************************************************************)
(* The console of the C programming lab, the RIO package of csapp.c, the   *)
(* simulator of the cache lab and the tiny server, side by side.           *)
(***************************************************************************)
EXTENDS Programs

CONSTANTS
  Scripts, Main, ReadSize, DefaultLimit,                                   \* console
  Messages, LineEnd, SocketSize, BufSize, MaxLen, Block,                   \* rio
  AddressBits, SetBits, LineCount, BlockBits, TraceAddresses, MaxTrace,    \* csim
  MaxHeaders, MaxAddresses                                                 \* tiny

VARIABLES
  files, console, interpreted, failures, torn, status,
  message, nleft, writer, socket, rio_cnt, rio_buf, call, usrbuf, result, reader,
  simulated, address, pending, length,
  pc, fds, mapped, child, request, unread, response

consoleVars == <<files, console, interpreted, failures, torn, status>>
rioVars == <<message, nleft, writer, socket, rio_cnt, rio_buf, call, usrbuf, result, reader>>
csimVars == <<simulated, address, pending, length>>
tinyVars == <<pc, fds, mapped, child, request, unread, response>>
labProgramsVars == <<prog, consoleVars, rioVars, csimVars, tinyVars>>

Console == INSTANCE Console WITH c <- console, RIO_BUFSIZE <- ReadSize
Rio == INSTANCE Rio WITH Newline <- LineEnd, RIO_BUFSIZE <- BufSize
Csim == INSTANCE CacheSim WITH
  cache <- simulated, w <- AddressBits, s <- SetBits, E <- LineCount, b <- BlockBits,
  Addresses <- TraceAddresses
Tiny == INSTANCE Tiny

LabProgramsInit ==
  /\ ProgInit
  /\ IF prog = "console" THEN Console!Init
     ELSE /\ files = Absent /\ console = Absent /\ interpreted = Absent
          /\ failures = Absent /\ torn = Absent /\ status = Absent
  /\ IF prog = "rio" THEN Rio!Init
     ELSE /\ message = <<>> /\ nleft = 0 /\ writer = "closed" /\ socket = <<>>
          /\ rio_cnt = 0 /\ rio_buf = <<>> /\ call = "none" /\ usrbuf = <<>>
          /\ result = <<>> /\ reader = "eof"
  /\ Csim!Init
  /\ IF prog = "tiny" THEN Tiny!Init
     ELSE /\ pc = Absent /\ fds = Absent /\ mapped = Absent /\ child = Absent
          /\ request = Absent /\ unread = Absent /\ response = Absent

LabProgramsNext ==
  /\ UNCHANGED prog
  /\ IF prog = "console" THEN Console!Next ELSE UNCHANGED consoleVars
  /\ IF prog = "rio" THEN Rio!Next ELSE UNCHANGED rioVars
  /\ IF prog = "csim" THEN Csim!Next ELSE UNCHANGED csimVars
  /\ IF prog = "tiny" THEN Tiny!Next ELSE UNCHANGED tinyVars

LabProgramsSpec == LabProgramsInit /\ [][LabProgramsNext]_labProgramsVars
-----------------------------------------------------------------------------
(* console.c: no line is lost, repeated or moved, however reads cut files,  *)
(* as long as none fails.                                                  *)
ScriptInOrder == prog = "console" => Console!ScriptInOrder

(* console.c, main of qtest.c: exit status 0 means that no command failed. *)
StatusHonest == prog = "console" => Console!StatusHonest

(* csapp.c: short counts and signals lose, repeat and reorder no byte. *)
ImplementsStream == Rio!ImplementsStream

(* csim.c: the simulator counts what a cache with LRU replacement would. *)
ImplementsLru == Csim!ImplementsLru

(* tiny.c: nothing of one request is left when the next one is accepted. *)
NothingKept == prog = "tiny" => Tiny!NothingKept
=============================================================================
