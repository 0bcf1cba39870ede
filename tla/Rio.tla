-------------------------------- MODULE Rio --------------------------------
(***************************************************************************)
(* The RIO package of csapp.c between a writer and a reader: write accepts *)
(* and read brings any number of bytes that fits, either may be            *)
(* interrupted by a signal handler, and the wrappers of either side end    *)
(* the process on an error.  Bytes travel through a socket of the kernel.  *)
(***************************************************************************)
EXTENDS Integers, SequencesExt

CONSTANTS
  Messages, Newline,
  SocketSize,           \* bytes that the kernel holds
  RIO_BUFSIZE,          \* size of rio_buf
  MaxLen,               \* the maxlen of rio_readlineb
  Block                 \* the n of rio_readnb

VARIABLES
  message,
  nleft,                \* rio_writen: bytes not written yet
  writer,               \* "writing", "closed", or "failed": its process ended
  socket,
  rio_cnt, rio_buf,     \* rio_t: the count, and the unread bytes
  call,                 \* the reader's call: "none", "readlineb", "readnb"
  usrbuf,               \* what the call has copied
  result,               \* what the last call returned
  reader                \* "reading", "eof", or "failed"

rp == <<rio_cnt, rio_buf>>
vars == <<message, nleft, writer, socket, rp, call, usrbuf, result, reader>>

Init ==
  /\ message \in Messages
  /\ nleft = Len(message)
  /\ writer = "writing"
  /\ socket = <<>>
  /\ rio_cnt = 0 /\ rio_buf = <<>>              \* rio_readinitb
  /\ call = "none" /\ usrbuf = <<>> /\ result = <<>>
  /\ reader = "reading"

ReaderUnchanged == UNCHANGED <<rp, call, usrbuf, result, reader>>

-----------------------------------------------------------------------------
(* rio_writen.  EINTR leaves nleft as it is. *)
write ==
  /\ writer = "writing" /\ nleft > 0
  /\ reader # "failed"
  /\ \E nwritten \in 1..nleft :
       /\ Len(socket) + nwritten <= SocketSize
       /\ socket' = socket \o SubSeq(message, Len(message) - nleft + 1,
                                     Len(message) - nleft + nwritten)
       /\ nleft' = nleft - nwritten
  /\ ReaderUnchanged /\ UNCHANGED <<message, writer>>

\* Any other error, as when the reader is gone: the wrapper Rio_writen ends
\* the process, and the kernel closes the socket.
write_error ==
  /\ writer = "writing" /\ nleft > 0
  /\ writer' = "failed"
  /\ ReaderUnchanged /\ UNCHANGED <<message, nleft, socket>>

Close ==
  /\ writer = "writing" /\ nleft = 0
  /\ writer' = "closed"
  /\ ReaderUnchanged /\ UNCHANGED <<message, nleft, socket>>

WriterUnchanged == UNCHANGED <<message, nleft, writer>>

-----------------------------------------------------------------------------
(* The reader. *)
Call ==
  /\ call = "none" /\ reader = "reading"
  /\ call' \in {"readlineb", "readnb"}
  /\ usrbuf' = <<>>
  /\ WriterUnchanged /\ UNCHANGED <<socket, rp, result, reader>>

\* Mutant: rio_readnb asks for n again after a short count.
Wanted_Whole == IF call = "readlineb" THEN 1 ELSE Block

\* How many bytes the call asks rio_read for.
Wanted == IF call = "readlineb" THEN 1 ELSE Block - Len(usrbuf)

\* The call returns what it copied; an empty answer is end of file.
Return(bytes) ==
  /\ call' = "none" /\ usrbuf' = <<>> /\ result' = bytes
  /\ reader' = IF bytes = <<>> THEN "eof" ELSE "reading"

\* The loops of rio_readlineb and rio_readnb, after a byte or more was copied.
Copied(bytes) ==
  IF IF call = "readlineb" THEN Last(bytes) = Newline \/ Len(bytes) = MaxLen - 1
                           ELSE Len(bytes) = Block
  THEN Return(bytes)
  ELSE usrbuf' = bytes /\ UNCHANGED <<call, result, reader>>

\* rio_read with something in the buffer.
rio_read_copy ==
  /\ call # "none"
  /\ rio_cnt > 0
  /\ LET cnt == IF rio_cnt < Wanted THEN rio_cnt ELSE Wanted
     IN  /\ Copied(usrbuf \o SubSeq(rio_buf, 1, cnt))
         /\ rio_buf' = SubSeq(rio_buf, cnt + 1, Len(rio_buf))
         /\ rio_cnt' = rio_cnt - cnt
  /\ WriterUnchanged /\ UNCHANGED socket

\* Its refill.
rio_read_refill ==
  /\ call # "none"
  /\ rio_cnt <= 0
  /\ \E n \in 1..RIO_BUFSIZE :
       /\ n <= Len(socket)
       /\ rio_cnt' = n
       /\ rio_buf' = SubSeq(socket, 1, n)
       /\ socket' = SubSeq(socket, n + 1, Len(socket))
  /\ WriterUnchanged /\ UNCHANGED <<call, usrbuf, result, reader>>

\* EINTR: the count is left at -1 and read is called again.
rio_read_interrupted ==
  /\ call # "none"
  /\ rio_cnt <= 0
  /\ rio_cnt' = -1
  /\ WriterUnchanged /\ UNCHANGED <<socket, rio_buf, call, usrbuf, result, reader>>

rio_read_eof ==
  /\ call # "none"
  /\ rio_cnt <= 0
  /\ socket = <<>> /\ writer # "writing"
  /\ rio_cnt' = 0
  /\ Return(usrbuf)
  /\ WriterUnchanged /\ UNCHANGED <<socket, rio_buf>>

\* Any other error: the wrappers Rio_readlineb and Rio_readnb end the process.
rio_read_error ==
  /\ call # "none"
  /\ rio_cnt <= 0
  /\ rio_cnt' = -1
  /\ reader' = "failed" /\ call' = "none"
  /\ WriterUnchanged /\ UNCHANGED <<socket, rio_buf, usrbuf, result>>

Next ==
  \/ write \/ write_error \/ Close
  \/ Call \/ rio_read_copy \/ rio_read_refill \/ rio_read_interrupted
  \/ rio_read_eof \/ rio_read_error

Spec == Init /\ [][Next]_vars
-----------------------------------------------------------------------------
(* A reader that mixes lines and blocks gets the writer's bytes once and   *)
(* in order, however reads and writes are cut or interrupted; a line ends  *)
(* at its newline, at maxlen - 1 bytes, or at the end of the stream.  A     *)
(* writer that fails takes only the bytes with it that it had not written. *)
Unwritten ==
  IF writer = "failed" THEN <<>> ELSE SubSeq(message, Len(message) - nleft + 1, Len(message))
Unread == usrbuf \o rio_buf \o socket \o Unwritten
Stream == INSTANCE LineStream WITH
  rest <- Unread, last <- result, failed <- reader = "failed", cut <- writer = "failed",
  MaxLine <- MaxLen - 1

ImplementsStream == Stream!Spec
=============================================================================
