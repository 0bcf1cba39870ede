------------------------------- MODULE Tiny -------------------------------
(***************************************************************************)
(* The tiny server: one connection at a time, every call through a wrapper *)
(* of csapp.c, so that any failure ends the server.  The text of requests  *)
(* and responses is not modelled, only which parts are read and written.   *)
(***************************************************************************)
EXTENDS Csapp

CONSTANTS MaxHeaders,     \* bound: header lines of a request
          MaxAddresses    \* bound: addresses of the port

VARIABLES
  pc,
  fds,                    \* open descriptors of the server
  mapped,                 \* whether a file is mapped
  child,                  \* "none", "forked" (still this program), "cgi", "zombie"
  request,
  unread,                 \* lines of the request not read yet
  response                \* the parts written to the client

vars == <<pc, fds, mapped, child, request, unread, response>>

\* lines: all it sends before it closes, the request line and the headers;
\* whole: the last of them is the blank line.
Requests ==
  {r \in [method : {"GET", "other"}, dynamic : BOOLEAN, file : {"missing", "forbidden", "fine"},
          lines : 0..MaxHeaders + 2, whole : BOOLEAN] : r.whole => r.lines >= 2}

NoRequest == [method |-> "GET", dynamic |-> FALSE, file |-> "fine", lines |-> 0, whole |-> FALSE]

Init ==
  /\ \E list \in BoundedSeq(Attempts, MaxAddresses), listens \in BOOLEAN :
       LET opened == open_listenfd(list, listens)
       IN  /\ fds = IF opened = {} THEN {} ELSE {"listenfd"}
           /\ pc = IF opened = {} THEN "exited" ELSE "accept"      \* Open_listenfd
  /\ mapped = FALSE /\ child = "none"
  /\ request = NoRequest /\ unread = 0 /\ response = <<>>

At(here) == pc = here
Goto(there) == pc' = there
Write(part) == response' = Append(response, part)

\* The wrappers called on the way from each place.
Calls ==
  [accept |-> {"Accept", "Getnameinfo"}, request |-> {"Rio_readlineb", "Rio_writen"},
   headers |-> {"Rio_readlineb"}, stat |-> {"Rio_writen"}, static |-> {"Rio_writen"},
   open |-> {"Open"}, map |-> {"Mmap", "Close"}, body |-> {"Rio_writen"}, unmap |-> {"Munmap"},
   dynamic |-> {"Rio_writen", "Fork"}, wait |-> {"Wait"}, close |-> {"Close"}]

\* A wrapper fails, or SIGPIPE ends the server.
Exit ==
  /\ pc \in DOMAIN Calls
  /\ \E call \in Calls[pc], rc \in Results : EndsProcess(call, rc)
  /\ Goto("exited")
  /\ fds' = {} /\ mapped' = FALSE
  /\ UNCHANGED <<child, request, unread, response>>

-----------------------------------------------------------------------------
main_accept ==
  /\ At("accept")
  /\ request' \in Requests
  /\ unread' = request'.lines
  /\ response' = <<>>
  /\ fds' = fds \cup {"connfd"}
  /\ Goto("request")
  /\ UNCHANGED <<mapped, child>>

main_close ==
  /\ At("close")
  /\ fds' = fds \ {"connfd"}
  /\ Goto("accept")
  /\ UNCHANGED <<mapped, child, request, unread, response>>

clienterror(errnum) == Write(errnum) /\ Goto("close")

\* The first lines of doit.
read_request ==
  /\ At("request")
  /\ unread' = IF unread = 0 THEN 0 ELSE unread - 1
  /\ IF unread = 0 THEN Goto("close") /\ UNCHANGED response
     ELSE IF request.method = "GET" THEN Goto("headers") /\ UNCHANGED response
     ELSE clienterror("501")
  /\ UNCHANGED <<fds, mapped, child, request>>

\* A line of read_requesthdrs.  At the end of the stream buf keeps the line
\* before, which is not blank, and the loop goes on for ever.
read_requesthdrs ==
  /\ At("headers")
  /\ unread > 0
  /\ unread' = unread - 1
  /\ Goto(IF unread = 1 /\ request.whole THEN "stat" ELSE "headers")
  /\ UNCHANGED <<fds, mapped, child, request, response>>

\* parse_uri, stat, and the tests of the mode.
doit ==
  /\ At("stat")
  /\ CASE request.file = "missing" -> clienterror("404")
       [] request.file = "forbidden" -> clienterror("403")
       [] OTHER -> Goto(IF request.dynamic THEN "dynamic" ELSE "static") /\ UNCHANGED response
  /\ UNCHANGED <<fds, mapped, child, request, unread>>

\* serve_static: headers, Open, Mmap and Close, body, Munmap.
serve_static ==
  \/ /\ At("static") /\ Write("200") /\ Goto("open")
     /\ UNCHANGED <<fds, mapped, child, request, unread>>
  \/ /\ At("open") /\ fds' = fds \cup {"srcfd"} /\ Goto("map")
     /\ UNCHANGED <<mapped, child, request, unread, response>>
  \/ /\ At("map") /\ mapped' = TRUE /\ fds' = fds \ {"srcfd"} /\ Goto("body")
     /\ UNCHANGED <<child, request, unread, response>>
  \/ /\ At("body") /\ Write("file") /\ Goto("unmap")
     /\ UNCHANGED <<fds, mapped, child, request, unread>>
  \/ /\ At("unmap") /\ mapped' = FALSE /\ Goto("close")
     /\ UNCHANGED <<fds, child, request, unread, response>>

\* Mutant: the parent does not wait.
serve_dynamic_NoWait ==
  \/ /\ At("dynamic") /\ Write("200") /\ child' = "forked" /\ Goto("wait")
     /\ UNCHANGED <<fds, mapped, request, unread>>
  \/ /\ At("wait") /\ child' = child /\ Goto("close")
     /\ UNCHANGED <<fds, mapped, request, unread, response>>

serve_dynamic ==
  \/ /\ At("dynamic") /\ Write("200") /\ child' = "forked" /\ Goto("wait")
     /\ UNCHANGED <<fds, mapped, request, unread>>
  \/ /\ At("wait") /\ child = "zombie" /\ child' = "none" /\ Goto("close")
     /\ UNCHANGED <<fds, mapped, request, unread, response>>

\* The child execs the program, which may write its output or crash; if Dup2
\* or Execve fails, the wrapper ends the child, and its exit writes what the
\* server's printf had not flushed to the client.
Child ==
  \/ /\ child = "forked" /\ child' \in {"cgi", "zombie"}
     /\ child' = "zombie" => \E call \in {"Dup2", "Execve"}, rc \in Results : EndsProcess(call, rc)
     /\ \/ UNCHANGED response
        \/ child' = "zombie" /\ Write("log")
  \/ child = "cgi" /\ Write("cgi") /\ child' = "zombie"
  \/ child = "cgi" /\ child' = "zombie" /\ UNCHANGED response

RunChild == Child /\ UNCHANGED <<pc, fds, mapped, request, unread>>

Next ==
  \/ Exit \/ main_accept \/ main_close \/ read_request \/ read_requesthdrs \/ doit
  \/ serve_static \/ serve_dynamic \/ RunChild

Spec == Init /\ [][Next]_vars

-----------------------------------------------------------------------------
(* Whichever way the last request ended, the server accepts the next one   *)
(* with only the listening socket, no mapping and no child, so nothing of  *)
(* one request reaches the client of another; a client that sent a whole   *)
(* request has got one status line, and a body only after 200.             *)
NothingKept ==
  pc = "accept" =>
    /\ fds = {"listenfd"} /\ ~mapped /\ child = "none"
    /\ request.lines > 0 => response # <<>>
    /\ response # <<>> => Head(response) \in {"200", "501", "404", "403"}
    /\ Len(response) = 2 => /\ response[1] = "200"
                            /\ response[2] \in IF request.dynamic THEN {"cgi", "log"} ELSE {"file"}
    /\ Len(response) <= 2
=============================================================================
