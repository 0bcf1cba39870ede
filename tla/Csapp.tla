------------------------------- MODULE Csapp -------------------------------
(***************************************************************************)
(* The wrappers of csapp.c: a call, and the end of the process (with exit  *)
(* status 0) if its result says that it failed; and the functions that     *)
(* open a connection.  A result is -1, 0, which also stands for NULL, or 1.*)
(***************************************************************************)
EXTENDS Integers, SequencesExt, TLC

Results == {-1, 0, 1}

\* The results that end the process, and the wrappers that look for them.  -1
\* is also a short count, or NULL, with the error flag or errno set.
Negative == {-1}
Nonzero == {-1, 1}
Zero == {0}
Never == {}

\* sleep returns an unsigned number, which is never negative.
ProcessControl ==
  [call \in {"Fork", "Execve", "Wait", "Waitpid", "Kill", "Setpgid", "Pause", "Sleep", "Alarm",
            "Getpgrp"} |-> IF call \in {"Pause", "Sleep", "Alarm", "Getpgrp"} THEN Never ELSE Negative]
Signals == [call \in {"Signal", "Sigprocmask", "Sigemptyset", "Sigfillset", "Sigaddset",
                      "Sigdelset", "Sigismember", "Sigsuspend"} |-> Negative]
SafeIO == [call \in {"Sio_puts", "Sio_putl", "Sio_error"} |->
             IF call = "Sio_error" THEN Results ELSE Negative]
UnixIO == [call \in {"Open", "Read", "Write", "Lseek", "Close", "Select", "Dup2", "Stat",
                     "Fstat"} |-> Negative]
Directories == [call \in {"Opendir", "Readdir", "Closedir"} |->
                  IF call = "Opendir" THEN Zero ELSE Negative]
Mapping == [call \in {"Mmap", "Munmap"} |-> Negative]
Allocation == [call \in {"Malloc", "Realloc", "Calloc", "Free"} |->
                 IF call = "Free" THEN Never ELSE Zero]
StandardIO ==
  [call \in {"Fclose", "Fdopen", "Fopen", "Fgets", "Fputs", "Fread", "Fwrite"} |->
     CASE call = "Fclose" -> Nonzero
       [] call \in {"Fdopen", "Fopen"} -> Zero
       [] OTHER -> Negative]
Sockets == [call \in {"Socket", "Setsockopt", "Bind", "Listen", "Accept", "Connect"} |-> Negative]
Addresses == [call \in {"Getaddrinfo", "Getnameinfo", "Freeaddrinfo", "Inet_ntop", "Inet_pton"} |->
                CASE call = "Inet_ntop" -> Zero [] call = "Inet_pton" -> Zero \cup Negative
                  [] call = "Freeaddrinfo" -> Never [] OTHER -> Nonzero]
Names == [call \in {"Gethostbyname", "Gethostbyaddr"} |-> Zero]
Threads ==
  [call \in {"Pthread_create", "Pthread_cancel", "Pthread_join", "Pthread_detach",
            "Pthread_self", "Pthread_once"} |->
     IF call \in {"Pthread_self", "Pthread_once"} THEN Never ELSE Nonzero]
Semaphores == [call \in {"Sem_init", "P", "V"} |-> Negative]
RobustIO == [call \in {"Rio_readn", "Rio_writen", "Rio_readinitb", "Rio_readnb", "Rio_readlineb"} |->
               IF call = "Rio_readinitb" THEN Never ELSE Negative]
Helpers == [call \in {"Open_clientfd", "Open_listenfd"} |-> Negative]

Wrappers == FoldLeft(LAMBDA f, g : f @@ g, ProcessControl,
  <<Signals, SafeIO, UnixIO, Directories, Mapping, Allocation, StandardIO, Sockets, Addresses, Names,
    Threads, Semaphores, RobustIO, Helpers>>)

\* unix_error, posix_error, gai_error, app_error and dns_error all exit.
EndsProcess(call, rc) == rc \in Wrappers[call]

-----------------------------------------------------------------------------
(* An attempt on an address: "no socket", "refused" (connect or bind       *)
(* fails), "stuck" (and then close fails), or "good".  The loops give the  *)
(* sockets that stay open; the last of a successful one is returned.       *)
Attempts == {"no socket", "refused", "stuck", "good"}

\* The first attempt that ends the loop, or none.
Decisive(list) == {i \in DOMAIN list : /\ list[i] \in {"stuck", "good"}
                                       /\ \A j \in 1..i-1 : list[j] \notin {"stuck", "good"}}

open_clientfd(list) == {i \in Decisive(list) : list[i] = "good"}

\* listens: whether listen succeeds on the bound socket; if not it is closed.
open_listenfd(list, listens) == {i \in Decisive(list) : list[i] = "good" /\ listens}
=============================================================================
