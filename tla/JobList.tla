------------------------------ MODULE JobList ------------------------------
(***************************************************************************)
(* The job list of src/Lab5_shelllab/tsh.c on its own: any legal sequence  *)
(* of the calls the shell makes of it.  eval adds a child that is not yet  *)
(* listed, sigchld_handler deletes or stops a listed one.                  *)
(***************************************************************************)
EXTENDS JobTable

CONSTANT MaxJid   \* bound: nothing is added once nextjid exceeds it

Listed == {jobs[i].pid : i \in Slot} \ {NoPid}

Init == InitJobs

Add(p) ==
  /\ nextjid <= MaxJid
  /\ p \notin Listed
  /\ addjob(p, "BG")

Delete(p) == p \in Listed /\ deletejob(p)

Next == \E p \in Pid : Add(p) \/ Delete(p)

Spec == Init /\ [][Next]_<<jobs, nextjid>>

\* A job ID names one job (tsh.c:50 and 523, "Find a job (by JID)"): %n of fg and
\* bg and the number the user is shown are unambiguous.
UniqueJids ==
  \A i, j \in Slot : jobs[i].jid = jobs[j].jid /\ jobs[i].jid # 0 => i = j
=============================================================================
