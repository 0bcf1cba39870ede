------------------------------ MODULE ShellInv ------------------------------
(***************************************************************************)
(* The inductive invariant behind the safety properties of Shell.          *)
(***************************************************************************)
EXTENDS Shell

\* Which job may have the foreground, at each place of the read/eval loop: the
\* one do_bgfg has just put there, the one waitfg waits for, or none.
LoopInv ==
  /\ pc \in {"prompt", "addjob", "restore"} => FgSlots(jobs) = {}
  /\ pc = "addjob" => pid \in Pid
  /\ pc = "cont" => job \in Slot /\ \A i \in FgSlots(jobs) : i = job
  /\ pc \in {"waitfg", "suspended"} => \A i \in FgSlots(jobs) : jobs[i].pid = pid

\* While eval or do_bgfg uses the list, SIGCHLD is blocked, stays blocked when a
\* ctrl-c handler returns, and sigchld_handler does not run.
MaskInv ==
  pc \in {"addjob", "cont"} =>
    /\ "CHLD" \in mask
    /\ \A k \in 1..Len(frames) :
         frames[k].sig # "CHLD" /\ "CHLD" \in frames[k].saved

\* sigsuspend returns as soon as a handler is entered.
SuspendInv == pc = "suspended" => frames = <<>>

\* A ctrl-c handler that goes on to Kill_sio has read the pid of a job.
KillInv ==
  \A k \in 1..Len(frames) : frames[k].at = "kill" => frames[k].pid \in Pid

\* Every unreaped child is listed, but for the one eval is about to add; every
\* listed process is an unreaped child; nothing is listed twice.
ListInv ==
  status = "running" =>
    /\ \A p \in Pid :
         life[p] # "none" /\ ~ (pc = "addjob" /\ p = pid) =>
           \E i \in Slot : jobs[i].pid = p
    /\ \A i \in Slot :
         jobs[i].pid \in Pid =>
           /\ life[jobs[i].pid] # "none"
           /\ ~ (pc = "addjob" /\ jobs[i].pid = pid)
    /\ \A i, j \in Slot : jobs[i].pid = jobs[j].pid /\ jobs[i].pid # NoPid => i = j
    /\ \A i \in Slot : jobs[i].pid = NoPid => jobs[i] = EmptyJob
    /\ pc = "addjob" => life[pid] # "none"
    /\ pc = "cont" => jobs[job].pid \in Pid
    /\ \A p \in unreported : life[p] # "none"

BaseInv ==
  /\ TypeOK
  /\ AtMostOneFG
  /\ LoopInv
  /\ MaskInv
  /\ SuspendInv
  /\ KillInv
  /\ ListInv
  /\ ForwardSparesBackground

\* Where a child's stop is known: waitpid has it for the child alone that is
\* still stopped, the stop of a child not yet listed is not reported, and do_bgfg
\* has already lifted the stop from the list.
StopInv ==
  status = "running" =>
    /\ \A p \in unreported : life[p] = "stop"
    /\ pc = "addjob" /\ life[pid] = "stop" => pid \in unreported
    /\ pc = "cont" => jobs[job].state \in {"FG", "BG"}

\* A slot that holds a process holds a state of the diagram.
StateInv ==
  \A i \in Slot : jobs[i].pid \in Pid => jobs[i].state \in {"FG", "BG", "ST"}

\* The inductive invariant.
IInv ==
  /\ BaseInv
  /\ StoppedIsListed
  /\ StopInv
  /\ StoppedJobIsQuiet
  /\ StateInv
=============================================================================
