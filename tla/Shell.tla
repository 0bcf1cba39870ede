-------------------------------- MODULE Shell --------------------------------
(***************************************************************************)
(* The tiny shell, src/Lab5_shelllab/tsh.c, with the kernel it talks to.   *)
(*                                                                         *)
(* The shell is one thread: the read/eval loop (eval, do_bgfg, waitfg) and *)
(* on top of it a stack of signal handlers.  The kernel keeps, for every   *)
(* child, its life and the state changes waitpid has not yet reported, and *)
(* for the shell the blocked and the pending signals.  Between any two     *)
(* steps a child may set its group, exec, stop, exit, and the user may     *)
(* type ctrl-c or ctrl-z.                                                  *)
(***************************************************************************)
EXTENDS JobTable, Sequences

CONSTANTS
  Commands,   \* what the user types: a subset of CommandKind
  Keys,       \* what the user presses: "INT" for ctrl-c, "TSTP" for ctrl-z
  Splitters,  \* programs that fork a second process into their own group
  MaxJid      \* bound: no program is started once nextjid exceeds it

\* A program, fg or bg with the name of a job, fg or bg without one, quit.
CommandKind == {"run", "bgfg", "nojob", "quit"}

ASSUME CommandsAssumption == Commands \subseteq CommandKind
ASSUME KeysAssumption == Keys \subseteq {"INT", "TSTP"}
ASSUME SplittersAssumption == Splitters \subseteq Pid
ASSUME MaxJidAssumption == MaxJid \in Nat

VARIABLES
  pc,         \* where the read/eval loop is
  pid,        \* eval's pid, waitfg's argument
  bg,         \* eval's bg: the command line ended in an ampersand
  job,        \* do_bgfg's job, a slot
  prev_mask,  \* the signal mask eval and do_bgfg restore
  frames,     \* the running handlers, the innermost first
  status,     \* whether the shell runs, or how it ended
  mask,       \* signals the shell blocks
  pending,    \* signals sent to the shell and not yet delivered
  life,       \* every child
  unreported, \* children whose stop waitpid has not reported
  intPending, \* stopped children with a SIGINT that waits for SIGCONT
  member      \* the second process of a splitter's group

main == <<pc, pid, bg, job, prev_mask>>
shell == <<main, frames, status, mask>>
kernel == <<life, unreported, intPending, member>>
table == <<jobs, nextjid>>
vars == <<table, shell, pending, kernel>>

Signal == {"INT", "TSTP", "CHLD", "QUIT"}

\* A pre-exec child still has the shell's handlers: before setpgid it sits in
\* the shell's group ("forked"), after it in its own ("grouped").  A child that
\* ends is a zombie, in its own group, or "lost" if it never got one.
Life == {"none", "forked", "grouped", "run", "stop", "zombie", "lost"}

Frame == [sig : {"INT", "TSTP", "CHLD"}, at : {"entry", "loop", "kill"},
          pid : Pid \cup {NoPid}, saved : SUBSET Signal]

TypeOK ==
  /\ jobs \in [Slot -> Job]
  /\ nextjid \in Nat
  /\ pc \in {"prompt", "addjob", "waitfg", "suspended", "restore", "cont"}
  /\ pid \in Pid \cup {NoPid}
  /\ bg \in BOOLEAN
  /\ job \in Slot \cup {0}
  /\ prev_mask \in SUBSET Signal
  /\ frames \in Seq(Frame)
  /\ status \in {"running", "exited", "error", "segv"}
  /\ mask \in SUBSET Signal
  /\ pending \in SUBSET {"INT", "TSTP", "CHLD"}
  /\ life \in [Pid -> Life]
  /\ unreported \in SUBSET Pid
  /\ intPending \in SUBSET Pid
  /\ member \in [Pid -> {"none", "run", "stop"}]

Init ==
  /\ InitJobs
  /\ pc = "prompt"
  /\ pid = NoPid
  /\ bg = FALSE
  /\ job = 0
  /\ prev_mask = {}
  /\ frames = <<>>
  /\ status = "running"
  /\ mask = {}
  /\ pending = {}
  /\ life = [p \in Pid |-> "none"]
  /\ unreported = {}
  /\ intPending = {}
  /\ member = [p \in Pid |-> "none"]

-----------------------------------------------------------------------------
(* The kernel: process groups and waitpid.                                 *)

\* kill(-p, ...) finds a process: a zombie keeps its group until it is reaped.
GroupExists(p) ==
  \/ life[p] \in {"grouped", "run", "stop", "zombie"}
  \/ member[p] # "none"

\* The child has ended and is not reaped yet.
Dead(p) == life[p] \in {"zombie", "lost"}

\* What waitpid(-1, WUNTRACED|WNOHANG) has to report.
Waitable(p) == Dead(p) \/ p \in unreported

\* SIGINT or SIGTSTP sent to group p.  A program has the default dispositions;
\* a stopped one keeps SIGINT pending.  A child that has not reached execve runs
\* the shell's own handler on a job list without a foreground job: no effect.
SignalGroup(p, s) ==
  /\ life' = [life EXCEPT ![p] =
                CASE @ = "run" /\ s = "INT"  -> "zombie"
                  [] @ = "run" /\ s = "TSTP" -> "stop"
                  [] OTHER -> @]
  /\ unreported' = IF life[p] = "run" /\ s = "TSTP"
                     THEN unreported \cup {p} ELSE unreported
  /\ intPending' = IF life[p] = "stop" /\ s = "INT"
                     THEN intPending \cup {p} ELSE intPending
  /\ member' = [member EXCEPT ![p] =
                  CASE @ = "run" /\ s = "INT"  -> "none"
                    [] @ = "run" /\ s = "TSTP" -> "stop"
                    [] OTHER -> @]
  /\ pending' = IF life[p] = "run" THEN pending \cup {"CHLD"} ELSE pending

\* Mutant: kill(pid, sig), to the leader only.
SignalLeader(p, s) ==
  /\ life' = [life EXCEPT ![p] =
                CASE @ = "run" /\ s = "INT"  -> "zombie"
                  [] @ = "run" /\ s = "TSTP" -> "stop"
                  [] OTHER -> @]
  /\ unreported' = IF life[p] = "run" /\ s = "TSTP"
                     THEN unreported \cup {p} ELSE unreported
  /\ pending' = IF life[p] = "run" THEN pending \cup {"CHLD"} ELSE pending
  /\ UNCHANGED <<intPending, member>>

\* Kill_sio(-pid, sig) of the handlers.
Kill_sio(p, s) == SignalGroup(p, s)

\* SIGCONT sent to process p alone; continuing cancels an unreported stop.
SignalCont(p) ==
  IF life[p] = "stop"
    THEN /\ life' = [life EXCEPT ![p] =
                       IF p \in intPending THEN "zombie" ELSE "run"]
         /\ unreported' = unreported \ {p}
         /\ intPending' = intPending \ {p}
         /\ pending' = pending \cup {"CHLD"}
         /\ UNCHANGED member
    ELSE UNCHANGED <<kernel, pending>>

-----------------------------------------------------------------------------
(* The read/eval loop.  It runs only when no handler does.                 *)

MainAt(l) == status = "running" /\ frames = <<>> /\ pc = l

\* Mutant: nothing is blocked.
JobMaskNone == {}

\* What eval and do_bgfg block while they use the job list.
JobMask == {"CHLD"}

\* Back at the prompt, with mask m; the locals of eval and do_bgfg are gone.
ToPrompt(m) ==
  /\ pc' = "prompt"
  /\ mask' = m
  /\ pid' = NoPid
  /\ bg' = FALSE
  /\ job' = 0
  /\ prev_mask' = {}

\* eval of a program: block SIGCHLD, then fork.
Fork(background) ==
  /\ MainAt("prompt")
  /\ "run" \in Commands
  /\ nextjid <= MaxJid
  /\ \E p \in Pid :
       /\ life[p] = "none" /\ member[p] = "none"
       /\ life' = [life EXCEPT ![p] = "forked"]
       /\ pid' = p
  /\ pc' = "addjob"
  /\ bg' = background
  /\ prev_mask' = mask
  /\ mask' = mask \cup JobMask
  /\ UNCHANGED <<table, job, frames, status, pending,
                 unreported, intPending, member>>

\* fork fails: unix_error leaves the shell.
ForkFails ==
  /\ MainAt("prompt")
  /\ "run" \in Commands
  /\ status' = "error"
  /\ UNCHANGED <<table, main, frames, mask, pending, kernel>>

\* addjob, then getjobpid, then job->jid: a NULL job when the list is full.
AddJob ==
  /\ MainAt("addjob")
  /\ addjob(pid, IF bg THEN "BG" ELSE "FG")
  /\ status' = IF FreeSlots(jobs) = {} THEN "segv" ELSE status
  /\ pc' = IF bg THEN "restore" ELSE "waitfg"
  /\ UNCHANGED <<pid, bg, job, prev_mask, frames, mask, pending, kernel>>

\* Mutant: the loop test is inverted.
StillForegroundNot(p) == p # fgpid(jobs)

\* The loop test of waitfg.
StillForeground(p) == p = fgpid(jobs)

\* One turn of the loop of waitfg, up to sigsuspend with the empty mask.
WaitFg ==
  /\ MainAt("waitfg")
  /\ pc' = IF StillForeground(pid) THEN "suspended" ELSE "restore"
  /\ UNCHANGED <<table, pid, bg, job, prev_mask, frames, status, mask,
                 pending, kernel>>

\* The final Sigprocmask(SIG_SETMASK, &prev_mask) of eval and do_bgfg.
Restore ==
  /\ MainAt("restore")
  /\ ToPrompt(prev_mask)
  /\ UNCHANGED <<table, frames, status, pending, kernel>>

\* What the argument of bg or fg names: a job ID or a pid.
Argument == {getjobjid(jobs, n) : n \in 1..MaxJid + 1}
              \cup {getjobpid(jobs, p) : p \in Pid}

\* do_bgfg: block SIGCHLD, look the job up, change its state.
BgFg(st) ==
  /\ MainAt("prompt")
  /\ "bgfg" \in Commands
  /\ \E i \in Argument \ {0} :
       /\ setstate(i, st)
       /\ job' = i
  /\ pc' = "cont"
  /\ prev_mask' = mask
  /\ mask' = mask \cup JobMask
  /\ UNCHANGED <<pid, bg, frames, status, pending, kernel>>

\* do_bgfg without an argument, or with one that names no job: it returns and
\* leaves SIGCHLD blocked.
BgFgNoJob ==
  /\ MainAt("prompt")
  /\ "nojob" \in Commands
  /\ ToPrompt(mask \cup JobMask)
  /\ UNCHANGED <<table, frames, status, pending, kernel>>

\* do_bgfg: Kill(job->pid, SIGCONT), which leaves the shell if the process is
\* gone, then waitfg(job->pid) if the job is in the foreground.
Continue ==
  /\ MainAt("cont")
  /\ LET p == jobs[job].pid IN
     IF p \in Pid /\ life[p] # "none"
       THEN /\ SignalCont(p)
            /\ pid' = p
            /\ pc' = IF jobs[job].state = "FG" THEN "waitfg" ELSE "restore"
            /\ UNCHANGED status
       ELSE /\ status' = "error"
            /\ UNCHANGED <<pid, pc, kernel, pending>>
  /\ UNCHANGED <<table, bg, job, prev_mask, frames, mask>>

\* The quit command and end of file.
Quit ==
  /\ MainAt("prompt")
  /\ "quit" \in Commands
  /\ status' = "exited"
  /\ UNCHANGED <<table, main, frames, mask, pending, kernel>>

\* Steps of the loop that wait for nobody.
MainStep == AddJob \/ WaitFg \/ Restore \/ Continue

-----------------------------------------------------------------------------
(* Signal delivery and the handlers.                                       *)

\* Mutant: waitfg suspends with SIGCHLD blocked, as it is outside.
SuspendMaskChld == {"CHLD"}

\* The mask of sigsuspend.
SuspendMask == {}

\* sigsuspend runs with the empty mask and returns when a handler has; the
\* frame saves the mask that was in force before it.
Deliver(s) ==
  /\ status = "running"
  /\ s \in pending
  /\ s \notin IF pc = "suspended" THEN SuspendMask ELSE mask
  /\ pending' = pending \ {s}
  /\ frames' = <<[sig |-> s, at |-> "entry", pid |-> NoPid, saved |-> mask]>>
                 \o frames
  /\ mask' = (IF pc = "suspended" THEN SuspendMask ELSE mask) \cup {s}
  /\ pc' = IF pc = "suspended" THEN "waitfg" ELSE pc
  /\ UNCHANGED <<table, pid, bg, job, prev_mask, status, kernel>>

\* SIGQUIT from the driver ends the shell in its handler.
SigQuit ==
  /\ status = "running"
  /\ "quit" \in Commands
  /\ "QUIT" \notin mask
  /\ status' = "exited"
  /\ UNCHANGED <<table, main, frames, mask, pending, kernel>>

HandlerAt(sigs, l) ==
  /\ status = "running"
  /\ frames # <<>>
  /\ frames[1].sig \in sigs
  /\ frames[1].at = l

\* Return from the innermost handler, to the mask saved at its delivery.
Return ==
  /\ mask' = frames[1].saved
  /\ frames' = Tail(frames)

\* sigchld_handler blocks every signal before its loop.
ChldMask ==
  /\ HandlerAt({"CHLD"}, "entry")
  /\ mask' = Signal
  /\ frames' = [frames EXCEPT ![1].at = "loop"]
  /\ UNCHANGED <<table, main, status, pending, kernel>>

\* One turn of the loop: waitpid reports child p, the job list follows.
Reap(p) ==
  /\ HandlerAt({"CHLD"}, "loop")
  /\ Waitable(p)
  /\ life' = [life EXCEPT ![p] = IF Dead(p) THEN "none" ELSE @]
  /\ unreported' = unreported \ {p}
  /\ LET i == getjobpid(jobs, p) IN
     \/ i = 0 /\ status' = "segv" /\ UNCHANGED table
     \/ /\ i # 0
        /\ IF Dead(p) THEN deletejob(p) ELSE setstate(i, "ST")
        /\ UNCHANGED status
  /\ UNCHANGED <<main, frames, mask, pending, intPending, member>>

\* Mutant: the handler may return with children left to report (an "if" where
\* the code has a "while": signals that arrive together count once).
ChldReturnEarly ==
  /\ HandlerAt({"CHLD"}, "loop")
  /\ Return
  /\ UNCHANGED <<table, main, status, pending, kernel>>

\* waitpid has nothing more to report.
ChldReturn ==
  /\ HandlerAt({"CHLD"}, "loop")
  /\ \A p \in Pid : ~ Waitable(p)
  /\ Return
  /\ UNCHANGED <<table, main, status, pending, kernel>>

\* sigint_handler and sigtstp_handler: read the foreground pid ...
ReadFg ==
  /\ HandlerAt({"INT", "TSTP"}, "entry")
  /\ LET p == fgpid(jobs) IN
     IF p = NoPid
       THEN Return
       ELSE /\ frames' = [frames EXCEPT ![1].at = "kill", ![1].pid = p]
            /\ UNCHANGED mask
  /\ UNCHANGED <<table, main, status, pending, kernel>>

\* ... and send the signal to its group.  Kill_sio leaves the shell when there
\* is no such group.
Forward ==
  /\ HandlerAt({"INT", "TSTP"}, "kill")
  /\ LET p == frames[1].pid IN
     IF GroupExists(p)
       THEN Kill_sio(p, frames[1].sig) /\ Return /\ UNCHANGED status
       ELSE /\ status' = "error"
            /\ UNCHANGED <<frames, mask, pending, kernel>>
  /\ UNCHANGED <<table, main>>

HandlerStep ==
  \/ ChldMask
  \/ \E p \in Pid : Reap(p)
  \/ ChldReturn
  \/ ReadFg
  \/ Forward

-----------------------------------------------------------------------------
(* The children and the user.                                              *)

Running == status = "running"

Setpgid(p) ==
  /\ Running
  /\ life[p] = "forked"
  /\ life' = [life EXCEPT ![p] = "grouped"]
  /\ UNCHANGED <<table, shell, pending, unreported, intPending, member>>

Execve(p) ==
  /\ Running
  /\ life[p] = "grouped"
  /\ life' = [life EXCEPT ![p] = "run"]
  /\ UNCHANGED <<table, shell, pending, unreported, intPending, member>>

\* A child ends: it returns, its setpgid or execve fails, or a signal kills it,
\* such as the SIGINT myint sends itself.
Exit(p) ==
  /\ Running
  /\ life[p] \in {"forked", "grouped", "run", "stop"}
  /\ life' = [life EXCEPT ![p] = IF @ = "forked" THEN "lost" ELSE "zombie"]
  /\ unreported' = unreported \ {p}
  /\ intPending' = intPending \ {p}
  /\ pending' = pending \cup {"CHLD"}
  /\ UNCHANGED <<table, shell, member>>

\* mystop sends SIGTSTP to its own group.
StopSelf(p) ==
  /\ Running
  /\ life[p] = "run"
  /\ SignalGroup(p, "TSTP")
  /\ UNCHANGED <<table, shell>>

\* mysplit forks a second process into its group.
Split(p) ==
  /\ Running
  /\ p \in Splitters
  /\ life[p] = "run"
  /\ member[p] = "none"
  /\ member' = [member EXCEPT ![p] = "run"]
  /\ UNCHANGED <<table, shell, pending, life, unreported, intPending>>

MemberExit(p) ==
  /\ Running
  /\ member[p] = "run"
  /\ member' = [member EXCEPT ![p] = "none"]
  /\ UNCHANGED <<table, shell, pending, life, unreported, intPending>>

ChildStep(p) ==
  \/ Setpgid(p)
  \/ Execve(p)
  \/ Exit(p)
  \/ StopSelf(p)
  \/ Split(p)
  \/ MemberExit(p)

\* ctrl-c and ctrl-z reach the shell's own group: the shell, and children before
\* setpgid, where the inherited handlers have no effect.
Keyboard(s) ==
  /\ Running
  /\ pending' = pending \cup {s}
  /\ UNCHANGED <<table, shell, kernel>>

Next ==
  \/ \E b \in BOOLEAN : Fork(b)
  \/ ForkFails
  \/ \E st \in {"FG", "BG"} : BgFg(st)
  \/ BgFgNoJob
  \/ Quit
  \/ MainStep
  \/ \E s \in {"INT", "TSTP", "CHLD"} : Deliver(s)
  \/ SigQuit
  \/ HandlerStep
  \/ \E p \in Pid : ChildStep(p)
  \/ \E s \in Keys : Keyboard(s)

Spec == Init /\ [][Next]_vars

\* The shell runs faster than the user types: the loop, and a handler at every
\* depth of nesting, may be interrupted by ctrl-c and ctrl-z again and again but
\* not for ever without a step of their own.  The kernel delivers every
\* deliverable signal before it returns to the program, SIGCHLD included.
\* Nothing is assumed of the children and of the user.
Fairness ==
  /\ SF_vars(MainStep)
  /\ SF_vars(Deliver("CHLD"))
  /\ \A depth \in 1..3 : SF_vars(Len(frames) = depth /\ HandlerStep)

FairSpec == Spec /\ Fairness

-----------------------------------------------------------------------------
(* Properties.                                                             *)

\* At most one job is in the foreground state, the promise of the head comment:
\* fg, eval, waitfg and the handlers together never make a second one.
AtMostOneFG == \A i, j \in FgSlots(jobs) : i = j

\* The user is prompted, and a program is launched, only while no job has the
\* foreground: waitfg does not return early.
PromptMeansNoForeground == pc \in {"prompt", "addjob"} => FgSlots(jobs) = {}

\* The list holds exactly the children that are not yet reaped, each once, save
\* the one eval has forked and not yet added.  So sigchld_handler never reports
\* a child it cannot find, and no job outlives its process.
TableMatchesChildren ==
  status = "running" =>
    /\ {jobs[i].pid : i \in Slot} \ {NoPid} =
         {p \in Pid : life[p] # "none"} \ (IF pc = "addjob" THEN {pid} ELSE {})
    /\ \A i, j \in Slot : jobs[i].pid = jobs[j].pid /\ jobs[i].pid # NoPid => i = j

\* The state in the list is the state of the process: what is listed as stopped
\* is stopped or dead, and a stop that was reported is listed until fg or bg
\* lifts it.
StoppedIsListed ==
  status = "running" =>
    \A i \in Slot :
      LET p == jobs[i].pid IN
      p \in Pid =>
        /\ jobs[i].state = "ST" => life[p] \in {"stop", "zombie"}
        /\ life[p] = "stop" /\ p \notin unreported =>
             jobs[i].state = "ST" \/ (pc = "cont" /\ job = i)

\* fg and bg continue the job they looked up: it cannot be reaped, or its slot
\* given to another, before Kill.
ContinueFindsJob ==
  status = "running" /\ pc = "cont" =>
    jobs[job].pid \in Pid /\ life[jobs[job].pid] # "none"

\* ctrl-c and ctrl-z hit the job that had the foreground when the handler ran,
\* whatever sigchld_handler does between fgpid and Kill_sio: never a job that
\* runs in the background.
ForwardSparesBackground ==
  status = "running" =>
    \A k \in 1..Len(frames) : frames[k].at = "kill" =>
      \A i \in Slot : jobs[i].pid = frames[k].pid => jobs[i].state # "BG"

\* A stopped job has no process that still runs: ctrl-z stops the whole group.
StoppedJobIsQuiet == \A p \in Pid : life[p] = "stop" => member[p] # "run"

\* The shell follows a NULL job in one case only: eval has one more child than
\* the list has slots.  All else finds the job it looks for: sigchld_handler the
\* child that waitpid reports, eval the job it has added.
CrashOnlyWhenFull ==
  status = "segv" => /\ pid \in Pid
                     /\ \A i \in Slot : jobs[i].pid \in Pid \ {pid}

\* The shell implements the abstract job control.
JobStateOf(p) ==
  LET i == getjobpid(jobs, p) IN IF i = 0 THEN "none" ELSE jobs[i].state

Control == INSTANCE JobControl WITH state <- [p \in Pid |-> JobStateOf(p)]

\* Every step of the shell is a step of the abstract job control, or none.
ImplementsJobControl == Control!Spec

\* A foreground job that ended or stopped gives the prompt back: no SIGCHLD is
\* lost between the test of waitfg and sigsuspend.
ForegroundReturns ==
  \A p \in Pid :
    (Running /\ pc \in {"waitfg", "suspended"} /\ pid = p
       /\ Waitable(p))
      ~> (pc = "prompt" \/ ~ Running)

\* Every child that ends is reaped, as the comment on sigchld_handler says.
ZombiesReaped ==
  \A p \in Pid : (Running /\ Dead(p)) ~> (life[p] = "none" \/ ~ Running)

\* fg and bg restart every stopped process of the job's group (trace13.txt).
GroupContinued ==
  [][Continue => life'[pid'] # "stop" /\ member'[pid'] # "stop"]_vars

\* Sending ctrl-c or ctrl-z along to the foreground job never ends the shell.
ForwardKeepsShell == [][Forward => status' = "running"]_vars
=============================================================================
