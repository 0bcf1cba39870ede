------------------------------ MODULE JobTable ------------------------------
(***************************************************************************)
(* The job list of the tiny shell, src/Lab5_shelllab/tsh.c: the array jobs *)
(* of MAXJOBS slots, the counter nextjid, and the helpers that search and  *)
(* change them.  A pointer into the array is a slot number, 0 is NULL.     *)
(* The command line kept in a job is never read by a decision and is left  *)
(* out.                                                                    *)
(***************************************************************************)
EXTENDS Integers, FiniteSets

CONSTANTS
  MAXJOBS,   \* slots of the job list
  Pid,       \* process ids the kernel hands out to children
  NoPid      \* pid 0: the mark of an empty slot, and "no such job"

ASSUME MAXJOBSAssumption == MAXJOBS \in Nat \ {0}
ASSUME PidAssumption == NoPid \notin Pid

VARIABLES
  jobs,      \* the job list, one record per slot
  nextjid    \* next job ID to allocate

Slot == 1..MAXJOBS
JobState == {"UNDEF", "FG", "BG", "ST"}

Job == [pid : Pid \cup {NoPid}, jid : Nat, state : JobState]

\* Mutant: clearjob marks the job ID with -1.
EmptyJobMinusOne == [pid |-> NoPid, jid |-> -1, state |-> "UNDEF"]

\* The contents clearjob leaves in a slot.
EmptyJob == [pid |-> NoPid, jid |-> 0, state |-> "UNDEF"]

InitJobs ==
  /\ jobs = [i \in Slot |-> EmptyJob]
  /\ nextjid = 1

\* Every search of the list scans it upwards and stops at the first match.
First(S) == CHOOSE i \in S : \A j \in S : i <= j

FirstOrNull(S) == IF S = {} THEN 0 ELSE First(S)

getjobpid(js, p) ==
  IF p \in Pid THEN FirstOrNull({i \in Slot : js[i].pid = p}) ELSE 0

getjobjid(js, n) ==
  IF n >= 1 THEN FirstOrNull({i \in Slot : js[i].jid = n}) ELSE 0

\* Mutant: every job that is not stopped counts as the foreground job.
FgSlotsRunning(js) == {i \in Slot : js[i].state \in {"FG", "BG"}}

FgSlots(js) == {i \in Slot : js[i].state = "FG"}

fgpid(js) ==
  IF FgSlots(js) = {} THEN NoPid ELSE js[First(FgSlots(js))].pid

Jids(js) == {js[i].jid : i \in Slot} \cup {0}

maxjid(js) == CHOOSE m \in Jids(js) : \A n \in Jids(js) : n <= m

\* Mutant: the scan ends before the last slot.
FreeSlotsButLast(js) == {i \in Slot : js[i].pid = NoPid /\ i < MAXJOBS}

FreeSlots(js) == {i \in Slot : js[i].pid = NoPid}

\* nextjid after one more allocation: it wraps at MAXJOBS, whatever job IDs
\* are still in use.
WrapJid(n) == IF n > MAXJOBS THEN 1 ELSE n

\* A full list leaves everything as it was (addjob reports it and returns 0).
addjob(p, st) ==
  LET i == FirstOrNull(FreeSlots(jobs)) IN
  IF i = 0
    THEN UNCHANGED <<jobs, nextjid>>
    ELSE /\ jobs' = [jobs EXCEPT ![i] =
                       [pid |-> p, jid |-> nextjid, state |-> st]]
         /\ nextjid' = WrapJid(nextjid + 1)

\* Mutant: the slot is marked UNDEF and not cleared.
deletejobKeepsPid(p) ==
  LET i == getjobpid(jobs, p) IN
  /\ jobs' = [jobs EXCEPT ![i].state = "UNDEF"]
  /\ UNCHANGED nextjid

deletejob(p) ==
  LET i == getjobpid(jobs, p) IN
  IF i = 0
    THEN UNCHANGED <<jobs, nextjid>>
    ELSE /\ jobs' = [jobs EXCEPT ![i] = EmptyJob]
         /\ nextjid' = maxjid(jobs') + 1

\* Mutant: a stop is recorded for the foreground job only, as the diagram in
\* the head comment has it.
setstateDiagram(i, st) ==
  IF st = "ST" /\ jobs[i].state = "BG"
    THEN UNCHANGED <<jobs, nextjid>>
    ELSE jobs' = [jobs EXCEPT ![i].state = st] /\ UNCHANGED nextjid

\* job->state = st
setstate(i, st) ==
  /\ jobs' = [jobs EXCEPT ![i].state = st]
  /\ UNCHANGED nextjid
=============================================================================
