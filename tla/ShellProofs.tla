----------------------------- MODULE ShellProofs -----------------------------
(***************************************************************************)
(* Safety of the shell for every job list size, every set of processes and *)
(* every choice of commands: what the helpers of JobTable return and do to *)
(* the list, type correctness, the inductive invariant of ShellInv, what   *)
(* follows from it, and the refinement of JobControl.                      *)
(***************************************************************************)
EXTENDS ShellInv, FiniteSetTheorems, WellFoundedInduction, TLAPS

-----------------------------------------------------------------------------
(* The job list. *)
\* A scan that finds a match stops at the least one.
LEMMA FirstIsLeast ==
  ASSUME NEW S \in SUBSET Nat, S # {}
  PROVE  First(S) \in S /\ \A j \in S : First(S) <= j
<1> DEFINE R == OpToRel(<, Nat)
<1>1. IsWellFoundedOn(R, Nat)
  BY NatLessThanWellFounded
<1>2. \A x, y \in Nat : <<x, y>> \in R <=> x < y
  BY DEF OpToRel
<1> HIDE DEF R
<1>3. \E x \in S : \A y \in S : ~ (<<y, x>> \in R)
  BY <1>1, WFMin, Zenon
<1>4. \E i \in S : \A j \in S : i <= j
  <2>1. PICK x \in S : \A y \in S : ~ (<<y, x>> \in R)
    BY <1>3, Zenon
  <2>2. \A j \in S : ~ (j < x)
    BY <1>2, <2>1
  <2> QED
    BY <2>2
<1> QED
  BY <1>4 DEF First

\* The scans of getjobpid, getjobjid and addjob return NULL or a matching slot.
LEMMA FirstOrNullOfSlots ==
  ASSUME NEW S \in SUBSET Slot
  PROVE  /\ S = {} => FirstOrNull(S) = 0
         /\ S # {} => FirstOrNull(S) \in S
<1>1. S \in SUBSET Nat
  BY MAXJOBSAssumption DEF Slot
<1>2. S # {} => First(S) \in S
  BY <1>1, FirstIsLeast
<1> QED
  BY <1>2 DEF FirstOrNull

\* maxjid returns a job ID in use, or 0, that no other exceeds.
LEMMA MaxjidIsLargest ==
  ASSUME NEW js \in [Slot -> Job]
  PROVE  maxjid(js) \in Nat /\ \A i \in Slot : js[i].jid <= maxjid(js)
<1> DEFINE Above(j) == {i \in Slot : js[i].jid > js[j].jid}
           Sizes == {Cardinality(Above(j)) : j \in Slot}
<1>1. \A i \in Slot : js[i].jid \in Nat
  BY DEF Job
<1>2. IsFiniteSet(Slot) /\ Slot # {}
  <2>1. 1 \in Int /\ MAXJOBS \in Int /\ 1 \in Slot
    BY MAXJOBSAssumption DEF Slot
  <2>2. IsFiniteSet(1..MAXJOBS)
    BY <2>1, FS_Interval, Zenon
  <2> QED
    BY <2>1, <2>2 DEF Slot
<1>3. \A j \in Slot : IsFiniteSet(Above(j)) /\ Cardinality(Above(j)) \in Nat
  <2> TAKE j \in Slot
  <2>1. Above(j) \in SUBSET Slot
    OBVIOUS
  <2>2. IsFiniteSet(Above(j))
    BY <1>2, <2>1, FS_Subset, Zenon
  <2> QED
    BY <2>2, FS_CardinalityType, Zenon
<1>4. Sizes \in SUBSET Nat /\ Sizes # {}
  BY <1>2, <1>3
<1>5. PICK j \in Slot : \A k \in Slot : Cardinality(Above(j)) <= Cardinality(Above(k))
  <2>1. First(Sizes) \in Sizes /\ \A n \in Sizes : First(Sizes) <= n
    BY <1>4, FirstIsLeast
  <2> QED
    BY <2>1
<1>6. \A k \in Slot : js[k].jid <= js[j].jid
  <2> SUFFICES ASSUME NEW k \in Slot, ~ (js[k].jid <= js[j].jid)
               PROVE  FALSE
    OBVIOUS
  <2>1. Above(k) \in SUBSET Above(j) /\ Above(k) # Above(j)
    BY <1>1
  <2>2. Cardinality(Above(k)) < Cardinality(Above(j))
    <3> HIDE DEF Above
    <3>1. /\ Cardinality(Above(k)) <= Cardinality(Above(j))
          /\ Cardinality(Above(k)) = Cardinality(Above(j)) => Above(k) = Above(j)
      BY <1>3, <2>1, FS_Subset
    <3> QED
      BY <1>3, <2>1, <3>1
  <2> HIDE DEF Above
  <2> QED
    BY <1>3, <1>5, <2>2
<1>7. \E m \in Jids(js) : \A n \in Jids(js) : n <= m
  BY <1>1, <1>6 DEF Jids
<1>8. Jids(js) \in SUBSET Nat
  BY <1>1 DEF Jids
<1> QED
  BY <1>7, <1>8 DEF maxjid, Jids

\* getjobpid finds a slot that holds the process, if there is one.
LEMMA GetjobpidFinds ==
  ASSUME NEW js \in [Slot -> Job], NEW p \in Pid
  PROVE  /\ getjobpid(js, p) \in Slot \cup {0}
         /\ getjobpid(js, p) # 0 => js[getjobpid(js, p)].pid = p
         /\ getjobpid(js, p) = 0 => \A i \in Slot : js[i].pid # p
<1> DEFINE S == {i \in Slot : js[i].pid = p}
<1>1. S = {} => FirstOrNull(S) = 0
  BY FirstOrNullOfSlots
<1>2. S # {} => FirstOrNull(S) \in S
  BY FirstOrNullOfSlots
<1>3. 0 \notin Slot
  BY MAXJOBSAssumption DEF Slot
<1> QED
  BY <1>1, <1>2, <1>3 DEF getjobpid

\* fgpid returns the pid of a foreground job, if there is one.
LEMMA FgpidFinds ==
  ASSUME NEW js \in [Slot -> Job]
  PROVE  /\ fgpid(js) \in Pid \cup {NoPid}
         /\ FgSlots(js) # {} => \E i \in FgSlots(js) : fgpid(js) = js[i].pid
<1>1. FgSlots(js) \in SUBSET Slot
  BY DEF FgSlots
<1>2. FgSlots(js) \in SUBSET Nat
  BY <1>1, MAXJOBSAssumption DEF Slot
<1>3. FgSlots(js) # {} => First(FgSlots(js)) \in FgSlots(js)
  BY <1>2, FirstIsLeast
<1> QED
  BY <1>1, <1>3 DEF fgpid, Job

\* addjob takes a free slot, or leaves a full list alone.
LEMMA AddjobTakesFreeSlot ==
  ASSUME jobs \in [Slot -> Job], nextjid \in Nat,
         NEW p \in Pid, NEW st \in JobState,
         addjob(p, st)
  PROVE  /\ nextjid' \in Nat
         /\ \/ FreeSlots(jobs) = {} /\ jobs' = jobs
            \/ \E i \in FreeSlots(jobs) :
                 jobs' = [jobs EXCEPT ![i] = [pid |-> p, jid |-> nextjid, state |-> st]]
<1>1. FreeSlots(jobs) \in SUBSET Slot
  BY DEF FreeSlots
<1>2. /\ FreeSlots(jobs) = {} => FirstOrNull(FreeSlots(jobs)) = 0
      /\ FreeSlots(jobs) # {} => FirstOrNull(FreeSlots(jobs)) \in FreeSlots(jobs)
  BY <1>1, FirstOrNullOfSlots
<1>3. 0 \notin Slot
  BY MAXJOBSAssumption DEF Slot
<1>4. CASE FreeSlots(jobs) = {}
  BY <1>2, <1>4 DEF addjob
<1>5. CASE FreeSlots(jobs) # {}
  BY <1>1, <1>2, <1>3, <1>5 DEF addjob, WrapJid
<1> QED
  BY <1>4, <1>5

\* deletejob of a listed process clears the slot getjobpid finds.
LEMMA DeletejobClearsSlot ==
  ASSUME jobs \in [Slot -> Job], NEW p \in Pid,
         getjobpid(jobs, p) # 0, deletejob(p)
  PROVE  /\ jobs' = [jobs EXCEPT ![getjobpid(jobs, p)] = EmptyJob]
         /\ jobs' \in [Slot -> Job]
         /\ nextjid' \in Nat
<1>1. jobs' = [jobs EXCEPT ![getjobpid(jobs, p)] = EmptyJob]
  BY DEF deletejob
<1>2. EmptyJob \in Job
  BY DEF EmptyJob, Job, JobState
<1>3. jobs' \in [Slot -> Job]
  BY <1>1, <1>2
<1>4. maxjid(jobs') \in Nat
  BY <1>3, MaxjidIsLargest
<1>5. nextjid' = maxjid(jobs') + 1
  BY DEF deletejob
<1> QED
  BY <1>1, <1>3, <1>4, <1>5

-----------------------------------------------------------------------------
(* The shell. *)
\* The innermost handler, and the stack below it.
LEMMA FramesShape ==
  ASSUME frames \in Seq(Frame), frames # <<>>
  PROVE  /\ frames[1] \in Frame
         /\ Tail(frames) \in Seq(Frame)
         /\ Len(frames) \in Nat \ {0}
         /\ 1 \in 1..Len(frames)
         /\ Len(Tail(frames)) = Len(frames) - 1
         /\ \A k \in 1..Len(Tail(frames)) : Tail(frames)[k] = frames[k + 1]
OBVIOUS

\* The kernel's answer to a signal sent to a group keeps its types.
LEMMA SignalGroupType ==
  ASSUME TypeOK, NEW p \in Pid, NEW s \in {"INT", "TSTP"}, SignalGroup(p, s)
  PROVE  /\ life' \in [Pid -> Life]
         /\ unreported' \in SUBSET Pid
         /\ intPending' \in SUBSET Pid
         /\ member' \in [Pid -> {"none", "run", "stop"}]
         /\ pending' \in SUBSET {"INT", "TSTP", "CHLD"}
<1>1. life' \in [Pid -> Life]
  BY DEF SignalGroup, TypeOK, Life
<1>2. member' \in [Pid -> {"none", "run", "stop"}]
  BY DEF SignalGroup, TypeOK
<1> QED
  BY <1>1, <1>2 DEF SignalGroup, TypeOK

LEMMA InitType == Init => TypeOK
<1> SUFFICES ASSUME Init PROVE TypeOK
  OBVIOUS
<1>1. jobs \in [Slot -> Job]
  BY DEF Init, InitJobs, EmptyJob, Job, JobState
<1>2. frames \in Seq(Frame)
  BY DEF Init
<1> QED
  BY <1>1, <1>2 DEF Init, InitJobs, TypeOK, Life, Signal

\* Types under the steps of the read/eval loop.
LEMMA MainType ==
  ASSUME TypeOK, LoopInv
  PROVE  /\ (\E b \in BOOLEAN : Fork(b)) => TypeOK'
         /\ ForkFails => TypeOK'
         /\ (\E st \in {"FG", "BG"} : BgFg(st)) => TypeOK'
         /\ BgFgNoJob => TypeOK'
         /\ Quit => TypeOK'
         /\ MainStep => TypeOK'
<1> USE DEF TypeOK
<1>1. ASSUME NEW b \in BOOLEAN, Fork(b) PROVE TypeOK'
  BY <1>1 DEF Fork, table, JobMask, Signal, Life
<1>2. ASSUME ForkFails PROVE TypeOK'
  BY <1>2 DEF ForkFails, table, main, kernel
<1>3. ASSUME NEW st \in {"FG", "BG"}, BgFg(st) PROVE TypeOK'
  <2>1. PICK i \in Argument \ {0} : setstate(i, st) /\ job' = i
    BY <1>3 DEF BgFg
  <2>2. jobs' \in [Slot -> Job]
    BY <2>1 DEF setstate, Job, JobState
  <2>3. Argument \subseteq Slot \cup {0}
    <3>1. \A n \in 1..MaxJid + 1 : getjobjid(jobs, n) \in Slot \cup {0}
      <4> TAKE n \in 1..MaxJid + 1
      <4> DEFINE S == {k \in Slot : jobs[k].jid = n}
      <4>1. FirstOrNull(S) \in S \cup {0}
        BY FirstOrNullOfSlots
      <4> QED
        BY <4>1 DEF getjobjid
    <3>2. \A p \in Pid : getjobpid(jobs, p) \in Slot \cup {0}
      BY GetjobpidFinds
    <3> QED
      BY <3>1, <3>2 DEF Argument
  <2> QED
    BY <1>3, <2>1, <2>2, <2>3 DEF BgFg, setstate, JobMask, Signal, kernel
<1>4. ASSUME BgFgNoJob PROVE TypeOK'
  BY <1>4 DEF BgFgNoJob, ToPrompt, table, JobMask, Signal, kernel
<1>5. ASSUME Quit PROVE TypeOK'
  BY <1>5 DEF Quit, table, main, kernel
<1>6. ASSUME AddJob PROVE TypeOK'
  <2>1. pid \in Pid
    BY <1>6 DEF AddJob, MainAt, LoopInv
  <2>2. (IF bg THEN "BG" ELSE "FG") \in JobState
    BY DEF JobState
  <2> DEFINE st == IF bg THEN "BG" ELSE "FG"
  <2>3. addjob(pid, st)
    BY <1>6 DEF AddJob
  <2>4. /\ nextjid' \in Nat
        /\ \/ jobs' = jobs
           \/ \E i \in FreeSlots(jobs) :
                jobs' = [jobs EXCEPT ![i] =
                           [pid |-> pid, jid |-> nextjid, state |-> st]]
    <3> HIDE DEF st
    <3> QED
      BY <2>1, <2>2, <2>3, AddjobTakesFreeSlot DEF st
  <2>5. [pid |-> pid, jid |-> nextjid, state |-> st] \in Job
    BY <2>1, <2>2 DEF Job
  <2>6. jobs' \in [Slot -> Job]
    <3> HIDE DEF st
    <3> QED
      BY <2>4, <2>5
  <2> QED
    BY <1>6, <2>4, <2>6 DEF AddJob, kernel
<1>7. ASSUME WaitFg PROVE TypeOK'
  BY <1>7 DEF WaitFg, table, kernel
<1>8. ASSUME Restore PROVE TypeOK'
  BY <1>8 DEF Restore, ToPrompt, table, kernel
<1>9. ASSUME Continue PROVE TypeOK'
  <2> DEFINE p == jobs[job].pid
  <2>1. CASE p \in Pid /\ life[p] # "none"
    <3>1. life' \in [Pid -> Life] /\ UNCHANGED member
      BY <1>9, <2>1 DEF Continue, SignalCont, kernel, Life
    <3> QED
      BY <1>9, <2>1, <3>1 DEF Continue, SignalCont, table, kernel
  <2>2. CASE ~ (p \in Pid /\ life[p] # "none")
    BY <1>9, <2>2 DEF Continue, table, kernel
  <2> QED
    BY <2>1, <2>2
<1> QED
  BY <1>1, <1>2, <1>3, <1>4, <1>5, <1>6, <1>7, <1>8, <1>9 DEF MainStep

\* Types under the steps of the handlers.
LEMMA HandlerType ==
  ASSUME TypeOK, KillInv
  PROVE  /\ (\E s \in {"INT", "TSTP", "CHLD"} : Deliver(s)) => TypeOK'
         /\ SigQuit => TypeOK'
         /\ HandlerStep => TypeOK'
<1> USE DEF TypeOK
<1>1. ASSUME NEW s \in {"INT", "TSTP", "CHLD"}, Deliver(s) PROVE TypeOK'
  <2> DEFINE f == [sig |-> s, at |-> "entry", pid |-> NoPid, saved |-> mask]
  <2>1. f \in Frame
    BY DEF Frame
  <2>2. frames' = <<f>> \o frames
    BY <1>1 DEF Deliver
  <2>3. frames' \in Seq(Frame)
    <3> HIDE DEF f
    <3> QED
      BY <2>1, <2>2
  <2>4. mask' \in SUBSET Signal
    BY <1>1 DEF Deliver, SuspendMask, Signal
  <2> QED
    BY <1>1, <2>3, <2>4 DEF Deliver, table, kernel
<1>2. ASSUME SigQuit PROVE TypeOK'
  BY <1>2 DEF SigQuit, table, main, kernel
<1>3. ASSUME ChldMask PROVE TypeOK'
  <2>1. frames # <<>> /\ frames' = [frames EXCEPT ![1].at = "loop"]
    BY <1>3 DEF ChldMask, HandlerAt
  <2>2. frames' \in Seq(Frame)
    <3>1. [frames[1] EXCEPT !.at = "loop"] \in Frame
      BY <2>1, FramesShape DEF Frame
    <3> QED
      BY <2>1, <3>1, FramesShape
  <2> QED
    BY <1>3, <2>2 DEF ChldMask, table, main, kernel
<1>4. ASSUME NEW p \in Pid, Reap(p) PROVE TypeOK'
  <2> DEFINE i == getjobpid(jobs, p)
  <2>1. life' \in [Pid -> Life] /\ unreported' \in SUBSET Pid
    BY <1>4 DEF Reap, Life
  <2>2. CASE i = 0
    BY <1>4, <2>1, <2>2 DEF Reap, main, table
  <2>3. CASE i # 0 /\ Dead(p)
    <3>1. deletejob(p) /\ UNCHANGED status
      BY <1>4, <2>3 DEF Reap
    <3>2. jobs' \in [Slot -> Job] /\ nextjid' \in Nat
      BY <2>3, <3>1, DeletejobClearsSlot
    <3> QED
      BY <1>4, <2>1, <3>1, <3>2 DEF Reap, main
  <2>4. CASE i # 0 /\ ~ Dead(p)
    <3>1. setstate(i, "ST") /\ UNCHANGED status
      BY <1>4, <2>4 DEF Reap
    <3>2. jobs' \in [Slot -> Job]
      BY <3>1 DEF setstate, Job, JobState
    <3> QED
      BY <1>4, <2>1, <3>1, <3>2 DEF Reap, main, setstate
  <2> QED
    BY <2>2, <2>3, <2>4
<1>5. ASSUME frames # <<>>, Return
      PROVE  mask' \in SUBSET Signal /\ frames' \in Seq(Frame)
  BY <1>5, FramesShape DEF Return, Frame
<1>6. ASSUME ChldReturn PROVE TypeOK'
  BY <1>5, <1>6 DEF ChldReturn, HandlerAt, table, main, kernel
<1>7. ASSUME ReadFg PROVE TypeOK'
  <2>1. fgpid(jobs) \in Pid \cup {NoPid}
    BY FgpidFinds
  <2>2. mask' \in SUBSET Signal /\ frames' \in Seq(Frame)
    <3>1. CASE fgpid(jobs) = NoPid
      BY <1>5, <1>7, <3>1 DEF ReadFg, HandlerAt
    <3>2. CASE fgpid(jobs) # NoPid
      <4>1. frames # <<>> /\ UNCHANGED mask
            /\ frames' = [frames EXCEPT ![1].at = "kill", ![1].pid = fgpid(jobs)]
        BY <1>7, <3>2 DEF ReadFg, HandlerAt
      <4>2. [[frames[1] EXCEPT !.at = "kill"] EXCEPT !.pid = fgpid(jobs)] \in Frame
        BY <2>1, <4>1, FramesShape DEF Frame
      <4>3. 1 \in 1..Len(frames)
        BY <4>1, FramesShape
      <4> DEFINE f == [[frames[1] EXCEPT !.at = "kill"] EXCEPT !.pid = fgpid(jobs)]
      <4>4. frames' = [frames EXCEPT ![1] = f]
        BY <4>1
      <4> HIDE DEF f
      <4>5. f \in Frame
        BY <4>2 DEF f
      <4>6. frames' \in Seq(Frame)
        BY <4>3, <4>4, <4>5
      <4> QED
        BY <4>1, <4>6
    <3> QED
      BY <3>1, <3>2
  <2> QED
    BY <1>7, <2>2 DEF ReadFg, table, main, kernel
<1>8. ASSUME Forward PROVE TypeOK'
  <2> DEFINE p == frames[1].pid
  <2>1. CASE GroupExists(p)
    <3>1. /\ frames # <<>>
          /\ frames[1].sig \in {"INT", "TSTP"}
          /\ SignalGroup(p, frames[1].sig) /\ Return /\ UNCHANGED status
      BY <1>8, <2>1 DEF Forward, HandlerAt, Kill_sio
    <3>2. p \in Pid
      BY <1>8, <3>1, FramesShape DEF KillInv, Forward, HandlerAt
    <3> HIDE DEF p
    <3>3. /\ life' \in [Pid -> Life]
          /\ unreported' \in SUBSET Pid
          /\ intPending' \in SUBSET Pid
          /\ member' \in [Pid -> {"none", "run", "stop"}]
          /\ pending' \in SUBSET {"INT", "TSTP", "CHLD"}
      BY <3>1, <3>2, SignalGroupType
    <3> QED
      BY <1>5, <1>8, <3>1, <3>3 DEF Forward, table, main
  <2>2. CASE ~ GroupExists(p)
    BY <1>8, <2>2 DEF Forward, table, main, kernel
  <2> QED
    BY <2>1, <2>2
<1> QED
  BY <1>1, <1>2, <1>3, <1>4, <1>6, <1>7, <1>8 DEF HandlerStep

\* Types under the steps of the children and the user.
LEMMA EnvironmentType ==
  ASSUME TypeOK
  PROVE  /\ (\E p \in Pid : ChildStep(p)) => TypeOK'
         /\ (\E s \in Keys : Keyboard(s)) => TypeOK'
<1> USE DEF TypeOK
<1>1. ASSUME NEW p \in Pid, Setpgid(p) PROVE TypeOK'
  BY <1>1 DEF Setpgid, table, shell, main, Life
<1>2. ASSUME NEW p \in Pid, Execve(p) PROVE TypeOK'
  BY <1>2 DEF Execve, table, shell, main, Life
<1>3. ASSUME NEW p \in Pid, Exit(p) PROVE TypeOK'
  BY <1>3 DEF Exit, table, shell, main, Life
<1>4. ASSUME NEW p \in Pid, StopSelf(p) PROVE TypeOK'
  BY <1>4, SignalGroupType DEF StopSelf, table, shell, main
<1>5. ASSUME NEW p \in Pid, Split(p) PROVE TypeOK'
  BY <1>5 DEF Split, table, shell, main
<1>6. ASSUME NEW p \in Pid, MemberExit(p) PROVE TypeOK'
  BY <1>6 DEF MemberExit, table, shell, main
<1>7. ASSUME NEW s \in Keys, Keyboard(s) PROVE TypeOK'
  BY <1>7, KeysAssumption DEF Keyboard, table, shell, main, kernel
<1> QED
  BY <1>1, <1>2, <1>3, <1>4, <1>5, <1>6, <1>7 DEF ChildStep

-----------------------------------------------------------------------------
\* A step that leaves the list and the loop alone keeps who has the foreground.
LEMMA LoopUnchanged ==
  ASSUME AtMostOneFG, LoopInv, UNCHANGED <<table, main>>
  PROVE  AtMostOneFG' /\ LoopInv'
BY DEF AtMostOneFG, LoopInv, FgSlots, table, main

\* A step that only takes jobs out of the foreground keeps it as well.
LEMMA LoopFewerFg ==
  ASSUME AtMostOneFG, LoopInv, UNCHANGED main,
         \A i \in Slot : jobs'[i].state = "FG" =>
           jobs[i].state = "FG" /\ jobs'[i].pid = jobs[i].pid
  PROVE  AtMostOneFG' /\ LoopInv'
<1>1. FgSlots(jobs)' \subseteq FgSlots(jobs)
  BY DEF FgSlots
<1>2. \A i \in FgSlots(jobs)' : jobs'[i].pid = jobs[i].pid
  BY DEF FgSlots
<1> QED
  BY <1>1, <1>2 DEF AtMostOneFG, LoopInv, main

\* The read/eval loop keeps at most one foreground job, the one it waits for.
LEMMA MainLoop ==
  ASSUME TypeOK, AtMostOneFG, LoopInv
  PROVE  /\ (\E b \in BOOLEAN : Fork(b)) => AtMostOneFG' /\ LoopInv'
         /\ (\E st \in {"FG", "BG"} : BgFg(st)) => AtMostOneFG' /\ LoopInv'
         /\ BgFgNoJob => AtMostOneFG' /\ LoopInv'
         /\ MainStep => AtMostOneFG' /\ LoopInv'
<1>1. ASSUME NEW b \in BOOLEAN, Fork(b) PROVE AtMostOneFG' /\ LoopInv'
  BY <1>1 DEF Fork, MainAt, AtMostOneFG, LoopInv, FgSlots, table
<1>2. ASSUME NEW st \in {"FG", "BG"}, BgFg(st) PROVE AtMostOneFG' /\ LoopInv'
  <2>1. PICK i \in Argument \ {0} : setstate(i, st) /\ job' = i
    BY <1>2 DEF BgFg
  <2>2. FgSlots(jobs) = {}
    BY <1>2 DEF BgFg, MainAt, LoopInv
  <2>3. TypeOK'
    BY <1>2, MainType
  <2>4. i \in Slot
    BY <2>1, <2>3 DEF TypeOK
  <2>5. \A j \in FgSlots(jobs)' : j = i
    BY <2>1, <2>2, <2>4 DEF FgSlots, setstate, TypeOK
  <2>6. pc' = "cont"
    BY <1>2 DEF BgFg
  <2> QED
    BY <2>1, <2>4, <2>5, <2>6 DEF AtMostOneFG, LoopInv
<1>3. ASSUME BgFgNoJob PROVE AtMostOneFG' /\ LoopInv'
  BY <1>3 DEF BgFgNoJob, ToPrompt, MainAt, AtMostOneFG, LoopInv, FgSlots, table
<1>4. ASSUME AddJob PROVE AtMostOneFG' /\ LoopInv'
  <2>1. FgSlots(jobs) = {} /\ pid \in Pid
    BY <1>4 DEF AddJob, MainAt, LoopInv
  <2> DEFINE st == IF bg THEN "BG" ELSE "FG"
             new == [pid |-> pid, jid |-> nextjid, state |-> st]
  <2>2. addjob(pid, st)
    BY <1>4 DEF AddJob
  <2>3. \/ jobs' = jobs
        \/ \E i \in FreeSlots(jobs) : jobs' = [jobs EXCEPT ![i] = new]
    <3>1. st \in JobState
      BY DEF JobState
    <3> HIDE DEF st
    <3> QED
      BY <2>1, <2>2, <3>1, AddjobTakesFreeSlot DEF TypeOK
  <2>4. pc' = (IF bg THEN "restore" ELSE "waitfg") /\ pid' = pid
    BY <1>4 DEF AddJob
  <2>5. CASE jobs' = jobs
    BY <2>1, <2>4, <2>5 DEF AtMostOneFG, LoopInv, FgSlots
  <2>6. CASE \E i \in FreeSlots(jobs) : jobs' = [jobs EXCEPT ![i] = new]
    <3>1. PICK i \in FreeSlots(jobs) : jobs' = [jobs EXCEPT ![i] = new]
      BY <2>6
    <3>2. i \in Slot
      BY <3>1 DEF FreeSlots
    <3>3. jobs'[i] = new /\ \A j \in Slot : j # i => jobs'[j] = jobs[j]
      BY <3>1, <3>2 DEF TypeOK
    <3>4. \A j \in FgSlots(jobs)' : j = i
      BY <2>1, <3>3 DEF FgSlots
    <3>5. bg => FgSlots(jobs)' = {}
      BY <3>3, <3>4 DEF FgSlots
    <3>6. jobs'[i].pid = pid
      BY <3>3
    <3> QED
      BY <2>4, <3>4, <3>5, <3>6 DEF AtMostOneFG, LoopInv
  <2> QED
    BY <2>3, <2>5, <2>6
<1>5. ASSUME WaitFg PROVE AtMostOneFG' /\ LoopInv'
  <2>1. \A i \in FgSlots(jobs) : jobs[i].pid = pid
    BY <1>5 DEF WaitFg, MainAt, LoopInv
  <2>2. FgSlots(jobs) # {} => fgpid(jobs) = pid
    BY <2>1, FgpidFinds DEF TypeOK
  <2>3. UNCHANGED <<jobs, pid>> /\ FgSlots(jobs)' = FgSlots(jobs)
    BY <1>5 DEF WaitFg, table, FgSlots
  <2>4. pc' = IF pid = fgpid(jobs) THEN "suspended" ELSE "restore"
    BY <1>5 DEF WaitFg, StillForeground
  <2> QED
    BY <2>1, <2>2, <2>3, <2>4 DEF AtMostOneFG, LoopInv
<1>6. ASSUME Restore PROVE AtMostOneFG' /\ LoopInv'
  BY <1>6 DEF Restore, ToPrompt, MainAt, AtMostOneFG, LoopInv, FgSlots, table
<1>7. ASSUME Continue PROVE AtMostOneFG' /\ LoopInv'
  <2>1. job \in Slot /\ \A i \in FgSlots(jobs) : i = job
    BY <1>7 DEF Continue, MainAt, LoopInv
  <2>2. UNCHANGED <<jobs, job>> /\ FgSlots(jobs)' = FgSlots(jobs)
    BY <1>7 DEF Continue, table, FgSlots
  <2>3. \/ UNCHANGED <<pid, pc>>
        \/ /\ pid' = jobs[job].pid
           /\ pc' = IF jobs[job].state = "FG" THEN "waitfg" ELSE "restore"
    BY <1>7 DEF Continue
  <2>4. CASE UNCHANGED <<pid, pc>>
    BY <2>2, <2>4 DEF AtMostOneFG, LoopInv
  <2>5. CASE /\ pid' = jobs[job].pid
             /\ pc' = IF jobs[job].state = "FG" THEN "waitfg" ELSE "restore"
    <3>1. jobs[job].state # "FG" => FgSlots(jobs) = {}
      BY <2>1 DEF FgSlots
    <3> QED
      BY <2>1, <2>2, <2>5, <3>1 DEF AtMostOneFG, LoopInv
  <2> QED
    BY <2>3, <2>4, <2>5
<1> QED
  BY <1>1, <1>2, <1>3, <1>4, <1>5, <1>6, <1>7 DEF MainStep

\* sigchld_handler only takes jobs out of the foreground.
LEMMA ReapFewerFg ==
  ASSUME TypeOK, NEW p \in Pid, Reap(p)
  PROVE  \A i \in Slot : jobs'[i].state = "FG" =>
           jobs[i].state = "FG" /\ jobs'[i].pid = jobs[i].pid
<1> DEFINE i == getjobpid(jobs, p)
<1>1. CASE i = 0
  BY <1>1 DEF Reap, table
<1>2. CASE i # 0 /\ Dead(p)
  <2>1. jobs' = [jobs EXCEPT ![i] = EmptyJob]
    BY <1>2, DeletejobClearsSlot DEF Reap, TypeOK
  <2> QED
    BY <2>1 DEF EmptyJob, TypeOK
<1>3. CASE i # 0 /\ ~ Dead(p)
  <2>1. jobs' = [jobs EXCEPT ![i].state = "ST"]
    BY <1>3 DEF Reap, setstate
  <2>2. i \in Slot
    BY <1>3, GetjobpidFinds DEF TypeOK
  <2> HIDE DEF i
  <2>3. jobs \in [Slot -> Job]
    BY DEF TypeOK
  <2>4. jobs'[i].state = "ST" /\ \A j \in Slot : j # i => jobs'[j] = jobs[j]
    BY <2>1, <2>2, <2>3 DEF Job
  <2> QED
    BY <2>4
<1> QED
  BY <1>1, <1>2, <1>3

\* Every step keeps at most one foreground job, where the loop expects it.
LEMMA LoopStep ==
  ASSUME TypeOK, AtMostOneFG, LoopInv, [Next]_vars
  PROVE  AtMostOneFG' /\ LoopInv'
<1> USE DEF table, main, shell, kernel
<1>1. CASE \E b \in BOOLEAN : Fork(b)
  BY <1>1, MainLoop
<1>2. CASE ForkFails
  BY <1>2, LoopUnchanged DEF ForkFails
<1>3. CASE \E st \in {"FG", "BG"} : BgFg(st)
  BY <1>3, MainLoop
<1>4. CASE BgFgNoJob
  BY <1>4, MainLoop
<1>5. CASE Quit
  BY <1>5, LoopUnchanged DEF Quit
<1>6. CASE MainStep
  BY <1>6, MainLoop
<1>7. CASE \E s \in {"INT", "TSTP", "CHLD"} : Deliver(s)
  BY <1>7 DEF Deliver, AtMostOneFG, LoopInv, FgSlots
<1>8. CASE SigQuit
  BY <1>8, LoopUnchanged DEF SigQuit
<1>9. CASE HandlerStep
  <2>1. CASE ChldMask
    BY <2>1, LoopUnchanged DEF ChldMask
  <2>2. ASSUME NEW p \in Pid, Reap(p) PROVE AtMostOneFG' /\ LoopInv'
    BY <2>2, ReapFewerFg, LoopFewerFg DEF Reap
  <2>3. CASE ChldReturn
    BY <2>3, LoopUnchanged DEF ChldReturn
  <2>4. CASE ReadFg
    BY <2>4, LoopUnchanged DEF ReadFg
  <2>5. CASE Forward
    BY <2>5, LoopUnchanged DEF Forward
  <2> QED
    BY <1>9, <2>1, <2>2, <2>3, <2>4, <2>5 DEF HandlerStep
<1>10. ASSUME NEW p \in Pid, ChildStep(p) PROVE AtMostOneFG' /\ LoopInv'
  <2>1. UNCHANGED <<table, shell>>
    BY <1>10 DEF ChildStep, Setpgid, Execve, Exit, StopSelf, Split, MemberExit
  <2> QED
    BY <2>1, LoopUnchanged
<1>11. CASE \E s \in Keys : Keyboard(s)
  BY <1>11, LoopUnchanged DEF Keyboard
<1>12. CASE UNCHANGED vars
  BY <1>12, LoopUnchanged DEF vars
<1> QED
  BY <1>1, <1>2, <1>3, <1>4, <1>5, <1>6, <1>7, <1>8, <1>9, <1>10, <1>11, <1>12
     DEF Next

-----------------------------------------------------------------------------
\* A handler's return uncovers the frames below it.
LEMMA ReturnFrames ==
  ASSUME TypeOK, MaskInv, SuspendInv, KillInv,
         frames # <<>>, Return, UNCHANGED main
  PROVE  MaskInv' /\ SuspendInv' /\ KillInv'
<1>1. /\ frames' = Tail(frames)
      /\ mask' = frames[1].saved
      /\ 1 \in 1..Len(frames)
      /\ Len(frames') = Len(frames) - 1
      /\ \A k \in 1..Len(frames') : frames'[k] = frames[k + 1]
  BY FramesShape DEF Return, TypeOK
<1>2. \A k \in 1..Len(frames') : k + 1 \in 1..Len(frames)
  BY <1>1, FramesShape DEF TypeOK
<1> QED
  BY <1>1, <1>2 DEF MaskInv, SuspendInv, KillInv, main

\* Marking the progress of the innermost handler.
LEMMA MarkFrames ==
  ASSUME TypeOK, MaskInv, SuspendInv, KillInv,
         frames # <<>>, UNCHANGED main,
         NEW f \in Frame, frames' = [frames EXCEPT ![1] = f],
         f.sig = frames[1].sig, f.saved = frames[1].saved,
         f.at = "kill" => f.pid \in Pid,
         "CHLD" \in mask => "CHLD" \in mask'
  PROVE  MaskInv' /\ SuspendInv' /\ KillInv'
<1>1. /\ Len(frames') = Len(frames)
      /\ 1 \in 1..Len(frames)
      /\ frames'[1] = f
      /\ \A k \in 1..Len(frames) : k # 1 => frames'[k] = frames[k]
  BY FramesShape DEF TypeOK
<1> QED
  BY <1>1 DEF MaskInv, SuspendInv, KillInv, main

\* Neither the loop, with no handler running, nor the environment disturbs them.
LEMMA KeepFrames ==
  ASSUME MaskInv, SuspendInv, KillInv, UNCHANGED <<pc, frames, mask>>
  PROVE  MaskInv' /\ SuspendInv' /\ KillInv'
BY DEF MaskInv, SuspendInv, KillInv

LEMMA NoFrames ==
  ASSUME frames = <<>>, UNCHANGED frames,
         pc' \in {"addjob", "cont"} => "CHLD" \in mask'
  PROVE  MaskInv' /\ SuspendInv' /\ KillInv'
BY DEF MaskInv, SuspendInv, KillInv

\* Delivery puts a frame on the stack.
LEMMA DeliverFrames ==
  ASSUME TypeOK, MaskInv, SuspendInv, KillInv,
         NEW s \in {"INT", "TSTP", "CHLD"}, Deliver(s)
  PROVE  MaskInv' /\ SuspendInv' /\ KillInv'
<1> DEFINE f == [sig |-> s, at |-> "entry", pid |-> NoPid, saved |-> mask]
<1>1. frames' = <<f>> \o frames
  BY DEF Deliver
<1>2. /\ f.sig = s /\ f.at = "entry" /\ f.saved = mask
  OBVIOUS
<1> HIDE DEF f
<1>3. /\ frames'[1] = f
      /\ Len(frames') = Len(frames) + 1
      /\ \A k \in 1..Len(frames') : k # 1 =>
           k - 1 \in 1..Len(frames) /\ frames'[k] = frames[k - 1]
  BY <1>1 DEF TypeOK
<1>4. KillInv'
  BY <1>2, <1>3 DEF KillInv
<1>5. pc' # "suspended"
  BY DEF Deliver
<1>6. ASSUME pc' \in {"addjob", "cont"}
      PROVE  /\ "CHLD" \in mask'
             /\ \A k \in 1..Len(frames') :
                  frames'[k].sig # "CHLD" /\ "CHLD" \in frames'[k].saved
  <2>1. pc' = pc /\ pc # "suspended"
    BY <1>6 DEF Deliver
  <2>2. /\ "CHLD" \in mask
        /\ \A k \in 1..Len(frames) :
             frames[k].sig # "CHLD" /\ "CHLD" \in frames[k].saved
    BY <1>6, <2>1 DEF MaskInv
  <2>3. s # "CHLD" /\ mask' = mask \cup {s}
    BY <2>1, <2>2 DEF Deliver
  <2> QED
    BY <1>2, <1>3, <2>2, <2>3
<1> QED
  BY <1>4, <1>5, <1>6 DEF MaskInv, SuspendInv

\* The masks and the handler stack stay as the loop needs them.
LEMMA FrameStep ==
  ASSUME TypeOK, MaskInv, SuspendInv, KillInv, [Next]_vars
  PROVE  MaskInv' /\ SuspendInv' /\ KillInv'
<1> USE DEF main, shell
<1>1. ASSUME NEW b \in BOOLEAN, Fork(b) PROVE MaskInv' /\ SuspendInv' /\ KillInv'
  BY <1>1, NoFrames DEF Fork, MainAt, JobMask
<1>2. CASE ForkFails
  BY <1>2, KeepFrames DEF ForkFails
<1>3. ASSUME NEW st \in {"FG", "BG"}, BgFg(st)
      PROVE  MaskInv' /\ SuspendInv' /\ KillInv'
  BY <1>3, NoFrames DEF BgFg, MainAt, JobMask
<1>4. CASE BgFgNoJob
  BY <1>4, NoFrames DEF BgFgNoJob, ToPrompt, MainAt
<1>5. CASE Quit
  BY <1>5, KeepFrames DEF Quit
<1>6. CASE MainStep
  <2>1. CASE AddJob
    BY <2>1, NoFrames DEF AddJob, MainAt
  <2>2. CASE WaitFg
    BY <2>2, NoFrames DEF WaitFg, MainAt
  <2>3. CASE Restore
    BY <2>3, NoFrames DEF Restore, ToPrompt, MainAt
  <2>4. CASE Continue
    <3>1. "CHLD" \in mask /\ frames = <<>> /\ UNCHANGED <<mask, frames>>
      BY <2>4 DEF Continue, MainAt, MaskInv
    <3> QED
      BY <3>1, NoFrames
  <2> QED
    BY <1>6, <2>1, <2>2, <2>3, <2>4 DEF MainStep
<1>7. CASE \E s \in {"INT", "TSTP", "CHLD"} : Deliver(s)
  BY <1>7, DeliverFrames
<1>8. CASE SigQuit
  BY <1>8, KeepFrames DEF SigQuit
<1>9. CASE HandlerStep
  <2>1. CASE ChldMask
    <3> DEFINE f == [frames[1] EXCEPT !.at = "loop"]
    <3>1. /\ frames # <<>> /\ UNCHANGED main /\ mask' = Signal
          /\ frames' = [frames EXCEPT ![1].at = "loop"]
      BY <2>1 DEF ChldMask, HandlerAt
    <3>2. frames[1] \in Frame
      BY <3>1, FramesShape DEF TypeOK
    <3>3. /\ f \in Frame /\ f.sig = frames[1].sig /\ f.saved = frames[1].saved
          /\ f.at = "loop"
      BY <3>2 DEF Frame
    <3>4. frames' = [frames EXCEPT ![1] = f]
      BY <3>1
    <3>5. "CHLD" \in mask'
      BY <3>1 DEF Signal
    <3> HIDE DEF f
    <3> QED
      BY <3>1, <3>3, <3>4, <3>5, MarkFrames
  <2>2. ASSUME NEW p \in Pid, Reap(p) PROVE MaskInv' /\ SuspendInv' /\ KillInv'
    BY <2>2, KeepFrames DEF Reap
  <2>3. CASE ChldReturn
    BY <2>3, ReturnFrames DEF ChldReturn, HandlerAt
  <2>4. CASE ReadFg
    <3>1. frames # <<>> /\ UNCHANGED main
      BY <2>4 DEF ReadFg, HandlerAt
    <3>2. CASE fgpid(jobs) = NoPid
      BY <2>4, <3>1, <3>2, ReturnFrames DEF ReadFg
    <3>3. CASE fgpid(jobs) # NoPid
      <4> DEFINE f == [[frames[1] EXCEPT !.at = "kill"] EXCEPT !.pid = fgpid(jobs)]
      <4>1. /\ UNCHANGED mask
            /\ frames' = [frames EXCEPT ![1].at = "kill", ![1].pid = fgpid(jobs)]
        BY <2>4, <3>3 DEF ReadFg
      <4>2. frames[1] \in Frame
        BY <3>1, FramesShape DEF TypeOK
      <4>3. fgpid(jobs) \in Pid
        BY <3>3, FgpidFinds DEF TypeOK
      <4>4. /\ f \in Frame /\ f.sig = frames[1].sig /\ f.saved = frames[1].saved
            /\ f.pid \in Pid
        BY <4>2, <4>3 DEF Frame
      <4>5. frames' = [frames EXCEPT ![1] = f]
        BY <4>1
      <4> HIDE DEF f
      <4> QED
        BY <3>1, <4>1, <4>4, <4>5, MarkFrames
    <3> QED
      BY <3>2, <3>3
  <2>5. CASE Forward
    <3>1. frames # <<>> /\ UNCHANGED main
      BY <2>5 DEF Forward, HandlerAt
    <3>2. Return \/ UNCHANGED <<frames, mask>>
      BY <2>5 DEF Forward
    <3> QED
      BY <3>1, <3>2, ReturnFrames, KeepFrames
  <2> QED
    BY <1>9, <2>1, <2>2, <2>3, <2>4, <2>5 DEF HandlerStep
<1>10. ASSUME NEW p \in Pid, ChildStep(p) PROVE MaskInv' /\ SuspendInv' /\ KillInv'
  <2>1. UNCHANGED shell
    BY <1>10 DEF ChildStep, Setpgid, Execve, Exit, StopSelf, Split, MemberExit
  <2> QED
    BY <2>1, KeepFrames
<1>11. CASE \E s \in Keys : Keyboard(s)
  BY <1>11, KeepFrames DEF Keyboard
<1>12. CASE UNCHANGED vars
  BY <1>12, KeepFrames DEF vars
<1> QED
  BY <1>1, <1>2, <1>3, <1>4, <1>5, <1>6, <1>7, <1>8, <1>9, <1>10, <1>11, <1>12
     DEF Next

-----------------------------------------------------------------------------
\* A step that changes no job, brings no child to life and buries none.
LEMMA ListUnchanged ==
  ASSUME TypeOK, LoopInv, ListInv, UNCHANGED <<table, pid, job, status>>,
         pc' = pc \/ (pc' \notin {"addjob", "cont"} /\ pc # "addjob"),
         \A p \in Pid : life'[p] = "none" <=> life[p] = "none",
         \A p \in unreported' : life'[p] # "none"
  PROVE  ListInv'
<1> SUFFICES ASSUME status' = "running" PROVE ListInv'
  BY DEF ListInv
<1>1. status = "running" /\ UNCHANGED jobs
  BY DEF table
<1>2. pc' = "addjob" <=> pc = "addjob"
  OBVIOUS
<1>3. pc' = "cont" => pc = "cont"
  OBVIOUS
<1>4. pc = "addjob" => pid \in Pid
  BY DEF LoopInv
<1> QED
  BY <1>1, <1>2, <1>3, <1>4 DEF ListInv

\* Signals bring no child to life and bury none.
LEMMA SignalGroupLife ==
  ASSUME TypeOK, ListInv, status = "running",
         NEW p \in Pid, NEW s \in {"INT", "TSTP"}, SignalGroup(p, s)
  PROVE  /\ \A q \in Pid : life'[q] = "none" <=> life[q] = "none"
         /\ \A q \in unreported' : life'[q] # "none"
<1>1. /\ \A q \in Pid : q # p => life'[q] = life[q]
      /\ life'[p] = life[p] \/ (life[p] = "run" /\ life'[p] \in {"zombie", "stop"})
  BY DEF SignalGroup, TypeOK
<1>2. \A q \in unreported' : q \in unreported \/ (q = p /\ life[p] = "run")
  BY DEF SignalGroup
<1>3. \A q \in unreported : q \in Pid /\ life[q] # "none"
  BY DEF ListInv, TypeOK
<1> QED
  BY <1>1, <1>2, <1>3

\* A job ID or a pid names only slots that hold a job.
LEMMA ArgumentNamesJob ==
  ASSUME TypeOK, ListInv, status = "running", NEW i \in Argument \ {0}
  PROVE  i \in Slot /\ jobs[i].pid \in Pid
<1>1. \A n \in 1..MaxJid + 1 :
        getjobjid(jobs, n) # 0 =>
          getjobjid(jobs, n) \in Slot /\ jobs[getjobjid(jobs, n)].jid = n
  <2> TAKE n \in 1..MaxJid + 1
  <2> DEFINE S == {j \in Slot : jobs[j].jid = n}
  <2>1. S = {} => FirstOrNull(S) = 0
    BY FirstOrNullOfSlots
  <2>2. S # {} => FirstOrNull(S) \in S
    BY FirstOrNullOfSlots
  <2>3. n >= 1
    BY MaxJidAssumption
  <2> QED
    BY <2>1, <2>2, <2>3 DEF getjobjid
<1>2. \A p \in Pid :
        getjobpid(jobs, p) # 0 =>
          getjobpid(jobs, p) \in Slot /\ jobs[getjobpid(jobs, p)].pid = p
  BY GetjobpidFinds DEF TypeOK
<1>3. \A j \in Slot : jobs[j].pid = NoPid => jobs[j].jid = 0
  BY DEF ListInv, EmptyJob
<1>4. \A j \in Slot : jobs[j].pid \in Pid \cup {NoPid}
  BY DEF TypeOK, Job
<1>5. CASE \E n \in 1..MaxJid + 1 : i = getjobjid(jobs, n)
  BY <1>1, <1>3, <1>4, <1>5, MaxJidAssumption
<1>6. CASE \E p \in Pid : i = getjobpid(jobs, p)
  BY <1>2, <1>6
<1> QED
  BY <1>5, <1>6 DEF Argument

\* Changing the state of a listed job changes neither pids nor job IDs.
LEMMA SetstatePids ==
  ASSUME jobs \in [Slot -> Job], NEW i \in Slot, NEW st \in JobState, setstate(i, st)
  PROVE  /\ jobs' \in [Slot -> Job]
         /\ \A j \in Slot : jobs'[j].pid = jobs[j].pid
         /\ \A j \in Slot : j # i => jobs'[j] = jobs[j]
         /\ jobs'[i].state = st
BY DEF setstate, Job

\* The list follows the children through the steps of the read/eval loop.
LEMMA MainList ==
  ASSUME BaseInv
  PROVE  /\ (\E b \in BOOLEAN : Fork(b)) => ListInv'
         /\ (\E st \in {"FG", "BG"} : BgFg(st)) => ListInv'
         /\ BgFgNoJob => ListInv'
         /\ MainStep => ListInv'
<1> USE DEF BaseInv
<1>1. ASSUME NEW b \in BOOLEAN, Fork(b) PROVE ListInv'
  <2>1. PICK p \in Pid : life[p] = "none" /\ pid' = p
                         /\ life' = [life EXCEPT ![p] = "forked"]
    BY <1>1 DEF Fork
  <2>2. /\ status = "running" /\ pc = "prompt" /\ pc' = "addjob"
        /\ UNCHANGED <<jobs, status, unreported>>
    BY <1>1 DEF Fork, MainAt, table
  <2>3. life'[p] = "forked" /\ \A q \in Pid : q # p => life'[q] = life[q]
    BY <2>1 DEF TypeOK
  <2>4. \A i \in Slot : jobs[i].pid # p
    BY <2>1, <2>2 DEF ListInv
  <2>5. \A q \in unreported : q \in Pid
    BY DEF TypeOK
  <2> QED
    BY <2>1, <2>2, <2>3, <2>4, <2>5 DEF ListInv
<1>2. ASSUME NEW st \in {"FG", "BG"}, BgFg(st) PROVE ListInv'
  <2>1. PICK i \in Argument \ {0} : setstate(i, st) /\ job' = i
    BY <1>2 DEF BgFg
  <2>2. /\ status = "running" /\ pc = "prompt" /\ pc' = "cont"
        /\ UNCHANGED <<status, life, unreported>>
    BY <1>2 DEF BgFg, MainAt, kernel
  <2>3. i \in Slot /\ jobs[i].pid \in Pid
    BY <2>2, ArgumentNamesJob
  <2>4. st \in JobState
    BY DEF JobState
  <2>5. /\ \A j \in Slot : jobs'[j].pid = jobs[j].pid
        /\ \A j \in Slot : j # i => jobs'[j] = jobs[j]
    BY <2>1, <2>3, <2>4, SetstatePids DEF TypeOK
  <2>6. \A j \in Slot : jobs'[j].pid = NoPid => jobs'[j] = EmptyJob
    BY <2>2, <2>3, <2>5, PidAssumption DEF ListInv
  <2> QED
    BY <2>1, <2>2, <2>3, <2>5, <2>6 DEF ListInv
<1>3. ASSUME BgFgNoJob PROVE ListInv'
  BY <1>3 DEF BgFgNoJob, ToPrompt, MainAt, table, kernel, ListInv
<1>4. ASSUME AddJob PROVE ListInv'
  <2> SUFFICES ASSUME status' = "running" PROVE ListInv'
    BY DEF ListInv
  <2>1. /\ status = "running" /\ pc = "addjob" /\ pc' \notin {"addjob", "cont"}
        /\ FreeSlots(jobs) # {}
        /\ UNCHANGED <<pid, life, unreported>>
    BY <1>4 DEF AddJob, MainAt, kernel
  <2>2. pid \in Pid /\ life[pid] # "none"
    BY <2>1 DEF LoopInv, ListInv
  <2> DEFINE st == IF bg THEN "BG" ELSE "FG"
             new == [pid |-> pid, jid |-> nextjid, state |-> st]
  <2>3. addjob(pid, st)
    BY <1>4 DEF AddJob
  <2>4. \E i \in FreeSlots(jobs) : jobs' = [jobs EXCEPT ![i] = new]
    <3>1. st \in JobState
      BY DEF JobState
    <3> HIDE DEF st
    <3> QED
      BY <2>1, <2>2, <2>3, <3>1, AddjobTakesFreeSlot DEF TypeOK
  <2>5. PICK i \in FreeSlots(jobs) : jobs' = [jobs EXCEPT ![i] = new]
    BY <2>4
  <2>6. i \in Slot /\ jobs[i].pid = NoPid
    BY <2>5 DEF FreeSlots
  <2>7. /\ jobs'[i].pid = pid
        /\ \A j \in Slot : j # i => jobs'[j] = jobs[j]
    BY <2>5, <2>6 DEF TypeOK
  <2>8. \A j \in Slot : jobs[j].pid # pid
    BY <2>1, <2>2 DEF ListInv
  <2>9. \A p \in Pid : life[p] # "none" => \E j \in Slot : jobs'[j].pid = p
    BY <2>1, <2>6, <2>7, PidAssumption DEF ListInv
  <2>10. \A j, k \in Slot :
           jobs'[j].pid = jobs'[k].pid /\ jobs'[j].pid # NoPid => j = k
    BY <2>1, <2>7, <2>8 DEF ListInv
  <2>11. \A j \in Slot : jobs'[j].pid = NoPid => jobs'[j] = EmptyJob
    BY <2>1, <2>2, <2>7, PidAssumption DEF ListInv
  <2>12. \A j \in Slot : jobs'[j].pid \in Pid => life[jobs'[j].pid] # "none"
    BY <2>1, <2>2, <2>7 DEF ListInv
  <2> QED
    BY <2>1, <2>9, <2>10, <2>11, <2>12 DEF ListInv
<1>5. ASSUME WaitFg PROVE ListInv'
  BY <1>5 DEF WaitFg, MainAt, table, kernel, ListInv
<1>6. ASSUME Restore PROVE ListInv'
  BY <1>6 DEF Restore, ToPrompt, MainAt, table, kernel, ListInv
<1>7. ASSUME Continue PROVE ListInv'
  <2> SUFFICES ASSUME status' = "running" PROVE ListInv'
    BY DEF ListInv
  <2> DEFINE p == jobs[job].pid
  <2>1. /\ p \in Pid /\ SignalCont(p)
        /\ status = "running" /\ pc = "cont" /\ pc' \notin {"addjob", "cont"}
        /\ UNCHANGED <<jobs, job, status>>
    BY <1>7 DEF Continue, MainAt, table
  <2>2. \A q \in Pid : life'[q] = "none" <=> life[q] = "none"
    <3> HIDE DEF p
    <3> QED
      BY <2>1 DEF SignalCont, kernel, TypeOK
  <2>3. \A q \in unreported' : q \in unreported
    BY <2>1 DEF SignalCont, kernel
  <2>4. \A q \in unreported' : life'[q] # "none"
    BY <2>1, <2>2, <2>3 DEF ListInv, TypeOK
  <2> QED
    BY <2>1, <2>2, <2>4 DEF ListInv
<1> QED
  BY <1>1, <1>2, <1>3, <1>4, <1>5, <1>6, <1>7 DEF MainStep

\* The list follows the children through a turn of sigchld_handler's loop.
LEMMA ReapList ==
  ASSUME BaseInv, NEW p \in Pid, Reap(p)
  PROVE  ListInv'
<1> USE DEF BaseInv
<1> SUFFICES ASSUME status' = "running" PROVE ListInv'
  BY DEF ListInv
<1> DEFINE i == getjobpid(jobs, p)
<1>1. /\ status = "running" /\ i # 0 /\ UNCHANGED <<pc, pid, job, status>>
      /\ life' = [life EXCEPT ![p] = IF Dead(p) THEN "none" ELSE @]
      /\ unreported' = unreported \ {p}
      /\ IF Dead(p) THEN deletejob(p) ELSE setstate(i, "ST")
  BY DEF Reap, HandlerAt, main
<1>2. pc \notin {"addjob", "cont"}
  <2>1. frames # <<>> /\ frames[1].sig = "CHLD" /\ 1 \in 1..Len(frames)
    BY FramesShape DEF Reap, HandlerAt, TypeOK
  <2> QED
    BY <2>1 DEF MaskInv
<1>3. i \in Slot /\ jobs[i].pid = p
  BY <1>1, GetjobpidFinds DEF TypeOK
<1>4. \A j \in Slot : j # i => jobs[j].pid # p
  BY <1>1, <1>3, PidAssumption DEF ListInv
<1>5. \A q \in unreported : q \in Pid /\ life[q] # "none"
  BY <1>1 DEF ListInv, TypeOK
<1>6. CASE Dead(p)
  <2>1. jobs' = [jobs EXCEPT ![i] = EmptyJob]
    BY <1>1, <1>6, DeletejobClearsSlot DEF TypeOK
  <2> HIDE DEF i
  <2>2. jobs'[i] = EmptyJob /\ \A j \in Slot : j # i => jobs'[j] = jobs[j]
    BY <1>3, <2>1 DEF TypeOK
  <2>3. life'[p] = "none" /\ \A q \in Pid : q # p => life'[q] = life[q]
    BY <1>1, <1>6 DEF TypeOK
  <2>4. jobs'[i].pid = NoPid
    BY <2>2 DEF EmptyJob
  <2>5. \A q \in Pid : life'[q] # "none" => \E j \in Slot : jobs'[j].pid = q
    BY <1>1, <1>2, <1>3, <2>2, <2>3 DEF ListInv
  <2>6. \A j \in Slot : jobs'[j].pid \in Pid => life'[jobs'[j].pid] # "none"
    BY <1>1, <1>4, <2>2, <2>3, <2>4, PidAssumption DEF ListInv
  <2>7. \A j, k \in Slot :
          jobs'[j].pid = jobs'[k].pid /\ jobs'[j].pid # NoPid => j = k
    BY <1>1, <2>2, <2>4 DEF ListInv
  <2>8. \A j \in Slot : jobs'[j].pid = NoPid => jobs'[j] = EmptyJob
    BY <1>1, <2>2 DEF ListInv
  <2>9. \A q \in unreported' : life'[q] # "none"
    BY <1>1, <1>5, <2>3
  <2> QED
    BY <1>1, <1>2, <2>5, <2>6, <2>7, <2>8, <2>9 DEF ListInv
<1>7. CASE ~ Dead(p)
  <2>1. setstate(i, "ST") /\ "ST" \in JobState
    BY <1>1, <1>7 DEF JobState
  <2> HIDE DEF i
  <2>2. /\ \A j \in Slot : jobs'[j].pid = jobs[j].pid
        /\ \A j \in Slot : j # i => jobs'[j] = jobs[j]
    BY <1>3, <2>1, SetstatePids DEF TypeOK
  <2>3. \A q \in Pid : life'[q] = life[q]
    BY <1>1, <1>7 DEF TypeOK
  <2>4. \A j \in Slot : jobs'[j].pid = NoPid => jobs'[j] = EmptyJob
    BY <1>1, <1>3, <2>2, PidAssumption DEF ListInv
  <2>5. \A q \in unreported' : life'[q] # "none"
    BY <1>1, <1>5, <2>3
  <2>6. \A j, k \in Slot :
          jobs'[j].pid = jobs'[k].pid /\ jobs'[j].pid # NoPid => j = k
    BY <1>1, <2>2 DEF ListInv
  <2>7. \A q \in Pid : life'[q] # "none" => \E j \in Slot : jobs'[j].pid = q
    BY <1>1, <1>2, <2>2, <2>3 DEF ListInv
  <2>8. \A j \in Slot : jobs'[j].pid \in Pid => life'[jobs'[j].pid] # "none"
    BY <1>1, <2>2, <2>3 DEF ListInv
  <2> QED
    BY <1>1, <1>2, <2>4, <2>5, <2>6, <2>7, <2>8 DEF ListInv
<1> QED
  BY <1>6, <1>7

\* The steps of the children keep the list right.
LEMMA ChildList ==
  ASSUME BaseInv, NEW p \in Pid, ChildStep(p)
  PROVE  ListInv'
<1> USE DEF BaseInv, table, shell, main
<1>1. \A q \in unreported : q \in Pid
  BY DEF TypeOK
<1> SUFFICES ASSUME status = "running" PROVE ListInv'
  BY DEF ChildStep, Setpgid, Execve, Exit, StopSelf, Split, MemberExit, Running
<1>2. \A q \in unreported : life[q] # "none"
  BY DEF ListInv
<1>3. CASE Setpgid(p)
  <2>1. \A q \in Pid : life'[q] = "none" <=> life[q] = "none"
    BY <1>3 DEF Setpgid, TypeOK
  <2> QED
    BY <1>1, <1>2, <1>3, <2>1, ListUnchanged DEF Setpgid
<1>4. CASE Execve(p)
  <2>1. \A q \in Pid : life'[q] = "none" <=> life[q] = "none"
    BY <1>4 DEF Execve, TypeOK
  <2> QED
    BY <1>1, <1>2, <1>4, <2>1, ListUnchanged DEF Execve
<1>5. CASE Exit(p)
  <2>1. \A q \in Pid : life'[q] = "none" <=> life[q] = "none"
    BY <1>5 DEF Exit, TypeOK
  <2> QED
    BY <1>1, <1>2, <1>5, <2>1, ListUnchanged DEF Exit
<1>6. CASE StopSelf(p)
  BY <1>6, SignalGroupLife, ListUnchanged DEF StopSelf
<1>7. CASE Split(p)
  BY <1>1, <1>2, <1>7, ListUnchanged DEF Split
<1>8. CASE MemberExit(p)
  BY <1>1, <1>2, <1>8, ListUnchanged DEF MemberExit
<1> QED
  BY <1>3, <1>4, <1>5, <1>6, <1>7, <1>8 DEF ChildStep

\* Every step keeps the list and the children in agreement.
LEMMA ListStep ==
  ASSUME BaseInv, [Next]_vars
  PROVE  ListInv'
<1> USE DEF BaseInv, table, main, shell, kernel
<1>1. CASE \E b \in BOOLEAN : Fork(b)
  BY <1>1, MainList
<1>2. CASE ForkFails
  BY <1>2 DEF ForkFails, ListInv
<1>3. CASE \E st \in {"FG", "BG"} : BgFg(st)
  BY <1>3, MainList
<1>4. CASE BgFgNoJob
  BY <1>4, MainList
<1>5. CASE Quit
  BY <1>5 DEF Quit, ListInv
<1>6. CASE MainStep
  BY <1>6, MainList
<1>7. CASE \E s \in {"INT", "TSTP", "CHLD"} : Deliver(s)
  BY <1>7 DEF Deliver, ListInv
<1>8. CASE SigQuit
  BY <1>8 DEF SigQuit, ListInv
<1>9. CASE HandlerStep
  <2>1. CASE ChldMask
    BY <2>1 DEF ChldMask, ListInv
  <2>2. CASE \E p \in Pid : Reap(p)
    BY <2>2, ReapList
  <2>3. CASE ChldReturn
    BY <2>3 DEF ChldReturn, ListInv
  <2>4. CASE ReadFg
    BY <2>4 DEF ReadFg, ListInv
  <2>5. CASE Forward
    <3>1. CASE status' # "running"
      BY <3>1 DEF ListInv
    <3>2. CASE status' = "running"
      <4> DEFINE p == frames[1].pid
      <4>1. /\ SignalGroup(p, frames[1].sig)
            /\ frames[1].sig \in {"INT", "TSTP"}
            /\ status = "running" /\ UNCHANGED <<table, main, status>>
        BY <2>5, <3>2 DEF Forward, HandlerAt, Kill_sio
      <4>2. p \in Pid
        BY <2>5, FramesShape DEF Forward, HandlerAt, KillInv, TypeOK
      <4> HIDE DEF p
      <4> QED
        BY <4>1, <4>2, SignalGroupLife, ListUnchanged
    <3> QED
      BY <3>1, <3>2
  <2> QED
    BY <1>9, <2>1, <2>2, <2>3, <2>4, <2>5 DEF HandlerStep
<1>10. CASE \E p \in Pid : ChildStep(p)
  BY <1>10, ChildList
<1>11. CASE \E s \in Keys : Keyboard(s)
  BY <1>11 DEF Keyboard, ListInv
<1>12. CASE UNCHANGED vars
  BY <1>12 DEF vars, ListInv
<1> QED
  BY <1>1, <1>2, <1>3, <1>4, <1>5, <1>6, <1>7, <1>8, <1>9, <1>10, <1>11, <1>12
     DEF Next

-----------------------------------------------------------------------------
\* A step that starts no Kill_sio and moves no job to the background.
LEMMA ForwardKept ==
  ASSUME ForwardSparesBackground,
         status' = "running" => status = "running",
         \A k \in 1..Len(frames') : frames'[k].at = "kill" =>
           \E m \in 1..Len(frames) :
             frames[m].at = "kill" /\ frames[m].pid = frames'[k].pid,
         \A i \in Slot : jobs'[i].state = "BG" =>
           jobs[i].state = "BG" /\ jobs'[i].pid = jobs[i].pid
  PROVE  ForwardSparesBackground'
BY DEF ForwardSparesBackground

\* sigchld_handler moves no job to the background.
LEMMA ReapNoBackground ==
  ASSUME TypeOK, NEW p \in Pid, Reap(p)
  PROVE  \A j \in Slot : jobs'[j].state = "BG" =>
           jobs[j].state = "BG" /\ jobs'[j].pid = jobs[j].pid
<1> DEFINE i == getjobpid(jobs, p)
<1>1. CASE i = 0
  BY <1>1 DEF Reap, table
<1>2. CASE i # 0 /\ Dead(p)
  <2>1. jobs' = [jobs EXCEPT ![i] = EmptyJob]
    BY <1>2, DeletejobClearsSlot DEF Reap, TypeOK
  <2> QED
    BY <2>1 DEF EmptyJob, TypeOK
<1>3. CASE i # 0 /\ ~ Dead(p)
  <2>1. setstate(i, "ST") /\ "ST" \in JobState
    BY <1>3 DEF Reap, JobState
  <2>2. i \in Slot
    BY <1>3, GetjobpidFinds DEF TypeOK
  <2> HIDE DEF i
  <2>3. jobs'[i].state = "ST" /\ \A j \in Slot : j # i => jobs'[j] = jobs[j]
    BY <2>1, <2>2, SetstatePids DEF TypeOK
  <2> QED
    BY <2>3
<1> QED
  BY <1>1, <1>2, <1>3

\* Popping a frame leaves frames that were there before.
LEMMA ReturnForward ==
  ASSUME TypeOK, ForwardSparesBackground, frames # <<>>, Return, UNCHANGED table,
         status' = "running" => status = "running"
  PROVE  ForwardSparesBackground'
<1>1. \A k \in 1..Len(frames') : frames'[k] = frames[k + 1] /\ k + 1 \in 1..Len(frames)
  BY FramesShape DEF Return, TypeOK
<1> QED
  BY <1>1, ForwardKept DEF table

\* No step aims a ctrl-c handler at a background job.
LEMMA ForwardStep ==
  ASSUME BaseInv, [Next]_vars
  PROVE  ForwardSparesBackground'
<1> USE DEF BaseInv, table, main, shell, kernel
<1>1. CASE frames' = <<>>
  BY <1>1 DEF ForwardSparesBackground
<1>2. CASE UNCHANGED <<table, frames, status>>
  BY <1>2 DEF ForwardSparesBackground
<1>3. ASSUME NEW s \in {"INT", "TSTP", "CHLD"}, Deliver(s)
      PROVE  ForwardSparesBackground'
  <2> DEFINE f == [sig |-> s, at |-> "entry", pid |-> NoPid, saved |-> mask]
  <2>1. frames' = <<f>> \o frames /\ f.at = "entry" /\ UNCHANGED <<table, status>>
    BY <1>3 DEF Deliver
  <2> HIDE DEF f
  <2>2. /\ frames'[1] = f
        /\ \A k \in 1..Len(frames') : k # 1 =>
             k - 1 \in 1..Len(frames) /\ frames'[k] = frames[k - 1]
    BY <2>1 DEF TypeOK
  <2> QED
    BY <2>1, <2>2, ForwardKept
<1>4. CASE ChldMask
  <2>1. frames # <<>> /\ frames' = [frames EXCEPT ![1].at = "loop"]
        /\ UNCHANGED <<table, status>>
    BY <1>4 DEF ChldMask, HandlerAt
  <2>2. /\ Len(frames') = Len(frames)
        /\ frames'[1].at = "loop"
        /\ \A k \in 1..Len(frames) : k # 1 => frames'[k] = frames[k]
    BY <2>1, FramesShape DEF TypeOK, Frame
  <2> QED
    BY <2>1, <2>2, ForwardKept
<1>5. ASSUME NEW p \in Pid, Reap(p) PROVE ForwardSparesBackground'
  <2>1. UNCHANGED frames /\ (status' = "running" => status = "running")
    BY <1>5 DEF Reap, HandlerAt
  <2> QED
    BY <1>5, <2>1, ReapNoBackground, ForwardKept
<1>6. CASE ChldReturn
  BY <1>6, ReturnForward DEF ChldReturn, HandlerAt
<1>7. CASE ReadFg
  <2>1. frames # <<>> /\ status = "running" /\ UNCHANGED <<table, status>>
    BY <1>7 DEF ReadFg, HandlerAt
  <2>2. CASE fgpid(jobs) = NoPid
    BY <1>7, <2>1, <2>2, ReturnForward DEF ReadFg
  <2>3. CASE fgpid(jobs) # NoPid
    <3>1. frames' = [frames EXCEPT ![1].at = "kill", ![1].pid = fgpid(jobs)]
      BY <1>7, <2>3 DEF ReadFg
    <3>2. /\ Len(frames') = Len(frames)
          /\ frames'[1].pid = fgpid(jobs)
          /\ \A k \in 1..Len(frames) : k # 1 => frames'[k] = frames[k]
      BY <2>1, <3>1, FramesShape DEF TypeOK, Frame
    <3>3. PICK i \in FgSlots(jobs) : fgpid(jobs) = jobs[i].pid
      BY <2>3, FgpidFinds DEF fgpid, TypeOK
    <3>4. i \in Slot /\ jobs[i].state = "FG"
      BY <3>3 DEF FgSlots
    <3>5. \A j \in Slot : jobs[j].pid = fgpid(jobs) => jobs[j].state # "BG"
      BY <2>1, <2>3, <3>3, <3>4 DEF ListInv
    <3> QED
      BY <2>1, <3>2, <3>5 DEF ForwardSparesBackground
  <2> QED
    BY <2>2, <2>3
<1>8. CASE Forward
  <2>1. frames # <<>> /\ status = "running" /\ UNCHANGED table
    BY <1>8 DEF Forward, HandlerAt
  <2>2. Return \/ UNCHANGED frames
    BY <1>8 DEF Forward
  <2> QED
    BY <2>1, <2>2, ReturnForward, ForwardKept
<1>9. CASE \E p \in Pid : ChildStep(p)
  BY <1>2, <1>9 DEF ChildStep, Setpgid, Execve, Exit, StopSelf, Split, MemberExit
<1>10. CASE \/ \E b \in BOOLEAN : Fork(b)
            \/ \E st \in {"FG", "BG"} : BgFg(st)
            \/ BgFgNoJob
            \/ MainStep
  BY <1>1, <1>10 DEF Fork, BgFg, BgFgNoJob, MainStep, AddJob, WaitFg, Restore,
                     Continue, MainAt
<1>11. CASE ForkFails \/ Quit \/ SigQuit
  BY <1>11 DEF ForkFails, Quit, SigQuit, ForwardSparesBackground
<1>12. CASE \E s \in Keys : Keyboard(s)
  BY <1>2, <1>12 DEF Keyboard
<1>13. CASE UNCHANGED vars
  BY <1>2, <1>13 DEF vars
<1> QED
  BY <1>3, <1>4, <1>5, <1>6, <1>7, <1>8, <1>9, <1>10, <1>11, <1>12, <1>13
     DEF Next, HandlerStep

-----------------------------------------------------------------------------
\* A step that leaves the list alone, and stops no process unseen.
LEMMA StopKept ==
  ASSUME TypeOK, LoopInv, StoppedIsListed, StopInv,
         UNCHANGED <<jobs, job>>,
         status' = "running" => status = "running",
         pc' = "addjob" => pc = "addjob" /\ pid' = pid,
         pc' = "cont" <=> pc = "cont",
         \A p \in Pid : life[p] \in {"stop", "zombie"} => life'[p] \in {"stop", "zombie"},
         \A p \in unreported' : life'[p] = "stop",
         \A p \in Pid : life'[p] = "stop" /\ p \notin unreported' =>
                          life[p] = "stop" /\ p \notin unreported
  PROVE  StoppedIsListed' /\ StopInv'
<1>1. pc' = "addjob" => pid \in Pid
  BY DEF LoopInv
<1>2. StopInv'
  BY <1>1 DEF StopInv
<1>3. StoppedIsListed'
  <2> SUFFICES ASSUME status = "running", NEW i \in Slot, jobs[i].pid \in Pid
               PROVE  /\ jobs[i].state = "ST" => life'[jobs[i].pid] \in {"stop", "zombie"}
                      /\ life'[jobs[i].pid] = "stop" /\ jobs[i].pid \notin unreported' =>
                           jobs[i].state = "ST" \/ (pc' = "cont" /\ job = i)
    BY DEF StoppedIsListed
  <2> QED
    BY DEF StoppedIsListed
<1> QED
  BY <1>2, <1>3

\* The same of a step that touches no child.
LEMMA StopUntouched ==
  ASSUME TypeOK, LoopInv, StoppedIsListed, StopInv,
         UNCHANGED <<jobs, job, life, unreported>>,
         status' = "running" => status = "running",
         pc' = "addjob" => pc = "addjob" /\ pid' = pid,
         pc' = "cont" <=> pc = "cont"
  PROVE  StoppedIsListed' /\ StopInv'
<1>1. CASE status = "running"
  BY <1>1, StopKept DEF StopInv
<1>2. CASE status # "running"
  BY <1>2 DEF StoppedIsListed, StopInv
<1> QED
  BY <1>1, <1>2

\* The processes of a group stop, or end, in a way waitpid sees.
LEMMA SignalGroupStops ==
  ASSUME TypeOK, StopInv, status = "running",
         NEW p \in Pid, NEW s \in {"INT", "TSTP"}, SignalGroup(p, s)
  PROVE  /\ \A q \in Pid : life[q] \in {"stop", "zombie"} => life'[q] \in {"stop", "zombie"}
         /\ \A q \in unreported' : life'[q] = "stop"
         /\ \A q \in Pid : life'[q] = "stop" /\ q \notin unreported' =>
                             life[q] = "stop" /\ q \notin unreported
<1>1. \A q \in Pid : q # p => life'[q] = life[q]
  BY DEF SignalGroup, TypeOK
<1>2. life[p] = "run" /\ s = "TSTP" => life'[p] = "stop" /\ unreported' = unreported \cup {p}
  BY DEF SignalGroup, TypeOK
<1>3. life[p] = "run" /\ s = "INT" => life'[p] = "zombie" /\ unreported' = unreported
  BY DEF SignalGroup, TypeOK
<1>4. life[p] # "run" => life'[p] = life[p] /\ unreported' = unreported
  BY DEF SignalGroup, TypeOK
<1>5. \A q \in unreported : q \in Pid /\ life[q] = "stop"
  BY DEF StopInv, TypeOK
<1> QED
  BY <1>1, <1>2, <1>3, <1>4, <1>5

\* The list knows of stops through the steps of the read/eval loop.
LEMMA MainStop ==
  ASSUME BaseInv, StoppedIsListed, StopInv
  PROVE  /\ (\E b \in BOOLEAN : Fork(b)) => StoppedIsListed' /\ StopInv'
         /\ (\E st \in {"FG", "BG"} : BgFg(st)) => StoppedIsListed' /\ StopInv'
         /\ BgFgNoJob => StoppedIsListed' /\ StopInv'
         /\ MainStep => StoppedIsListed' /\ StopInv'
<1> USE DEF BaseInv
<1>1. ASSUME NEW b \in BOOLEAN, Fork(b) PROVE StoppedIsListed' /\ StopInv'
  <2>1. PICK p \in Pid : life[p] = "none" /\ pid' = p
                         /\ life' = [life EXCEPT ![p] = "forked"]
    BY <1>1 DEF Fork
  <2>2. /\ status = "running" /\ pc = "prompt" /\ pc' = "addjob"
        /\ UNCHANGED <<jobs, job, status, unreported>>
    BY <1>1 DEF Fork, MainAt, table
  <2>3. life'[p] = "forked" /\ \A q \in Pid : q # p => life'[q] = life[q]
    BY <2>1 DEF TypeOK
  <2>4. \A i \in Slot : jobs[i].pid # p
    BY <2>1, <2>2 DEF ListInv
  <2>5. \A q \in unreported : q \in Pid /\ q # p
    BY <2>1, <2>2 DEF StopInv, TypeOK
  <2>6. StopInv'
    BY <2>1, <2>2, <2>3, <2>5 DEF StopInv
  <2>7. StoppedIsListed'
    BY <2>2, <2>3, <2>4 DEF StoppedIsListed
  <2> QED
    BY <2>6, <2>7
<1>2. ASSUME NEW st \in {"FG", "BG"}, BgFg(st) PROVE StoppedIsListed' /\ StopInv'
  <2>1. PICK i \in Argument \ {0} : setstate(i, st) /\ job' = i
    BY <1>2 DEF BgFg
  <2>2. /\ status = "running" /\ pc = "prompt" /\ pc' = "cont"
        /\ UNCHANGED <<status, life, unreported>>
    BY <1>2 DEF BgFg, MainAt, kernel
  <2>3. i \in Slot
    BY <2>2, ArgumentNamesJob
  <2>4. st \in JobState
    BY DEF JobState
  <2>5. /\ \A j \in Slot : j # i => jobs'[j] = jobs[j]
        /\ jobs'[i].state = st
    BY <2>1, <2>3, <2>4, SetstatePids DEF TypeOK
  <2>6. StopInv'
    BY <2>1, <2>2, <2>5 DEF StopInv
  <2>7. StoppedIsListed'
    BY <2>1, <2>2, <2>5 DEF StoppedIsListed
  <2> QED
    BY <2>6, <2>7
<1>3. ASSUME BgFgNoJob PROVE StoppedIsListed' /\ StopInv'
  <2>1. /\ pc = "prompt" /\ pc' = "prompt" /\ status = "running"
        /\ UNCHANGED <<jobs, life, unreported, status>>
    BY <1>3 DEF BgFgNoJob, ToPrompt, MainAt, table, kernel
  <2> QED
    BY <2>1 DEF StoppedIsListed, StopInv
<1>4. ASSUME AddJob PROVE StoppedIsListed' /\ StopInv'
  <2>1. CASE status' # "running"
    BY <2>1 DEF StoppedIsListed, StopInv
  <2>2. CASE status' = "running"
    <3>1. /\ status = "running" /\ pc = "addjob" /\ pc' \notin {"addjob", "cont"}
          /\ FreeSlots(jobs) # {}
          /\ UNCHANGED <<pid, life, unreported>>
      BY <1>4, <2>2 DEF AddJob, MainAt, kernel
    <3>2. pid \in Pid
      BY <3>1 DEF LoopInv
    <3> DEFINE st == IF bg THEN "BG" ELSE "FG"
               new == [pid |-> pid, jid |-> nextjid, state |-> st]
    <3>3. addjob(pid, st)
      BY <1>4 DEF AddJob
    <3>4. \E i \in FreeSlots(jobs) : jobs' = [jobs EXCEPT ![i] = new]
      <4>1. st \in JobState
        BY DEF JobState
      <4> HIDE DEF st
      <4> QED
        BY <3>1, <3>2, <3>3, <4>1, AddjobTakesFreeSlot DEF TypeOK
    <3>5. PICK i \in FreeSlots(jobs) : jobs' = [jobs EXCEPT ![i] = new]
      BY <3>4
    <3>6. /\ jobs'[i].pid = pid /\ jobs'[i].state # "ST"
          /\ \A j \in Slot : j # i => jobs'[j] = jobs[j]
      BY <3>5 DEF TypeOK, FreeSlots
    <3>7. life[pid] = "stop" => pid \in unreported
      BY <3>1 DEF StopInv
    <3>8. StoppedIsListed'
      BY <3>1, <3>6, <3>7 DEF StoppedIsListed
    <3> QED
      BY <3>1, <3>8 DEF StopInv
  <2> QED
    BY <2>1, <2>2
<1>5. ASSUME WaitFg PROVE StoppedIsListed' /\ StopInv'
  BY <1>5, StopUntouched DEF WaitFg, MainAt, table, kernel
<1>6. ASSUME Restore PROVE StoppedIsListed' /\ StopInv'
  <2>1. /\ pc = "restore" /\ pc' = "prompt"
        /\ UNCHANGED <<jobs, life, unreported, status>>
    BY <1>6 DEF Restore, ToPrompt, MainAt, table, kernel
  <2> QED
    BY <2>1 DEF StoppedIsListed, StopInv
<1>7. ASSUME Continue PROVE StoppedIsListed' /\ StopInv'
  <2>1. CASE status' # "running"
    BY <2>1 DEF StoppedIsListed, StopInv
  <2>2. CASE status' = "running"
    <3> DEFINE p == jobs[job].pid
    <3>1. /\ p \in Pid /\ SignalCont(p)
          /\ status = "running" /\ pc = "cont" /\ pc' \in {"waitfg", "restore"}
          /\ UNCHANGED jobs
      BY <1>7, <2>2 DEF Continue, MainAt, table
    <3>2. job \in Slot /\ jobs[job].state # "ST" /\ p # NoPid
      BY <3>1, PidAssumption DEF StopInv, LoopInv
    <3>3. \A i \in Slot : jobs[i].pid = p => i = job
      BY <3>1, <3>2 DEF ListInv
    <3> HIDE DEF p
    <3>4. \A q \in Pid : q # p => life'[q] = life[q]
      BY <3>1 DEF SignalCont, kernel, TypeOK
    <3>5. life'[p] # "stop"
      BY <3>1 DEF SignalCont, kernel, TypeOK
    <3>6. unreported' = unreported \ {p} /\ \A q \in unreported : q \in Pid
      BY <3>1 DEF SignalCont, kernel, TypeOK, StopInv
    <3>7. StopInv'
      BY <3>1, <3>4, <3>6 DEF StopInv
    <3>8. StoppedIsListed'
      <4> SUFFICES ASSUME NEW i \in Slot, jobs[i].pid \in Pid
                   PROVE  /\ jobs[i].state = "ST" => life'[jobs[i].pid] \in {"stop", "zombie"}
                          /\ life'[jobs[i].pid] = "stop" /\ jobs[i].pid \notin unreported' =>
                               jobs[i].state = "ST"
        BY <3>1 DEF StoppedIsListed
      <4>1. CASE i = job
        BY <3>2, <3>5, <4>1 DEF p
      <4>2. CASE i # job
        <5>1. jobs[i].pid # p
          BY <3>3, <4>2
        <5> QED
          BY <3>1, <3>4, <3>6, <4>2, <5>1 DEF StoppedIsListed
      <4> QED
        BY <4>1, <4>2
    <3> QED
      BY <3>7, <3>8
  <2> QED
    BY <2>1, <2>2
<1> QED
  BY <1>1, <1>2, <1>3, <1>4, <1>5, <1>6, <1>7 DEF MainStep

\* sigchld_handler lists the stop that waitpid reports, and no other.
LEMMA ReapStop ==
  ASSUME BaseInv, StoppedIsListed, StopInv, NEW p \in Pid, Reap(p)
  PROVE  StoppedIsListed' /\ StopInv'
<1> USE DEF BaseInv
<1>1. CASE status' # "running"
  BY <1>1 DEF StoppedIsListed, StopInv
<1>2. CASE status' = "running"
  <2> DEFINE i == getjobpid(jobs, p)
  <2>1. /\ status = "running" /\ i # 0 /\ UNCHANGED <<pc, pid, job, status>>
        /\ life' = [life EXCEPT ![p] = IF Dead(p) THEN "none" ELSE @]
        /\ unreported' = unreported \ {p}
        /\ IF Dead(p) THEN deletejob(p) ELSE setstate(i, "ST")
        /\ Dead(p) \/ p \in unreported
    BY <1>2 DEF Reap, HandlerAt, main, Waitable
  <2>2. pc \notin {"addjob", "cont"}
    <3>1. frames # <<>> /\ frames[1].sig = "CHLD" /\ 1 \in 1..Len(frames)
      BY FramesShape DEF Reap, HandlerAt, TypeOK
    <3> QED
      BY <3>1 DEF MaskInv
  <2>3. i \in Slot /\ jobs[i].pid = p
    BY <2>1, GetjobpidFinds DEF TypeOK
  <2>4. \A j \in Slot : j # i => jobs[j].pid # p
    BY <2>1, <2>3, PidAssumption DEF ListInv
  <2>5. \A q \in Pid : q # p => life'[q] = life[q]
    BY <2>1 DEF TypeOK
  <2>6. StopInv'
    BY <2>1, <2>2, <2>5 DEF StopInv, TypeOK
  <2>7. /\ \A j \in Slot : j # i => jobs'[j] = jobs[j]
        /\ Dead(p) => jobs'[i].pid = NoPid
        /\ ~ Dead(p) => jobs'[i].state = "ST" /\ jobs'[i].pid = p
    <3>1. CASE Dead(p)
      <4>1. jobs' = [jobs EXCEPT ![i] = EmptyJob]
        BY <2>1, <3>1, DeletejobClearsSlot DEF TypeOK
      <4> HIDE DEF i
      <4> QED
        BY <2>3, <3>1, <4>1 DEF TypeOK, EmptyJob
    <3>2. CASE ~ Dead(p)
      <4>1. setstate(i, "ST") /\ "ST" \in JobState
        BY <2>1, <3>2 DEF JobState
      <4> HIDE DEF i
      <4> QED
        BY <2>3, <3>2, <4>1, SetstatePids DEF TypeOK
    <3> QED
      BY <3>1, <3>2
  <2>8. ~ Dead(p) => life'[p] = "stop"
    BY <2>1 DEF StopInv, TypeOK
  <2> HIDE DEF i
  <2>9. StoppedIsListed'
    BY <2>1, <2>3, <2>4, <2>5, <2>7, <2>8, PidAssumption DEF StoppedIsListed
  <2> QED
    BY <2>6, <2>9
<1> QED
  BY <1>1, <1>2

\* A child stops only where waitpid sees it.
LEMMA ChildStop ==
  ASSUME BaseInv, StoppedIsListed, StopInv, NEW p \in Pid, ChildStep(p)
  PROVE  StoppedIsListed' /\ StopInv'
<1> USE DEF BaseInv, table, shell, main
<1>1. status = "running" /\ UNCHANGED <<jobs, job, pc, pid, status>>
  BY DEF ChildStep, Setpgid, Execve, Exit, StopSelf, Split, MemberExit, Running
<1>2. \A q \in unreported : q \in Pid /\ life[q] = "stop"
  BY <1>1 DEF StopInv, TypeOK
<1>3. ASSUME UNCHANGED unreported,
             life[p] \notin {"stop", "zombie"},
             life' \in {[life EXCEPT ![p] = "grouped"], [life EXCEPT ![p] = "run"]}
      PROVE  StoppedIsListed' /\ StopInv'
  <2>1. life'[p] # "stop" /\ \A q \in Pid : q # p => life'[q] = life[q]
    BY <1>3 DEF TypeOK
  <2>2. p \notin unreported
    BY <1>2, <1>3
  <2> QED
    BY <1>1, <1>2, <1>3, <2>1, <2>2, StopKept
<1>4. CASE Setpgid(p)
  BY <1>3, <1>4 DEF Setpgid
<1>5. CASE Execve(p)
  BY <1>3, <1>5 DEF Execve
<1>6. CASE Exit(p)
  <2>1. /\ life'[p] # "stop" /\ \A q \in Pid : q # p => life'[q] = life[q]
        /\ life[p] \in {"stop", "zombie"} => life'[p] = "zombie"
    BY <1>6 DEF Exit, TypeOK
  <2>2. unreported' = unreported \ {p}
    BY <1>6 DEF Exit
  <2> QED
    BY <1>1, <1>2, <2>1, <2>2, StopKept
<1>7. CASE StopSelf(p)
  BY <1>1, <1>7, SignalGroupStops, StopKept DEF StopSelf
<1>8. CASE Split(p)
  BY <1>1, <1>8, StopUntouched DEF Split
<1>9. CASE MemberExit(p)
  BY <1>1, <1>9, StopUntouched DEF MemberExit
<1> QED
  BY <1>4, <1>5, <1>6, <1>7, <1>8, <1>9 DEF ChildStep

\* Every step keeps the list true to the stops that were reported.
LEMMA StopStep ==
  ASSUME BaseInv, StoppedIsListed, StopInv, [Next]_vars
  PROVE  StoppedIsListed' /\ StopInv'
<1> USE DEF BaseInv, table, main, shell, kernel
<1>1. CASE \/ \E b \in BOOLEAN : Fork(b)
           \/ \E st \in {"FG", "BG"} : BgFg(st)
           \/ BgFgNoJob
           \/ MainStep
  BY <1>1, MainStop
<1>2. CASE ForkFails \/ Quit \/ SigQuit
  BY <1>2 DEF ForkFails, Quit, SigQuit, StoppedIsListed, StopInv
<1>3. CASE \E s \in {"INT", "TSTP", "CHLD"} : Deliver(s)
  BY <1>3, StopUntouched DEF Deliver
<1>4. CASE HandlerStep
  <2>1. CASE ChldMask
    BY <2>1, StopUntouched DEF ChldMask
  <2>2. CASE \E p \in Pid : Reap(p)
    BY <2>2, ReapStop
  <2>3. CASE ChldReturn
    BY <2>3, StopUntouched DEF ChldReturn
  <2>4. CASE ReadFg
    BY <2>4, StopUntouched DEF ReadFg
  <2>5. CASE Forward
    <3>1. CASE status' # "running"
      BY <3>1 DEF StoppedIsListed, StopInv
    <3>2. CASE status' = "running"
      <4> DEFINE p == frames[1].pid
      <4>1. /\ SignalGroup(p, frames[1].sig)
            /\ frames[1].sig \in {"INT", "TSTP"}
            /\ status = "running" /\ UNCHANGED <<table, main, status>>
        BY <2>5, <3>2 DEF Forward, HandlerAt, Kill_sio
      <4>2. p \in Pid
        BY <2>5, FramesShape DEF Forward, HandlerAt, KillInv, TypeOK
      <4> HIDE DEF p
      <4> QED
        BY <4>1, <4>2, SignalGroupStops, StopKept
    <3> QED
      BY <3>1, <3>2
  <2> QED
    BY <1>4, <2>1, <2>2, <2>3, <2>4, <2>5 DEF HandlerStep
<1>5. CASE \E p \in Pid : ChildStep(p)
  BY <1>5, ChildStop
<1>6. CASE \E s \in Keys : Keyboard(s)
  BY <1>6, StopUntouched DEF Keyboard
<1>7. CASE UNCHANGED vars
  BY <1>7, StopUntouched DEF vars
<1> QED
  BY <1>1, <1>2, <1>3, <1>4, <1>5, <1>6, <1>7 DEF Next

-----------------------------------------------------------------------------
\* A step after which no more leaders are stopped and no more members run.
LEMMA QuietKept ==
  ASSUME StoppedJobIsQuiet,
         \A p \in Pid : life'[p] = "stop" => life[p] = "stop",
         \A p \in Pid : member'[p] = "run" => member[p] = "run"
  PROVE  StoppedJobIsQuiet'
BY DEF StoppedJobIsQuiet

\* A signal to the group stops the second process with the first.
LEMMA SignalGroupQuiet ==
  ASSUME TypeOK, StoppedJobIsQuiet,
         NEW p \in Pid, NEW s \in {"INT", "TSTP"}, SignalGroup(p, s)
  PROVE  StoppedJobIsQuiet'
<1>1. \A q \in Pid : q # p => life'[q] = life[q] /\ member'[q] = member[q]
  BY DEF SignalGroup, TypeOK
<1>2. s = "TSTP" => member'[p] # "run"
  BY DEF SignalGroup, TypeOK
<1>3. s = "INT" => (life'[p] = "stop" => life[p] = "stop")
                    /\ (member'[p] = "run" => member[p] = "run")
  BY DEF SignalGroup, TypeOK
<1> QED
  BY <1>1, <1>2, <1>3 DEF StoppedJobIsQuiet

\* Every step keeps the groups of stopped jobs quiet.
LEMMA QuietStep ==
  ASSUME TypeOK, KillInv, StoppedJobIsQuiet, [Next]_vars
  PROVE  StoppedJobIsQuiet'
<1> USE DEF table, main, shell, kernel
<1>1. CASE UNCHANGED <<life, member>>
  BY <1>1, QuietKept
<1>2. CASE \E b \in BOOLEAN : Fork(b)
  <2>1. /\ UNCHANGED member
        /\ \E p \in Pid : life' = [life EXCEPT ![p] = "forked"]
    BY <1>2 DEF Fork
  <2>2. \A p \in Pid : life'[p] = "stop" => life[p] = "stop"
    BY <2>1 DEF TypeOK
  <2> QED
    BY <2>1, <2>2, QuietKept
<1>3. CASE Continue
  <2>1. /\ UNCHANGED member
        /\ \A p \in Pid : life'[p] = "stop" => life[p] = "stop"
    BY <1>3 DEF Continue, SignalCont, TypeOK
  <2> QED
    BY <2>1, QuietKept
<1>4. CASE \E p \in Pid : Reap(p)
  <2>1. /\ UNCHANGED member
        /\ \A p \in Pid : life'[p] = "stop" => life[p] = "stop"
    BY <1>4 DEF Reap, TypeOK
  <2> QED
    BY <2>1, QuietKept
<1>5. CASE Forward
  <2> DEFINE p == frames[1].pid
  <2>1. CASE GroupExists(p)
    <3>1. SignalGroup(p, frames[1].sig) /\ frames[1].sig \in {"INT", "TSTP"}
      BY <1>5, <2>1 DEF Forward, HandlerAt, Kill_sio
    <3>2. p \in Pid
      BY <1>5, FramesShape DEF Forward, HandlerAt, KillInv, TypeOK
    <3> HIDE DEF p
    <3> QED
      BY <3>1, <3>2, SignalGroupQuiet
  <2>2. CASE ~ GroupExists(p)
    BY <1>1, <1>5, <2>2 DEF Forward
  <2> QED
    BY <2>1, <2>2
<1>6. ASSUME NEW p \in Pid, ChildStep(p) PROVE StoppedJobIsQuiet'
  <2>1. CASE Setpgid(p) \/ Execve(p) \/ Exit(p)
    <3>1. /\ UNCHANGED member
          /\ \A q \in Pid : life'[q] = "stop" => life[q] = "stop"
      BY <2>1 DEF Setpgid, Execve, Exit, TypeOK
    <3> QED
      BY <3>1, QuietKept
  <2>2. CASE StopSelf(p)
    BY <2>2, SignalGroupQuiet DEF StopSelf
  <2>3. CASE Split(p)
    BY <2>3 DEF Split, TypeOK, StoppedJobIsQuiet
  <2>4. CASE MemberExit(p)
    <3>1. UNCHANGED life /\ \A q \in Pid : member'[q] = "run" => member[q] = "run"
      BY <2>4 DEF MemberExit, TypeOK
    <3> QED
      BY <3>1, QuietKept
  <2> QED
    BY <1>6, <2>1, <2>2, <2>3, <2>4 DEF ChildStep
<1>7. CASE \/ ForkFails \/ BgFgNoJob \/ Quit \/ SigQuit
           \/ AddJob \/ WaitFg \/ Restore
           \/ ChldMask \/ ChldReturn \/ ReadFg
  BY <1>1, <1>7 DEF ForkFails, BgFgNoJob, Quit, SigQuit, AddJob, WaitFg, Restore,
                    ChldMask, ChldReturn, ReadFg
<1>8. CASE \/ \E st \in {"FG", "BG"} : BgFg(st)
           \/ \E s \in {"INT", "TSTP", "CHLD"} : Deliver(s)
           \/ \E s \in Keys : Keyboard(s)
  BY <1>1, <1>8 DEF BgFg, Deliver, Keyboard
<1>9. CASE UNCHANGED vars
  BY <1>1, <1>9 DEF vars
<1> QED
  BY <1>2, <1>3, <1>4, <1>5, <1>6, <1>7, <1>8, <1>9 DEF Next, MainStep, HandlerStep

-----------------------------------------------------------------------------
(* What a step does to the list: nothing, or one of the four changes below. *)

\* addjob enters the child that was forked.
Entered ==
  /\ status = "running" /\ pc = "addjob" /\ pid \in Pid
  /\ \E i \in FreeSlots(jobs), n \in Nat, st \in {"FG", "BG"} :
       jobs' = [jobs EXCEPT ![i] = [pid |-> pid, jid |-> n, state |-> st]]

\* fg or bg changes the state of a job.
Moved ==
  /\ status = "running" /\ pc = "prompt"
  /\ \E i \in Slot, st \in {"FG", "BG"} :
       jobs[i].pid \in Pid /\ setstate(i, st)

\* sigchld_handler deletes a job, or lists it as stopped.
Deleted(p) ==
  status = "running" /\ \E i \in Slot : jobs[i].pid = p /\ jobs' = [jobs EXCEPT ![i] = EmptyJob]

Halted(p) ==
  status = "running" /\ \E i \in Slot : jobs[i].pid = p /\ setstate(i, "ST")

\* sigchld_handler finds the job of the child that waitpid reports.
LEMMA ReapFinds ==
  ASSUME BaseInv, NEW p \in Pid, Reap(p)
  PROVE  /\ status = "running" /\ status' = "running"
         /\ Deleted(p) \/ Halted(p)
<1> USE DEF BaseInv
<1> DEFINE i == getjobpid(jobs, p)
<1>1. status = "running" /\ (Dead(p) \/ p \in unreported)
  BY DEF Reap, HandlerAt, Waitable
<1>2. pc # "addjob"
  <2>1. frames # <<>> /\ frames[1].sig = "CHLD" /\ 1 \in 1..Len(frames)
    BY FramesShape DEF Reap, HandlerAt, TypeOK
  <2> QED
    BY <2>1 DEF MaskInv
<1>3. \E k \in Slot : jobs[k].pid = p
  BY <1>1, <1>2 DEF ListInv, Dead
<1>4. i \in Slot /\ i # 0 /\ jobs[i].pid = p
  BY <1>3, GetjobpidFinds DEF TypeOK
<1>5. status' = status /\ IF Dead(p) THEN deletejob(p) ELSE setstate(i, "ST")
  BY <1>4 DEF Reap
<1>6. Dead(p) => jobs' = [jobs EXCEPT ![i] = EmptyJob]
  BY <1>4, <1>5, DeletejobClearsSlot DEF TypeOK
<1> QED
  BY <1>1, <1>4, <1>5, <1>6 DEF Deleted, Halted

\* Only an eval that finds the list full follows a NULL job.
LEMMA CrashMeansFull ==
  ASSUME BaseInv, [Next]_vars, status # "segv", status' = "segv"
  PROVE  /\ status = "running" /\ pc = "addjob" /\ FreeSlots(jobs) = {}
         /\ UNCHANGED <<jobs, pid>>
<1> USE DEF table, main, shell, kernel
<1>1. CASE AddJob
  <2>1. FreeSlots(jobs) = {} => FirstOrNull(FreeSlots(jobs)) = 0
    BY FirstOrNullOfSlots DEF FreeSlots
  <2> QED
    BY <1>1, <2>1 DEF AddJob, MainAt, addjob
<1>2. CASE \E p \in Pid : Reap(p)
  BY <1>2, ReapFinds
<1>3. CASE HandlerStep /\ ~ \E p \in Pid : Reap(p)
  BY <1>3 DEF HandlerStep, ChldMask, ChldReturn, ReadFg, Forward
<1>4. CASE MainStep /\ ~ AddJob
  BY <1>4 DEF MainStep, WaitFg, Restore, Continue
<1>5. CASE \E p \in Pid : ChildStep(p)
  BY <1>5 DEF ChildStep, Setpgid, Execve, Exit, StopSelf, Split, MemberExit
<1>6. CASE \/ \E b \in BOOLEAN : Fork(b)
           \/ \E st \in {"FG", "BG"} : BgFg(st)
           \/ \E s \in {"INT", "TSTP", "CHLD"} : Deliver(s)
           \/ \E s \in Keys : Keyboard(s)
  BY <1>6 DEF Fork, BgFg, Deliver, Keyboard
<1>7. CASE ForkFails \/ BgFgNoJob \/ Quit \/ SigQuit
  BY <1>7 DEF ForkFails, BgFgNoJob, Quit, SigQuit
<1>8. CASE UNCHANGED vars
  BY <1>8 DEF vars
<1> QED
  BY <1>1, <1>2, <1>3, <1>4, <1>5, <1>6, <1>7, <1>8 DEF Next

\* A crashed shell takes no step.
LEMMA CrashedIsFinal ==
  ASSUME [Next]_vars, status = "segv"
  PROVE  UNCHANGED vars
<1>1. CASE Next
  <2>1. \A l, sigs : ~ MainAt(l) /\ ~ HandlerAt(sigs, l) /\ ~ Running
    BY DEF MainAt, HandlerAt, Running
  <2>2. ~ MainStep /\ ~ HandlerStep
    BY <2>1 DEF MainStep, AddJob, WaitFg, Restore, Continue,
                HandlerStep, ChldMask, Reap, ChldReturn, ReadFg, Forward
  <2>3. \A p \in Pid : ~ ChildStep(p)
    BY <2>1 DEF ChildStep, Setpgid, Execve, Exit, StopSelf, Split, MemberExit
  <2> QED
    BY <1>1, <2>1, <2>2, <2>3
       DEF Next, Fork, ForkFails, BgFg, BgFgNoJob, Quit, Deliver, SigQuit, Keyboard
<1> QED
  BY <1>1

\* Every step leaves the list alone or changes it in one of the four ways.
LEMMA TableStep ==
  ASSUME BaseInv, [Next]_vars
  PROVE  \/ UNCHANGED jobs
         \/ Entered
         \/ Moved
         \/ \E p \in Pid : Deleted(p) \/ Halted(p)
<1> USE DEF BaseInv, table, main, shell, kernel
<1>1. CASE AddJob
  <2>1. status = "running" /\ pc = "addjob" /\ pid \in Pid
    BY <1>1 DEF AddJob, MainAt, LoopInv
  <2> DEFINE st == IF bg THEN "BG" ELSE "FG"
             new == [pid |-> pid, jid |-> nextjid, state |-> st]
  <2>2. addjob(pid, st) /\ st \in JobState /\ st \in {"FG", "BG"} /\ nextjid \in Nat
    BY <1>1 DEF AddJob, JobState, TypeOK
  <2>3. \/ jobs' = jobs
        \/ \E i \in FreeSlots(jobs) : jobs' = [jobs EXCEPT ![i] = new]
    <3> HIDE DEF st
    <3> QED
      BY <2>1, <2>2, AddjobTakesFreeSlot DEF TypeOK
  <2> HIDE DEF st
  <2> QED
    BY <2>1, <2>2, <2>3 DEF Entered
<1>2. CASE \E st \in {"FG", "BG"} : BgFg(st)
  <2>1. PICK st \in {"FG", "BG"} : BgFg(st)
    BY <1>2
  <2>2. PICK i \in Argument \ {0} : setstate(i, st)
    BY <2>1 DEF BgFg
  <2>3. status = "running" /\ pc = "prompt"
    BY <2>1 DEF BgFg, MainAt
  <2>4. i \in Slot /\ jobs[i].pid \in Pid
    BY <2>3, ArgumentNamesJob
  <2> QED
    BY <2>2, <2>3, <2>4 DEF Moved
<1>3. CASE \E p \in Pid : Reap(p)
  BY <1>3, ReapFinds
<1>4. CASE HandlerStep /\ ~ \E p \in Pid : Reap(p)
  BY <1>4 DEF HandlerStep, ChldMask, ChldReturn, ReadFg, Forward
<1>5. CASE MainStep /\ ~ AddJob
  BY <1>5 DEF MainStep, WaitFg, Restore, Continue
<1>6. CASE \E p \in Pid : ChildStep(p)
  BY <1>6 DEF ChildStep, Setpgid, Execve, Exit, StopSelf, Split, MemberExit
<1>7. CASE \/ \E b \in BOOLEAN : Fork(b)
           \/ \E s \in {"INT", "TSTP", "CHLD"} : Deliver(s)
           \/ \E s \in Keys : Keyboard(s)
  BY <1>7 DEF Fork, Deliver, Keyboard
<1>8. CASE ForkFails \/ BgFgNoJob \/ Quit \/ SigQuit
  BY <1>8 DEF ForkFails, BgFgNoJob, Quit, SigQuit
<1>9. CASE UNCHANGED vars
  BY <1>9 DEF vars
<1> QED
  BY <1>1, <1>2, <1>3, <1>4, <1>5, <1>6, <1>7, <1>8, <1>9 DEF Next

\* A listed process keeps a state of the diagram.
LEMMA StateStep ==
  ASSUME BaseInv, StateInv, [Next]_vars
  PROVE  StateInv'
<1> USE DEF BaseInv
<1>1. CASE UNCHANGED jobs
  BY <1>1 DEF StateInv
<1>2. CASE Entered
  BY <1>2 DEF Entered, StateInv, FreeSlots, TypeOK
<1>3. ASSUME NEW i \in Slot, NEW st \in {"FG", "BG", "ST"}, setstate(i, st)
      PROVE  StateInv'
  BY <1>3, SetstatePids DEF StateInv, TypeOK, JobState
<1>4. CASE Moved
  BY <1>3, <1>4 DEF Moved
<1>5. CASE \E p \in Pid : Halted(p)
  BY <1>3, <1>5 DEF Halted
<1>6. CASE \E p \in Pid : Deleted(p)
  BY <1>6, PidAssumption DEF Deleted, EmptyJob, StateInv, TypeOK
<1> QED
  BY <1>1, <1>2, <1>4, <1>5, <1>6, TableStep

-----------------------------------------------------------------------------
\* Types are kept by every step that the invariant allows.
LEMMA TypeStep ==
  ASSUME TypeOK, LoopInv, KillInv, [Next]_vars
  PROVE  TypeOK'
<1>1. CASE UNCHANGED vars
  BY <1>1 DEF vars, table, shell, main, kernel, TypeOK
<1> QED
  BY <1>1, MainType, HandlerType, EnvironmentType DEF Next

LEMMA InitBase == Init => BaseInv
<1> SUFFICES ASSUME Init PROVE BaseInv
  OBVIOUS
<1>1. TypeOK
  BY InitType
<1>2. FgSlots(jobs) = {}
  BY DEF Init, InitJobs, EmptyJob, FgSlots
<1>3. ListInv
  BY PidAssumption DEF Init, InitJobs, EmptyJob, ListInv
<1> QED
  BY <1>1, <1>2, <1>3
     DEF Init, BaseInv, AtMostOneFG, LoopInv, MaskInv, SuspendInv, KillInv,
         ForwardSparesBackground

LEMMA InitInv == Init => IInv
<1> SUFFICES ASSUME Init PROVE IInv
  OBVIOUS
<1>1. BaseInv
  BY InitBase
<1>2. StoppedIsListed /\ StopInv /\ StoppedJobIsQuiet /\ StateInv
  BY PidAssumption
     DEF Init, InitJobs, EmptyJob, StoppedIsListed, StopInv, StoppedJobIsQuiet, StateInv
<1> QED
  BY <1>1, <1>2 DEF IInv

LEMMA NextInv ==
  ASSUME IInv, [Next]_vars
  PROVE  IInv'
<1>1. BaseInv'
  BY TypeStep, LoopStep, FrameStep, ListStep, ForwardStep DEF IInv, BaseInv
<1> QED
  BY <1>1, StopStep, QuietStep, StateStep DEF IInv, BaseInv

\* The inductive invariant holds in every behaviour of the shell.
THEOREM Invariance == Spec => []IInv
BY InitInv, NextInv, PTL DEF Spec

\* Every variable of the shell keeps its type (tsh.c:20-55).
THEOREM TypeCorrect == Spec => []TypeOK
BY Invariance, PTL DEF IInv, BaseInv

\* At most one job can be in the FG state (tsh.c:37).
THEOREM OneForegroundJob == Spec => []AtMostOneFG
BY Invariance, PTL DEF IInv, BaseInv

\* The prompt, and a new program, mean that waitfg has seen the foreground free
\* (tsh.c:331-342).
THEOREM PromptAfterForeground == Spec => []PromptMeansNoForeground
<1>1. IInv => PromptMeansNoForeground
  BY DEF IInv, BaseInv, LoopInv, PromptMeansNoForeground
<1> QED
  BY <1>1, Invariance, PTL

\* The list is the set of unreaped children: blocking SIGCHLD from fork to addjob
\* keeps sigchld_handler from a child it cannot find (tsh.c:195-212, 365-383).
THEOREM ListIsChildren == Spec => []TableMatchesChildren
<1>1. IInv => TableMatchesChildren
  <2> SUFFICES ASSUME IInv, status = "running" PROVE TableMatchesChildren
    BY DEF TableMatchesChildren
  <2>1. \A i \in Slot : jobs[i].pid \in Pid \cup {NoPid}
    BY DEF IInv, BaseInv, TypeOK, Job
  <2> QED
    BY <2>1, PidAssumption DEF IInv, BaseInv, ListInv, TableMatchesChildren
<1> QED
  BY <1>1, Invariance, PTL

\* Kill(job->pid, SIGCONT) of bg and fg finds the job's process (tsh.c:307-324).
THEOREM ContinueIsSafe == Spec => []ContinueFindsJob
<1>1. IInv => ContinueFindsJob
  BY DEF IInv, BaseInv, ListInv, LoopInv, ContinueFindsJob
<1> QED
  BY <1>1, Invariance, PTL

\* ctrl-c and ctrl-z never reach a background job (tsh.c:399-420).
THEOREM BackgroundIsSpared == Spec => []ForwardSparesBackground
BY Invariance, PTL DEF IInv, BaseInv

\* What the list calls stopped is stopped or dead, and a stop that waitpid has
\* reported stays listed until fg or bg lifts it (tsh.c:307-324, 365-391).
THEOREM StopsAreListed == Spec => []StoppedIsListed
BY Invariance, PTL DEF IInv

\* A stopped job has no process that still runs (tsh.c:399-420).
THEOREM StoppedIsQuiet == Spec => []StoppedJobIsQuiet
BY Invariance, PTL DEF IInv

\* Following a NULL job takes a full list: all of sigchld_handler, fg and bg find
\* the job they look for, eval does unless MAXJOBS other children are unreaped
\* (tsh.c:205-212, 365-391).
THEOREM NullJobMeansFullList == Spec => []CrashOnlyWhenFull
<1>1. Init => CrashOnlyWhenFull
  BY DEF Init, CrashOnlyWhenFull
<1>2. CrashOnlyWhenFull /\ IInv /\ [Next]_vars => CrashOnlyWhenFull'
  <2> SUFFICES ASSUME CrashOnlyWhenFull, IInv, [Next]_vars, status' = "segv"
               PROVE  CrashOnlyWhenFull'
    BY DEF CrashOnlyWhenFull
  <2>1. CASE status = "segv"
    BY <2>1, CrashedIsFinal DEF CrashOnlyWhenFull, vars, main, shell, table
  <2>2. CASE status # "segv"
    <3>1. /\ status = "running" /\ pc = "addjob" /\ FreeSlots(jobs) = {}
          /\ UNCHANGED <<jobs, pid>>
      BY <2>2, CrashMeansFull DEF IInv
    <3>2. pid \in Pid
      BY <3>1 DEF IInv, BaseInv, LoopInv
    <3>3. \A i \in Slot : jobs[i].pid \in Pid /\ jobs[i].pid # pid
      BY <3>1 DEF IInv, BaseInv, TypeOK, Job, FreeSlots, ListInv
    <3> QED
      BY <3>1, <3>2, <3>3 DEF CrashOnlyWhenFull
  <2> QED
    BY <2>1, <2>2
<1> QED
  BY <1>1, <1>2, Invariance, PTL DEF Spec

-----------------------------------------------------------------------------
(* The refinement of JobControl: the states of the children in the list.   *)

\* The slot getjobpid returns is the one that holds the process.
LEMMA GetjobpidIsSlot ==
  ASSUME NEW js \in [Slot -> Job], NEW p \in Pid, NEW i \in Slot,
         js[i].pid = p, \A j \in Slot : js[j].pid = p => j = i
  PROVE  getjobpid(js, p) = i /\ i # 0
<1>1. i # 0
  BY MAXJOBSAssumption DEF Slot
<1> QED
  BY <1>1, GetjobpidFinds

\* A change of one slot leaves the states of the other processes.
LEMMA OtherStates ==
  ASSUME jobs \in [Slot -> Job], jobs' \in [Slot -> Job],
         NEW i \in Slot, \A j \in Slot : j # i => jobs'[j] = jobs[j],
         NEW q \in Pid, jobs[i].pid # q, jobs'[i].pid # q
  PROVE  JobStateOf(q)' = JobStateOf(q)
<1>1. {j \in Slot : jobs'[j].pid = q} = {j \in Slot : jobs[j].pid = q}
  OBVIOUS
<1>2. getjobpid(jobs', q) = getjobpid(jobs, q)
  BY <1>1 DEF getjobpid
<1>3. getjobpid(jobs, q) # 0 => getjobpid(jobs, q) \in Slot /\ getjobpid(jobs, q) # i
  BY GetjobpidFinds
<1> QED
  BY <1>2, <1>3 DEF JobStateOf

\* The state of a child is that of its slot; a child without one has none.
LEMMA StateOfSlot ==
  ASSUME TypeOK, ListInv, status = "running", NEW i \in Slot, jobs[i].pid \in Pid
  PROVE  JobStateOf(jobs[i].pid) = jobs[i].state
<1>1. \A j \in Slot : jobs[j].pid = jobs[i].pid => j = i
  BY PidAssumption DEF ListInv
<1>2. getjobpid(jobs, jobs[i].pid) = i /\ i # 0
  BY <1>1, GetjobpidIsSlot DEF TypeOK
<1> QED
  BY <1>2 DEF JobStateOf

\* Without a foreground job in the list no child has the foreground.
LEMMA NoForegroundState ==
  ASSUME jobs \in [Slot -> Job], FgSlots(jobs) = {}
  PROVE  \A p \in Pid : JobStateOf(p) # "FG"
<1> TAKE p \in Pid
<1>1. getjobpid(jobs, p) # 0 => getjobpid(jobs, p) \in Slot
  BY GetjobpidFinds
<1> QED
  BY <1>1 DEF JobStateOf, FgSlots

\* Setting the state of a listed job sets the state of its process alone.
LEMMA SetstateState ==
  ASSUME TypeOK, TypeOK', ListInv, status = "running",
         NEW i \in Slot, NEW p \in Pid, jobs[i].pid = p, NEW st \in JobState, setstate(i, st)
  PROVE  [q \in Pid |-> JobStateOf(q)]'
           = [[q \in Pid |-> JobStateOf(q)] EXCEPT ![p] = st]
<1>1. /\ \A j \in Slot : jobs'[j].pid = jobs[j].pid
      /\ \A j \in Slot : j # i => jobs'[j] = jobs[j]
      /\ jobs'[i].state = st
  BY SetstatePids DEF TypeOK
<1>2. \A q \in Pid : q # p => JobStateOf(q)' = JobStateOf(q)
  BY <1>1, OtherStates DEF TypeOK
<1>3. \A j \in Slot : jobs'[j].pid = p => j = i
  BY <1>1, PidAssumption DEF ListInv
<1>t. jobs' \in [Slot -> Job] /\ jobs'[i].pid = p
  BY <1>1 DEF TypeOK
<1>4. getjobpid(jobs', p) = i /\ i # 0
  BY <1>t, <1>3, GetjobpidIsSlot
<1>5. JobStateOf(p)' = st
  BY <1>1, <1>4 DEF JobStateOf
<1> QED
  BY <1>2, <1>5

\* addjob is a Launch.
LEMMA EnteredLaunches ==
  ASSUME BaseInv, BaseInv', Entered
  PROVE  Control!Next
<1> USE DEF BaseInv
<1>1. PICK p \in Pid, i \in FreeSlots(jobs), n \in Nat, st \in {"FG", "BG"} :
        p = pid /\ jobs' = [jobs EXCEPT ![i] = [pid |-> p, jid |-> n, state |-> st]]
  BY DEF Entered
<1>2. status = "running" /\ pc = "addjob"
  BY DEF Entered
<1>3. i \in Slot /\ jobs[i].pid = NoPid
  BY <1>1 DEF FreeSlots
<1>4. /\ jobs'[i].pid = p /\ jobs'[i].state = st
      /\ \A j \in Slot : j # i => jobs'[j] = jobs[j]
  BY <1>1, <1>3 DEF TypeOK
<1>5. \A j \in Slot : jobs[j].pid # p
  BY <1>1, <1>2 DEF ListInv
<1>6. JobStateOf(p) = "none"
  <2>1. getjobpid(jobs, p) \in Slot \cup {0}
        /\ (getjobpid(jobs, p) # 0 => jobs[getjobpid(jobs, p)].pid = p)
    BY GetjobpidFinds DEF TypeOK
  <2> QED
    BY <1>5, <2>1 DEF JobStateOf
<1>7. JobStateOf(p)' = st
  <2>1. \A j \in Slot : jobs'[j].pid = p => j = i
    BY <1>4, <1>5
  <2>2. getjobpid(jobs', p) = i /\ i # 0
    BY <1>3, <1>4, <2>1, GetjobpidIsSlot DEF TypeOK
  <2> QED
    BY <1>4, <2>2 DEF JobStateOf
<1>8. \A q \in Pid : q # p => JobStateOf(q)' = JobStateOf(q)
  BY <1>3, <1>4, PidAssumption, OtherStates DEF TypeOK
<1>9. \A q \in Pid : JobStateOf(q) # "FG"
  BY <1>2, NoForegroundState DEF TypeOK, LoopInv
<1>10. Control!Launch(p, st)
  BY <1>6, <1>7, <1>8, <1>9 DEF Control!Launch, Control!NoForeground
<1> QED
  BY <1>10 DEF Control!Next

\* fg and bg are a Resume.
LEMMA MovedResumes ==
  ASSUME BaseInv, BaseInv', StateInv, Moved
  PROVE  Control!Next
<1> USE DEF BaseInv
<1>1. PICK p \in Pid, i \in Slot, st \in {"FG", "BG"} : jobs[i].pid = p /\ setstate(i, st)
  BY DEF Moved
<1>2. status = "running" /\ FgSlots(jobs) = {} /\ st \in JobState
  BY DEF Moved, LoopInv, JobState
<1>3. \A q \in Pid : JobStateOf(q) # "FG"
  BY <1>2, NoForegroundState DEF TypeOK
<1>4. JobStateOf(p) = jobs[i].state
  BY <1>1, <1>2, StateOfSlot
<1>5. JobStateOf(p) \in {"BG", "ST"}
  BY <1>1, <1>3, <1>4 DEF StateInv
<1>6. Control!Resume(p, st)
  BY <1>1, <1>2, <1>3, <1>5, SetstateState
     DEF Control!Resume, Control!NoForeground
<1> QED
  BY <1>1, <1>6 DEF Control!Next

\* A stop that sigchld_handler lists is a Stop, or was listed already.
LEMMA HaltedStops ==
  ASSUME BaseInv, BaseInv', StateInv, NEW p \in Pid, Halted(p)
  PROVE  [Control!Next]_[q \in Pid |-> JobStateOf(q)]
<1> USE DEF BaseInv
<1>1. PICK i \in Slot : jobs[i].pid = p /\ setstate(i, "ST")
  BY DEF Halted
<1>s. status = "running"
  BY DEF Halted
<1>2. JobStateOf(p) = jobs[i].state /\ jobs[i].state \in {"FG", "BG", "ST"}
  BY <1>s, <1>1, StateOfSlot DEF StateInv
<1>3. [q \in Pid |-> JobStateOf(q)]'
        = [[q \in Pid |-> JobStateOf(q)] EXCEPT ![p] = "ST"]
  BY <1>s, <1>1, SetstateState DEF JobState
<1>4. CASE jobs[i].state = "ST"
  BY <1>2, <1>3, <1>4
<1>5. CASE jobs[i].state # "ST"
  BY <1>2, <1>3, <1>5 DEF Control!Next, Control!Stop
<1> QED
  BY <1>4, <1>5

\* deletejob is an End.
LEMMA DeletedEnds ==
  ASSUME BaseInv, BaseInv', StateInv, NEW p \in Pid, Deleted(p)
  PROVE  Control!Next
<1> USE DEF BaseInv
<1>1. PICK i \in Slot : jobs[i].pid = p /\ jobs' = [jobs EXCEPT ![i] = EmptyJob]
  BY DEF Deleted
<1>s. status = "running"
  BY DEF Deleted
<1>2. JobStateOf(p) = jobs[i].state /\ jobs[i].state # "none"
  BY <1>s, <1>1, StateOfSlot DEF StateInv
<1>3. jobs'[i].pid = NoPid /\ \A j \in Slot : j # i => jobs'[j] = jobs[j]
  BY <1>1 DEF TypeOK, EmptyJob
<1>4. \A j \in Slot : jobs'[j].pid # p
  BY <1>s, <1>1, <1>3, PidAssumption DEF ListInv
<1>5. JobStateOf(p)' = "none"
  <2>1. getjobpid(jobs', p) \in Slot \cup {0}
        /\ (getjobpid(jobs', p) # 0 => jobs'[getjobpid(jobs', p)].pid = p)
    BY GetjobpidFinds DEF TypeOK
  <2> QED
    BY <1>4, <2>1 DEF JobStateOf
<1>6. \A q \in Pid : q # p => JobStateOf(q)' = JobStateOf(q)
  BY <1>1, <1>3, PidAssumption, OtherStates DEF TypeOK
<1>7. Control!End(p)
  BY <1>2, <1>5, <1>6 DEF Control!End
<1> QED
  BY <1>7 DEF Control!Next

\* The table, the signals and the handlers together are the job control of the
\* head comment: every step launches, resumes, stops or ends one job, or none,
\* and jobs are launched and resumed while no job has the foreground.
THEOREM Refinement == Spec => ImplementsJobControl
<1>1. Init => Control!Init
  <2> SUFFICES ASSUME Init PROVE Control!Init
    OBVIOUS
  <2>1. jobs \in [Slot -> Job] /\ \A i \in Slot : jobs[i].pid = NoPid
    BY InitType DEF Init, InitJobs, EmptyJob, TypeOK
  <2>2. \A p \in Pid : JobStateOf(p) = "none"
    BY <2>1, GetjobpidFinds, PidAssumption DEF JobStateOf
  <2> QED
    BY <2>2 DEF Control!Init
<1>2. IInv /\ IInv' /\ [Next]_vars => [Control!Next]_[p \in Pid |-> JobStateOf(p)]
  <2> SUFFICES ASSUME IInv, IInv', [Next]_vars
               PROVE  [Control!Next]_[p \in Pid |-> JobStateOf(p)]
    OBVIOUS
  <2> USE DEF IInv
  <2>1. CASE UNCHANGED jobs
    BY <2>1 DEF JobStateOf
  <2>2. CASE Entered
    BY <2>2, EnteredLaunches
  <2>3. CASE Moved
    BY <2>3, MovedResumes
  <2>4. CASE \E p \in Pid : Deleted(p) \/ Halted(p)
    BY <2>4, HaltedStops, DeletedEnds
  <2> QED
    BY <2>1, <2>2, <2>3, <2>4, TableStep
<1> QED
  BY <1>1, <1>2, Invariance, PTL DEF Spec, ImplementsJobControl, Control!Spec
=============================================================================
