----------------------------- MODULE JobControl -----------------------------
(***************************************************************************)
(* What the tiny shell promises of its jobs, without the table, the        *)
(* signals and the handlers: the diagram of job states in the head comment *)
(* of src/Lab5_shelllab/tsh.c, with the transition from the background to  *)
(* stopped that sigchld_handler makes as well.  The user is served, and    *)
(* jobs are started or resumed, only while no job has the foreground.      *)
(***************************************************************************)
CONSTANT Pid

VARIABLE state   \* the state of every child, "none" when it is not a job

NoForeground == \A p \in Pid : state[p] # "FG"

Init == state = [p \in Pid |-> "none"]

Launch(p, st) ==
  /\ NoForeground
  /\ state[p] = "none"
  /\ state' = [state EXCEPT ![p] = st]

\* fg and bg
Resume(p, st) ==
  /\ NoForeground
  /\ state[p] \in {"BG", "ST"}
  /\ state' = [state EXCEPT ![p] = st]

Stop(p) ==
  /\ state[p] \in {"FG", "BG"}
  /\ state' = [state EXCEPT ![p] = "ST"]

End(p) ==
  /\ state[p] # "none"
  /\ state' = [state EXCEPT ![p] = "none"]

Next ==
  \E p \in Pid :
    \/ \E st \in {"FG", "BG"} : Launch(p, st) \/ Resume(p, st)
    \/ Stop(p)
    \/ End(p)

Spec == Init /\ [][Next]_state
=============================================================================
