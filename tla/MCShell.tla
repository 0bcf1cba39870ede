------------------------------ MODULE MCShell ------------------------------
(* Model checking of Shell: the children are interchangeable. *)
EXTENDS ShellInv, TLC

PidSymmetry == Permutations(Pid)
=============================================================================
