------------------------------ MODULE Programs ------------------------------
(***************************************************************************)
(* The smaller programs are put side by side and only prog runs: the       *)
(* variables of the others keep the value they begin with.                 *)
(***************************************************************************)
EXTENDS Integers

CONSTANT Programs         \* those that may run

VARIABLE prog

Absent == 0

ProgInit == prog \in Programs
=============================================================================
