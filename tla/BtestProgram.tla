---------------------------- MODULE BtestProgram ----------------------------
(***************************************************************************)
(* btest of the data lab, beside the other programs.                       *)
(***************************************************************************)
EXTENDS Programs

CONSTANTS
  CommandLines, AllFunctions, TEST_RANGE, SQRT_RANGE, CBRT_RANGE,
  RandomWords, MaxTimeouts

VARIABLES command, has_arg, puzzle, arg_test_vals, tests, errors, points, timeouts, armed

btestVars == <<command, has_arg, puzzle, arg_test_vals, tests, errors, points, timeouts, armed>>
btestProgramVars == <<prog, btestVars>>

Btest == INSTANCE Btest WITH i <- puzzle, Random <- RandomWords

BtestProgramInit ==
  /\ ProgInit
  /\ IF prog = "btest" THEN Btest!Init
     ELSE /\ command = Absent /\ has_arg = Absent /\ puzzle = Absent /\ arg_test_vals = Absent
          /\ tests = Absent /\ errors = Absent /\ points = Absent /\ timeouts = Absent
          /\ armed = Absent

BtestProgramNext ==
  /\ UNCHANGED prog
  /\ IF prog = "btest" THEN Btest!Next ELSE UNCHANGED btestVars

BtestProgramSpec == BtestProgramInit /\ [][BtestProgramNext]_btestProgramVars
-----------------------------------------------------------------------------
(* bits.c: no puzzle gives a wrong answer on the values btest tries. *)
PuzzlesRight == prog = "btest" => Btest!PuzzlesRight
=============================================================================
