------------------------------- MODULE MCLabs -------------------------------
(***************************************************************************)
(* The programs of the smaller labs side by side: those of LabPrograms,    *)
(* btest, the transposes, and the queue of Qtest with two strings and      *)
(* blocks for three elements.                                              *)
(***************************************************************************)
EXTENDS Qtest, LabPrograms, BtestProgram, TLC

CONSTANT Sizes            \* trans

VARIABLES size, fn, blocks, rows, matrix, traced, results

transVars == <<size, fn, blocks, rows, matrix, traced, results>>

Trans == INSTANCE Transpose WITH n <- blocks, B <- matrix, cache <- traced

Sym == Permutations(Strings)

\* console: up to two lines in the main script and one in the file that it
\* sources, with or without a last one that has no newline.
MainLines == {
  <<>>, <<"work">>, <<"time", " ", "bad">>, <<"quit">>, <<"source", " ", "inc">>,
  <<"source", " ", "none">>, <<"option", " ", "error", " ", "1">>,
  <<"time", " ", "source", " ", "inc", " ", "work", " ", "work">>}
Texts(lines, k, last) ==
  {FoldLeft(LAMBDA t, l : t \o l \o <<"\n">>, <<>>, ls) \o e :
     ls \in UNION {[1..j -> lines] : j \in 0..k}, e \in {<<>>, last}}
MCScripts == {[main |-> t, inc |-> u] : t \in Texts(MainLines, 2, <<"work">>),
                                        u \in Texts({<<"bad">>, <<"quit">>}, 1, <<"bad">>)}

\* rio: messages of up to five bytes, all different but for the newlines.
MCMessages ==
  {[k \in 1..l |-> IF k \in ends THEN "nl" ELSE <<"a", "b", "c", "d", "e">>[k]] :
     l \in 0..5, ends \in SUBSET (1..5)}

\* csim: two sets of two lines, three tags in one, five lines of trace.
MCAddresses == {0, 1, 2, 4}

\* trans: the three sizes of driver.py, at their real size, and another.
MCSizes == {<<32, 32>>, <<64, 64>>, <<61, 67>>, <<8, 8>>}

\* btest: up to 76 values of an argument.
Lines == INSTANCE MCBtest WITH i <- puzzle, Random <- <<>>, CommandLines <- {}
MCLines == Lines!MCLines
MCRandom == Lines!MCRandom

-----------------------------------------------------------------------------
LabsInit ==
  /\ LabProgramsInit
  /\ BtestProgramInit
  /\ IF prog = "trans" THEN Trans!Init
     ELSE /\ size = Absent /\ fn = Absent /\ blocks = Absent /\ rows = Absent
          /\ matrix = Absent /\ traced = Absent /\ results = Absent
  /\ Init
  /\ prog # "queue" => verbose = FALSE

LabsNext ==
  /\ LabProgramsNext
  /\ BtestProgramNext
  /\ IF prog = "trans" THEN Trans!Next ELSE UNCHANGED transVars
  /\ IF prog = "queue" THEN Next ELSE UNCHANGED vars

labsVars == <<labProgramsVars, btestProgramVars, transVars, vars>>

LabsSpec == LabsInit /\ [][LabsNext]_labsVars

-----------------------------------------------------------------------------
(* trans.c: the finished blocks of the transpose stay right. *)
TransposeRight == prog = "trans" => Trans!TransposeRight

(* trans.c: the submission has no more misses than driver.py asks for. *)
MissesWithinGoal == prog = "trans" => Trans!MissesWithinGoal
=============================================================================
