------------------------ MODULE MCFunctionalTests ------------------------
(***************************************************************************)
(* Two runs of two tests.  The first test sets a manual point; the second  *)
(* sets that point too, a commandable one and one with a behavior.         *)
(***************************************************************************)
EXTENDS FunctionalTests, TLC

CONSTANTS r1, r2, t1, t2, manual, output, behaved

MCTestPoints == [t \in Tests |-> IF t = t1 THEN {manual} \cap Points ELSE Points]

\* The runs are interchangeable.
RunSymmetry == Permutations(Runs)
=============================================================================
