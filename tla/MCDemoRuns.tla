----------------------------- MODULE MCDemoRuns -----------------------------
(***************************************************************************)
(* Small instances of the demo manager.                                    *)
(***************************************************************************)
EXTENDS DemoRuns, TLC

CONSTANTS r1, r2, w1, w2, s1, s2

Symmetry == Permutations(Runs) \cup Permutations(Workers) \cup Permutations(Scenarios)
=============================================================================
