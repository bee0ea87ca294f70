------------------------------ MODULE MCWebUI ------------------------------
(***************************************************************************)
(* A page with two polls in flight and two tasks started one after the     *)
(* other.                                                                  *)
(***************************************************************************)
EXTENDS WebUI, TLC

CONSTANTS p1, p2

Symmetry == Permutations(Polls)
=============================================================================
