-------------------------- MODULE MCDemoScenarios --------------------------
(***************************************************************************)
(* The demos with their real scripts and limits: nothing is scaled down.   *)
(***************************************************************************)
EXTENDS DemoScenarios
=============================================================================
