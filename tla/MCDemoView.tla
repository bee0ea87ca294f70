----------------------------- MODULE MCDemoView -----------------------------
(***************************************************************************)
(* DemoView on a page that starts two demos, with two polls in flight.     *)
(***************************************************************************)
EXTENDS DemoView
=============================================================================
