----------------------------- MODULE MCHarness -----------------------------
(***************************************************************************)
(* A small instance of the loop: one action of each governance class, two  *)
(* that need approval so that one can turn into the other, and the views   *)
(* over its audit log.                                                     *)
(***************************************************************************)
EXTENDS StepViews, TLC

CONSTANTS tests, write, rewrite, push, unknown, finish

MCPolicy ==
    [a \in Actions |->
        CASE a \in {tests, finish} -> "ALLOW"
          [] a \in {write, rewrite} -> "REQUIRE_APPROVAL"
          [] OTHER -> "DENY"]

Success == [tests |-> FALSE, status |-> "success", category |-> "none"]
ToolError == [tests |-> FALSE, status |-> "error", category |-> "TOOL_ERROR"]
MCOutcomes ==
    [a \in Actions |->
        CASE a = tests -> {[tests |-> TRUE, status |-> s, category |-> "none"]
                              : s \in {"success", "failure"}}
          [] a = write -> {Success, ToolError}
          [] OTHER -> {Success}]
=============================================================================
