--------------------------- MODULE DemoScenarios ---------------------------
(***************************************************************************)
(* The three mechanism demos: demo/scenarios.py (scripts, limits and the   *)
(* acceptance conditions over the audit log), the way demo/service.py runs *)
(* them behind the web page, and the way `make demo` runs them             *)
(* (demos/demo1, demo2 and demo3, with the contract each run returns).     *)
(* A run is a run of Harness with the scenario's limits and tools; this    *)
(* module adds what surrounds it: the scripted model, the resolver of the  *)
(* third scenario, the files of the workspace, and the check command that  *)
(* reads them.                                                             *)
(***************************************************************************)
EXTENDS Naturals, Sequences, FiniteSets

Scenarios == {"guardrail", "repair", "binding"}
DemoActions == {"rm", "wrong", "right", "tests", "finish", "approved", "superseded", "mutated"}
Writes == DemoActions \ {"rm", "tests", "finish"}
Files == {"calc", "approved.txt", "superseded.txt"}

VARIABLES
    scenario,    \* which demo this is
    web,         \* behind the web page (a human decides, can cancel), or `make demo`
    disk,        \* the write each file holds, "none" while there is no such file
    round3,      \* the prompt of the third round carried TEST_FAILURE
    undisturbed, \* no exception, timeout, cancellation, failed write or rejection so far
    \* the variables of the loop
    pc, c, attempts, action, verdict, approved_fp, result, tracker, recent_steps,
    last_feedback, audit, reason, expired, cancelled, ran, replies

loop == <<pc, c, attempts, action, verdict, approved_fp, result, tracker, recent_steps,
          last_feedback, audit, reason, expired, cancelled, ran, replies>>
vars == <<scenario, web, disk, round3, undisturbed, loop>>

(***************************************************************************)
(* The three instances of the loop                                         *)
(***************************************************************************)
\* The engine: rm is not an allowed command, src/ may be written, docs/ needs an approval.
DemoPolicy ==
    [a \in DemoActions |->
        CASE a = "rm" -> "DENY"
          [] a \in {"approved", "superseded", "mutated"} -> "REQUIRE_APPROVAL"
          [] OTHER -> "ALLOW"]

Success == [tests |-> FALSE, status |-> "success", category |-> "none"]
WriteError == [tests |-> FALSE, status |-> "error", category |-> "TOOL_ERROR"]
TestRun(status, category) == [tests |-> TRUE, status |-> status, category |-> category]

\* The tools: a write may meet an OSError, the check command passes, fails or times out.
DemoOutcomes ==
    [a \in DemoActions |->
        CASE a = "tests" -> {TestRun("success", "none"), TestRun("failure", "none"),
                             TestRun("failure", "TIMEOUT")}
          [] a \in Writes -> {Success, WriteError}
          [] OTHER -> {Success}]

Guardrail == INSTANCE Harness WITH
    Actions <- DemoActions, Finish <- "finish", Registered <- {"rm"}, Fenced <- {},
    Policy <- DemoPolicy, Outcomes <- DemoOutcomes, MaxSteps <- 1, MaxFailures <- 5,
    NoProgressLimit <- 3, ActionRetryLimit <- 3, LlmMaxRetries <- 3

Repair == INSTANCE Harness WITH
    Actions <- DemoActions, Finish <- "finish",
    Registered <- {"wrong", "right", "tests", "finish"}, Fenced <- {},
    Policy <- DemoPolicy, Outcomes <- DemoOutcomes, MaxSteps <- 20, MaxFailures <- 5,
    NoProgressLimit <- 3, ActionRetryLimit <- 3, LlmMaxRetries <- 3

Binding == INSTANCE Harness WITH
    Actions <- DemoActions, Finish <- "finish", Registered <- Writes \cup {"finish"},
    Fenced <- {}, Policy <- DemoPolicy, Outcomes <- DemoOutcomes, MaxSteps <- 3,
    MaxFailures <- 5, NoProgressLimit <- 3, ActionRetryLimit <- 3, LlmMaxRetries <- 3

LoopStep ==
    \/ scenario = "guardrail" /\ Guardrail!Next
    \/ scenario = "repair" /\ Repair!Next
    \/ scenario = "binding" /\ Binding!Next

(***************************************************************************)
(* What surrounds the loop                                                 *)
(***************************************************************************)
\* mock_script.
Script ==
    CASE scenario = "guardrail" -> <<"rm">>
      [] scenario = "repair" -> <<"wrong", "tests", "right", "tests", "finish">>
      [] scenario = "binding" -> <<"approved", "superseded", "finish">>

\* MockLLM: the replies of the script in order; once it is exhausted every call fails.
ScriptedModel ==
    /\ replies' # replies => /\ pc' = "dispatch"
                             /\ replies < Len(Script)
                             /\ action' = Script[replies + 1]
    /\ attempts' > attempts => replies = Len(Script)

File(a) == CASE a \in {"wrong", "right"} -> "calc"
             [] a = "approved" -> "approved.txt"
             [] OTHER -> "superseded.txt"

Count(type, data) ==
    Cardinality({i \in 1..Len(audit) : audit[i].type = type /\ audit[i].data = data})

\* The calls of the resolver so far: each one is followed by its APPROVAL_DECIDED event.
Decided == {i \in 1..Len(audit) : audit[i].type = "APPROVAL_DECIDED"}

\* Mutant: the counter of the calls is one ahead.
ResolverOfBinding_OneAhead ==
    /\ pc' = "rejected" => FALSE
    /\ pc' = "resume" => action' = "mutated"

\* _wrap_supersede_resolver and demo3's resolver: the first call is decided by the human (by
\* the demo itself outside the web), unchanged; every later one changes the arguments after
\* the fingerprint was taken, and approves.
ResolverOfBinding ==
    /\ pc' = "rejected" => Decided = {} /\ web
    /\ pc' = "resume" => action' = IF Decided = {} THEN action ELSE "mutated"

CheckPasses == disk["calc"] = "right"

\* The check command tells the truth about calc.py, in a test run and in the final
\* verifier, which counts a timeout as not verified; the other scenarios verify nothing.
HonestCheck ==
    /\ ran' # ran /\ action = "tests" /\ result'.category = "none" =>
           (result'.status = "success" <=> CheckPasses)
    /\ pc = "finish" /\ reason' = "COMPLETED" => scenario # "repair" \/ CheckPasses
    /\ pc = "finish" /\ pc' = "check" => scenario = "repair"

\* WriteFileTool replaces the content of the file.
WriteFiles ==
    disk' = IF ran' # ran /\ action \in Writes /\ result'.status = "success"
            THEN [disk EXCEPT ![File(action)] = action]
            ELSE disk

Disturbance ==
    \/ expired' \/ cancelled' \/ reason' = "INTERNAL_ERROR" \/ pc' = "rejected"
    \/ result'.status = "error" \/ result'.category = "TIMEOUT"
    \/ pc = "finish" /\ pc' = "check" /\ CheckPasses

ShowsTestFailure ==
    last_feedback = "TEST_FAILURE" \/ \E i \in 1..Len(recent_steps) : recent_steps[i] = "TEST_FAILURE"

Surroundings ==
    /\ ScriptedModel
    /\ pc = "approval" => ResolverOfBinding
    /\ HonestCheck
    /\ WriteFiles
    /\ cancelled' => web
    /\ round3' = IF replies' = 3 /\ replies = 2 THEN ShowsTestFailure ELSE round3
    /\ undisturbed' = (undisturbed /\ ~Disturbance)
    /\ UNCHANGED <<scenario, web>>

\* start_run, or run() of a demo module: a fresh workspace.
Init ==
    /\ scenario \in Scenarios
    /\ web \in BOOLEAN
    /\ disk = [f \in Files |-> "none"]
    /\ round3 = FALSE
    /\ Guardrail!Init
    /\ cancelled = FALSE
    /\ undisturbed = TRUE

Next == LoopStep /\ Surroundings

Spec == Init /\ [][Next]_vars

(***************************************************************************)
(* The acceptance conditions and the contracts                             *)
(***************************************************************************)
\* _termination_to_state; get_run reads RUNNING before that.
FinalState ==
    CASE pc # "done" -> "RUNNING"
      [] reason \in {"COMPLETED", "CANCELLED"} -> reason
      [] OTHER -> "FAILED"

HasDeny == Count("GOVERNANCE_DECISION", "DENY") > 0
FeedbackSeen(category) == Count("FEEDBACK", category) > 0
ToolExecutions == {i \in 1..Len(audit) : audit[i].type = "TOOL_EXECUTED"}
ApprovedThenSuperseded ==
    \E i, j \in Decided : i < j /\ audit[i].data = "APPROVED" /\ audit[j].data = "SUPERSEDED"

\* Mutant: any terminal state counts as the verified completion.
SuccessConditions_AnyEnd ==
    CASE scenario = "guardrail" ->
            {HasDeny, ToolExecutions = {}, FeedbackSeen("POLICY_DENIED")}
      [] scenario = "repair" ->
            {pc = "done", FeedbackSeen("TEST_FAILURE"), ToolExecutions # {}}
      [] scenario = "binding" ->
            {Count("APPROVAL_DECIDED", "APPROVED") > 0,
             Count("APPROVAL_DECIDED", "SUPERSEDED") > 0, ApprovedThenSuperseded}

\* success_conditions over build_run_outcome; a DENY always carries its rule.
SuccessConditions ==
    CASE scenario = "guardrail" ->
            {HasDeny, ToolExecutions = {}, FeedbackSeen("POLICY_DENIED")}
      [] scenario = "repair" ->
            {FinalState = "COMPLETED", FeedbackSeen("TEST_FAILURE"), ToolExecutions # {}}
      [] scenario = "binding" ->
            {Count("APPROVAL_DECIDED", "APPROVED") > 0,
             Count("APPROVAL_DECIDED", "SUPERSEDED") > 0, ApprovedThenSuperseded}

\* evaluate: every condition passed.
AllPass == FALSE \notin SuccessConditions

\* What the spies of the demos count.
Executed(S) == {i \in 1..Len(ran) : ran[i].action \in S}

\* demo1: the spy and the audit log.
DangerDenied ==
    /\ ran = <<>> /\ ToolExecutions = {}
    /\ HasDeny /\ FeedbackSeen("POLICY_DENIED")

\* demo2: the failure reached the third prompt, the action changed, the fix is on disk.
RepairProven ==
    /\ reason = "COMPLETED"
    /\ replies >= 3 /\ Script[1] # Script[3]
    /\ round3
    /\ disk["calc"] = "right"

\* demo3: paused before anything ran, the approved write ran once and is on disk, the
\* superseded one is not, and the log tells the story.
BindingProven ==
    /\ Decided # {} => \A i \in Executed(Writes) : \E j \in Decided : audit[j].step <= ran[i].step
    /\ Cardinality(Executed(Writes)) = 1 /\ Executed({"approved"}) # {}
    /\ disk["approved.txt"] = "approved" /\ disk["superseded.txt"] = "none"
    /\ Count("APPROVAL_DECIDED", "APPROVED") > 0
    /\ Count("APPROVAL_DECIDED", "SUPERSEDED") > 0

\* The checks run_demos.py makes of the contract a demo returns.
Contract ==
    CASE scenario = "guardrail" -> DangerDenied
      [] scenario = "repair" -> RepairProven
      [] scenario = "binding" -> BindingProven

(***************************************************************************)
(* Properties                                                              *)
(***************************************************************************)
\* The conditions read the audit log only, and still a run they accept, finished or not,
\* has done what the demo claims: nothing ran; the verified fix is on disk after its tests
\* had failed; of the writes the one the human approved was called, once, and no other.  That
\* the approved call succeeded the conditions cannot see: AcceptedRunPassesContract.
AcceptanceIsGroundTruth ==
    AllPass =>
        CASE scenario = "guardrail" -> ran = <<>>
          [] scenario = "repair" -> disk["calc"] = "right" /\ round3
          [] scenario = "binding" ->
                /\ Cardinality(Executed({"approved"})) = 1
                /\ Executed(Writes \ {"approved"}) = {}
                /\ disk["superseded.txt"] = "none"

\* "The run is fully deterministic": a run nothing disturbs passes the contract of `make
\* demo` and every acceptance condition of the web page, within its scripted replies.
UndisturbedDemoPasses ==
    pc = "done" /\ undisturbed => Contract /\ AllPass /\ replies = Len(Script)

\* Whatever the human decides and whenever the run is cancelled or dies: the write whose
\* arguments changed after its approval, and the dangerous command, never execute.
RefusedActionsNeverRun ==
    /\ Executed({"rm", "superseded", "mutated"}) = {}
    /\ disk["superseded.txt"] = "none"

\* The page introduces the conditions as "the same ones the demo scripts assert", and the
\* consistency test says that neither side accepts a run the other rejects: a finished run
\* that passes all conditions passes the checks of `make demo`.
AcceptedRunPassesContract == pc = "done" /\ AllPass => Contract
=============================================================================
