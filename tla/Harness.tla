------------------------------ MODULE Harness ------------------------------
(***************************************************************************)
(* The agent loop of aegiscode/loop/harness.py for one task: the           *)
(* termination checks, the LLM call with its retries, the dispatch through *)
(* governance, the approval that is bound to a fingerprint, the tool run,  *)
(* the feedback and the audit events, in the order the code performs them. *)
(* Each action ends where the run can be observed or can fail: at a check  *)
(* of the clock or of the cancel flag, at a call of the model, of a tool   *)
(* or of the approver, and after each event that reaches the audit log.    *)
(***************************************************************************)
EXTENDS Naturals, Sequences, FiniteSets

CONSTANTS
    Actions,       \* the parsed actions; an action stands for its fingerprint
    Finish,        \* the finish action
    Registered,    \* actions whose tool is in the registry
    Fenced,        \* actions that carry a path or a command the fence looks at
    Policy,        \* the engine's decision for each action
    Outcomes,      \* the results each action's tool can return
    MaxSteps, MaxFailures, NoProgressLimit, ActionRetryLimit, LlmMaxRetries

Decisions == {"ALLOW", "ALLOW_WITH_AUDIT", "REQUIRE_APPROVAL", "DENY"}
Executing == {"ALLOW", "ALLOW_WITH_AUDIT"}

Categories == {"TEST_FAILURE", "TOOL_ERROR", "POLICY_DENIED", "TIMEOUT",
               "APPROVAL_REJECTED", "INVALID_ACTION", "INTERNAL_ERROR", "NO_PROGRESS"}
Statuses == {"success", "failure", "denied", "error"}
Results == [tests : BOOLEAN, status : Statuses, category : Categories \cup {"none"}]

\* What a tool itself returns: the denials come from the dispatcher, and a repetition
\* (NO_PROGRESS) is the loop's own verdict.
ToolResults == {r \in Results : r.status # "denied" /\ r.category # "NO_PROGRESS"}

Reasons == {"COMPLETED", "MAX_STEPS", "CONSECUTIVE_FAILURES", "NO_PROGRESS", "CANCELLED",
            "INVALID_ACTION_LIMIT", "LLM_ERROR", "INTERNAL_ERROR", "TIMEOUT"}

ASSUME ActionsAssumption ==
    /\ Finish \in Actions
    /\ Registered \subseteq Actions
    /\ Fenced \subseteq Actions
    /\ Policy \in [Actions -> Decisions]
    /\ Outcomes \in [Actions -> (SUBSET ToolResults) \ {{}}]

ASSUME LimitsAssumption ==
    /\ MaxSteps \in Nat
    /\ MaxFailures \in Nat
    /\ NoProgressLimit \in Nat
    /\ ActionRetryLimit \in Nat
    /\ LlmMaxRetries \in Nat

VARIABLES
    pc,             \* where the run is
    c,              \* LoopCounters
    attempts,       \* failed calls of the model in this turn
    action,         \* the action object the turn works on
    verdict,        \* the governance decision on it
    approved_fp,    \* the fingerprint the approval is bound to
    result,         \* the ToolResult of the turn
    tracker,        \* ProgressTracker._recent
    recent_steps,   \* the step records the next prompt shows, as their categories
    last_feedback,  \* the feedback the next prompt shows, as its leading tag
    audit,          \* the task's audit events, oldest first
    reason,         \* what run() returned, "none" before that
    expired,        \* elapsed_sec >= wall_clock_timeout_sec
    cancelled,      \* the flag behind cancel_check
    ran,            \* history: every call of a tool
    replies         \* history: the number of model replies consumed

vars == <<pc, c, attempts, action, verdict, approved_fp, result, tracker, recent_steps,
          last_feedback, audit, reason, expired, cancelled, ran, replies>>

(***************************************************************************)
(* Types                                                                   *)
(***************************************************************************)
EventTypes == {"ACTION_PROPOSED", "GOVERNANCE_DECISION", "APPROVAL_DECIDED",
               "TOOL_EXECUTED", "FEEDBACK", "TERMINATION"}
Feedbacks == Categories \cup {"none", "SUCCESS", "PARSE_ERROR", "FINISH_REJECTED"}
ApprovalStates == {"APPROVED", "REJECTED", "SUPERSEDED"}
EventData == Actions \cup Decisions \cup ApprovalStates \cup Statuses \cup Feedbacks
             \cup Reasons \cup {"unparsable"}
Events == [type : EventTypes, step : Nat, data : EventData, detail : Feedbacks]
LoopCounters == [step : Nat, consecutive_failures : Nat, invalid_actions : Nat,
                 no_progress_hits : Nat]
Executions == [action : Actions, step : Nat, late : BOOLEAN]

\* The program points inside the try block of a turn, where an exception ends the run.
TurnPoints == {"llm", "invalid", "dispatch", "verdict", "denied", "approval", "rejected",
               "resume", "superseded", "approved", "executed", "finish", "classify", "feedback"}

(***************************************************************************)
(* Helpers: the counters, the classifier, the tracker                      *)
(***************************************************************************)
\* A limit that is noticed only once it has been exceeded (for the mutants).
DecideTermination_Exceeded(cs, late) ==
    IF late THEN "TIMEOUT"
    ELSE IF cs.invalid_actions > ActionRetryLimit THEN "INVALID_ACTION_LIMIT"
    ELSE IF cs.consecutive_failures > MaxFailures THEN "CONSECUTIVE_FAILURES"
    ELSE IF cs.no_progress_hits > NoProgressLimit THEN "NO_PROGRESS"
    ELSE IF cs.step > MaxSteps THEN "MAX_STEPS"
    ELSE "none"

\* decide_termination: the first limit reached, the wall clock before every counter.
DecideTermination(cs, late) ==
    IF late THEN "TIMEOUT"
    ELSE IF cs.invalid_actions >= ActionRetryLimit THEN "INVALID_ACTION_LIMIT"
    ELSE IF cs.consecutive_failures >= MaxFailures THEN "CONSECUTIVE_FAILURES"
    ELSE IF cs.no_progress_hits >= NoProgressLimit THEN "NO_PROGRESS"
    ELSE IF cs.step >= MaxSteps THEN "MAX_STEPS"
    ELSE "none"

\* classify: the failure category of a tool result, "none" for a success.
Classify(r) ==
    IF r.category \in Categories \ {"TEST_FAILURE"} THEN r.category
    ELSE IF r.tests /\ r.status = "failure" THEN "TEST_FAILURE"
    ELSE IF r.status \in {"failure", "error"} THEN "TOOL_ERROR"
    ELSE "none"

\* The newest n members of a sequence: a deque(maxlen=n), and list[-n:] for n > 0.
Newest(s, n) == IF Len(s) <= n THEN s ELSE SubSeq(s, Len(s) - n + 1, Len(s))

\* ProgressTracker.seen looks the fingerprint up before it appends it.
Seen(a) == \E i \in 1..Len(tracker) : tracker[i] = a

\* The updates of LoopCounters by a reply and at the end of a turn.
Counters(step, failures, invalid, hits) ==
    [step |-> step, consecutive_failures |-> failures, invalid_actions |-> invalid,
     no_progress_hits |-> hits]
UnparsableReply(cs) ==
    Counters(cs.step, cs.consecutive_failures, cs.invalid_actions + 1, cs.no_progress_hits)
ParsedReply(cs) ==
    Counters(cs.step, cs.consecutive_failures, 0, cs.no_progress_hits)
FailedStep(cs) ==
    Counters(cs.step + 1, cs.consecutive_failures + 1, cs.invalid_actions, cs.no_progress_hits)
RepeatedStep(cs) ==
    Counters(cs.step + 1, cs.consecutive_failures, cs.invalid_actions, cs.no_progress_hits + 1)
SuccessfulStep(cs) ==
    Counters(cs.step + 1, 0, cs.invalid_actions, cs.no_progress_hits)

\* _append_step keeps the newest max_steps records.
AppendStep_OneShort(category) == Newest(Append(recent_steps, category), MaxSteps - 1)
AppendStep(category) == Newest(Append(recent_steps, category), MaxSteps)

\* AuditLog.append as the loop uses it; detail is the tag of a FEEDBACK's text.
Event(type, step, data, detail) ==
    [type |-> type, step |-> step, data |-> data, detail |-> detail]
Emit(type, data) == audit' = Append(audit, Event(type, c.step, data, "none"))
EmitFeedback(category, detail) ==
    audit' = Append(audit, Event("FEEDBACK", c.step, category, detail))

\* A call of tool.run(action.arguments, ctx).
RunTool ==
    /\ result' \in Outcomes[action]
    /\ ran' = Append(ran, [action |-> action, step |-> c.step, late |-> expired \/ cancelled])

\* What the path fence can answer: it reads the file system, which the tools change.
FenceAnswers(a) == IF a \in Fenced THEN BOOLEAN ELSE {TRUE}

\* _audit_term followed by the return of the reason.
Terminate(r) ==
    /\ Emit("TERMINATION", r)
    /\ reason' = r
    /\ pc' = "done"

Goto(from, to) == pc = from /\ pc' = to

unchangedTurn == UNCHANGED <<attempts, action, verdict, approved_fp, result>>
unchangedEnv == UNCHANGED <<expired, cancelled>>
unchangedPrompt == UNCHANGED <<recent_steps, last_feedback>>

(***************************************************************************)
(* The start of a turn                                                     *)
(***************************************************************************)
Init ==
    /\ pc = "check"
    /\ c = Counters(0, 0, 0, 0)
    /\ attempts = 0
    /\ action = Finish /\ verdict = "DENY" /\ approved_fp = Finish
    /\ result = [tests |-> FALSE, status |-> "success", category |-> "none"]
    /\ tracker = <<>>
    /\ recent_steps = <<>>
    /\ last_feedback = "none"
    /\ audit = <<>>
    /\ reason = "none"
    /\ expired = FALSE
    /\ cancelled \in BOOLEAN          \* create_task(pre_cancel=True)
    /\ ran = <<>>
    /\ replies = 0

\* The pre-step check: decide_termination on the counters and the clock.
CheckTermination ==
    /\ pc = "check"
    /\ LET r == DecideTermination(c, expired) IN
          \/ r # "none" /\ Terminate(r)
          \/ r = "none" /\ pc' = "cancel" /\ UNCHANGED <<audit, reason>>
    /\ unchangedTurn /\ unchangedEnv /\ unchangedPrompt
    /\ UNCHANGED <<c, tracker, ran, replies>>

\* A loop that polls the cancel flag only in the first turn.
CheckCancel_FirstTurn ==
    /\ pc = "cancel"
    /\ \/ cancelled /\ c.step = 0 /\ Terminate("CANCELLED") /\ UNCHANGED attempts
       \/ (~cancelled \/ c.step > 0) /\ pc' = "llm" /\ attempts' = 0 /\ UNCHANGED <<audit, reason>>
    /\ unchangedEnv /\ unchangedPrompt
    /\ UNCHANGED <<c, action, verdict, approved_fp, result, tracker, ran, replies>>

\* Cooperative cancellation, polled once per turn.
CheckCancel ==
    /\ pc = "cancel"
    /\ \/ cancelled /\ Terminate("CANCELLED") /\ UNCHANGED attempts
       \/ ~cancelled /\ pc' = "llm" /\ attempts' = 0 /\ UNCHANGED <<audit, reason>>
    /\ unchangedEnv /\ unchangedPrompt
    /\ UNCHANGED <<c, action, verdict, approved_fp, result, tracker, ran, replies>>

(***************************************************************************)
(* The model's answer                                                      *)
(***************************************************************************)
\* One attempt of _complete_with_retry fails.
LlmAttemptFails ==
    /\ pc = "llm"
    /\ attempts < LlmMaxRetries
    /\ attempts' = attempts + 1
    /\ unchangedEnv /\ unchangedPrompt
    /\ UNCHANGED <<pc, c, action, verdict, approved_fp, result, tracker, audit, reason,
                   ran, replies>>

LlmGivesUp_OneTooMany ==
    /\ pc = "llm"
    /\ attempts > LlmMaxRetries
    /\ Terminate("LLM_ERROR")
    /\ unchangedTurn /\ unchangedEnv /\ unchangedPrompt
    /\ UNCHANGED <<c, tracker, ran, replies>>

\* All attempts are used up: LLM_ERROR.
LlmGivesUp ==
    /\ pc = "llm"
    /\ attempts >= LlmMaxRetries
    /\ Terminate("LLM_ERROR")
    /\ unchangedTurn /\ unchangedEnv /\ unchangedPrompt
    /\ UNCHANGED <<c, tracker, ran, replies>>

\* The reply does not parse: it is proposed as an error and counted.
ReplyUnparsable ==
    /\ Goto("llm", "invalid")
    /\ attempts < LlmMaxRetries
    /\ replies' = replies + 1
    /\ c' = UnparsableReply(c)
    /\ last_feedback' = "PARSE_ERROR"
    /\ Emit("ACTION_PROPOSED", "unparsable")
    /\ unchangedTurn /\ unchangedEnv
    /\ UNCHANGED <<tracker, recent_steps, reason, ran>>

FeedbackUnparsable ==
    /\ Goto("invalid", "check")
    /\ EmitFeedback("INVALID_ACTION", "PARSE_ERROR")
    /\ unchangedTurn /\ unchangedEnv /\ unchangedPrompt
    /\ UNCHANGED <<c, tracker, reason, ran, replies>>

\* The reply parses: the streak of unparsable replies ends and the action is proposed.
ReplyAction(a) ==
    /\ Goto("llm", "dispatch")
    /\ attempts < LlmMaxRetries
    /\ replies' = replies + 1
    /\ c' = ParsedReply(c)
    /\ action' = a
    /\ Emit("ACTION_PROPOSED", a)
    /\ unchangedEnv /\ unchangedPrompt
    /\ UNCHANGED <<attempts, verdict, approved_fp, result, tracker, reason, ran>>

(***************************************************************************)
(* Governance                                                              *)
(***************************************************************************)
\* dispatch: registry, fence, engine; a policy error is a DENY like any other.
Judge(a, fenceOk) == IF a \in Registered /\ fenceOk THEN Policy[a] ELSE "DENY"

Dispatch ==
    /\ Goto("dispatch", "verdict")
    /\ \E fenceOk \in FenceAnswers(action) : verdict' = Judge(action, fenceOk)
    /\ \/ verdict' \in Executing /\ RunTool
       \/ verdict' \notin Executing /\ UNCHANGED <<result, ran>>
    /\ unchangedEnv /\ unchangedPrompt
    /\ UNCHANGED <<c, attempts, action, approved_fp, tracker, audit, reason, replies>>

\* The verdict is recorded, after the tool has run if it was an ALLOW.
RecordVerdict ==
    /\ pc = "verdict"
    /\ Emit("GOVERNANCE_DECISION", verdict)
    /\ \/ verdict = "REQUIRE_APPROVAL" /\ pc' = "approval" /\ approved_fp' = action
       \/ verdict = "DENY" /\ pc' = "denied" /\ UNCHANGED approved_fp
       \/ verdict \in Executing /\ pc' = "executed" /\ UNCHANGED approved_fp
    /\ unchangedEnv /\ unchangedPrompt
    /\ UNCHANGED <<c, attempts, action, verdict, result, tracker, reason, ran, replies>>

\* The end of a turn whose action was denied or superseded.
FeedbackDenied ==
    /\ Goto("denied", "check")
    /\ EmitFeedback("POLICY_DENIED", "POLICY_DENIED")
    /\ last_feedback' = "POLICY_DENIED"
    /\ c' = FailedStep(c)
    /\ recent_steps' = AppendStep("POLICY_DENIED")
    /\ unchangedTurn /\ unchangedEnv
    /\ UNCHANGED <<tracker, reason, ran, replies>>

(***************************************************************************)
(* Approval.  The resolver is a callback that holds the mutable action     *)
(* object: the action it leaves behind may be another one (the demo's      *)
(* resolver changes the arguments).                                        *)
(***************************************************************************)
ResolverRejects ==
    /\ Goto("approval", "rejected")
    /\ unchangedTurn /\ unchangedEnv /\ unchangedPrompt
    /\ UNCHANGED <<c, tracker, audit, reason, ran, replies>>

ResolverApproves(a) ==
    /\ Goto("approval", "resume")
    /\ action' = a
    /\ unchangedEnv /\ unchangedPrompt
    /\ UNCHANGED <<c, attempts, verdict, approved_fp, result, tracker, audit, reason,
                   ran, replies>>

RecordRejected ==
    /\ Goto("rejected", "check")
    /\ Emit("APPROVAL_DECIDED", "REJECTED")
    /\ last_feedback' = "APPROVAL_REJECTED"
    /\ c' = FailedStep(c)
    /\ recent_steps' = AppendStep("APPROVAL_REJECTED")
    /\ unchangedTurn /\ unchangedEnv
    /\ UNCHANGED <<tracker, reason, ran, replies>>

\* An approval that authorises whatever the action has become.
StillApproved_Always(a) == TRUE

\* validate_resume: the action still has the fingerprint that was approved.
StillApproved(a) == a = approved_fp

Denied == [tests |-> FALSE, status |-> "denied", category |-> "POLICY_DENIED"]
Unknown == [tests |-> FALSE, status |-> "error", category |-> "INVALID_ACTION"]

\* execute_approved: binding, registry and fence again, then the tool.
ExecuteApproved ==
    /\ pc = "resume"
    /\ \/ /\ ~StillApproved(action)
          /\ pc' = "superseded" /\ result' = Denied /\ UNCHANGED ran
       \/ /\ StillApproved(action)
          /\ pc' = "approved"
          /\ \E fenceOk \in FenceAnswers(action) :
                LET runs == action \in Registered /\ fenceOk IN
                \/ runs /\ RunTool
                \/ ~runs /\ UNCHANGED ran
                   /\ result' = IF action \in Registered THEN Denied ELSE Unknown
    /\ unchangedEnv /\ unchangedPrompt
    /\ UNCHANGED <<c, attempts, action, verdict, approved_fp, tracker, audit, reason, replies>>

\* A superseded approval that falls through to the path of the executed action.
RecordSuperseded_FallsThrough ==
    /\ Goto("superseded", "executed")
    /\ Emit("APPROVAL_DECIDED", "SUPERSEDED")
    /\ unchangedTurn /\ unchangedEnv /\ unchangedPrompt
    /\ UNCHANGED <<c, tracker, reason, ran, replies>>

RecordSuperseded ==
    /\ Goto("superseded", "denied")
    /\ Emit("APPROVAL_DECIDED", "SUPERSEDED")
    /\ unchangedTurn /\ unchangedEnv /\ unchangedPrompt
    /\ UNCHANGED <<c, tracker, reason, ran, replies>>

RecordApproved_Silent ==
    /\ Goto("approved", "executed")
    /\ unchangedTurn /\ unchangedEnv /\ unchangedPrompt
    /\ UNCHANGED <<c, tracker, audit, reason, ran, replies>>

RecordApproved ==
    /\ Goto("approved", "executed")
    /\ Emit("APPROVAL_DECIDED", "APPROVED")
    /\ unchangedTurn /\ unchangedEnv /\ unchangedPrompt
    /\ UNCHANGED <<c, tracker, reason, ran, replies>>

(***************************************************************************)
(* The result of the tool                                                  *)
(***************************************************************************)
RecordExecuted_SuccessOnly ==
    /\ pc = "executed"
    /\ pc' = IF action = Finish THEN "finish" ELSE "classify"
    /\ IF result.status = "success" THEN Emit("TOOL_EXECUTED", "success") ELSE UNCHANGED audit
    /\ unchangedTurn /\ unchangedEnv /\ unchangedPrompt
    /\ UNCHANGED <<c, tracker, reason, ran, replies>>

RecordExecuted ==
    /\ pc = "executed"
    /\ pc' = IF action = Finish THEN "finish" ELSE "classify"
    /\ Emit("TOOL_EXECUTED", result.status)
    /\ unchangedTurn /\ unchangedEnv /\ unchangedPrompt
    /\ UNCHANGED <<c, tracker, reason, ran, replies>>

\* A loop that records the completion and goes on.
FinishAccepted_NoReturn ==
    /\ Goto("finish", "check")
    /\ Emit("TERMINATION", "COMPLETED")
    /\ unchangedTurn /\ unchangedEnv /\ unchangedPrompt
    /\ UNCHANGED <<c, tracker, reason, ran, replies>>

\* The final verifier accepts the finish: the only way to COMPLETED.
FinishAccepted ==
    /\ pc = "finish"
    /\ Terminate("COMPLETED")
    /\ unchangedTurn /\ unchangedEnv /\ unchangedPrompt
    /\ UNCHANGED <<c, tracker, ran, replies>>

FinishRejected ==
    /\ Goto("finish", "check")
    /\ EmitFeedback("FINISH_REJECTED", "FINISH_REJECTED")
    /\ last_feedback' = "FINISH_REJECTED"
    /\ c' = FailedStep(c)
    /\ unchangedTurn /\ unchangedEnv
    /\ UNCHANGED <<tracker, recent_steps, reason, ran, replies>>

\* classify, the progress tracker and the counters; a repetition wins over a failure.
ClassifyResult ==
    /\ Goto("classify", "feedback")
    /\ tracker' = Newest(Append(tracker, action), NoProgressLimit)
    /\ LET failure_cat == Classify(result) IN
          \/ Seen(action) /\ c' = RepeatedStep(c) /\ last_feedback' = "NO_PROGRESS"
          \/ /\ ~Seen(action) /\ failure_cat # "none"
             /\ c' = FailedStep(c) /\ last_feedback' = failure_cat
          \/ /\ ~Seen(action) /\ failure_cat = "none"
             /\ c' = SuccessfulStep(c) /\ last_feedback' = "none"
    /\ unchangedTurn /\ unchangedEnv
    /\ UNCHANGED <<recent_steps, audit, reason, ran, replies>>

\* The FEEDBACK event carries the counter that ClassifyResult has already advanced.
FeedbackResult ==
    /\ Goto("feedback", "check")
    /\ LET failure_cat == Classify(result)
           category == IF failure_cat = "none" THEN "SUCCESS" ELSE failure_cat
       IN  /\ EmitFeedback(category, last_feedback)
           /\ recent_steps' = AppendStep(category)
    /\ unchangedTurn /\ unchangedEnv
    /\ UNCHANGED <<c, tracker, last_feedback, reason, ran, replies>>

(***************************************************************************)
(* Exceptions and the environment                                          *)
(***************************************************************************)
\* An exception in the body of a turn: audited as INTERNAL_ERROR.
TurnRaises ==
    /\ pc \in TurnPoints
    /\ Terminate("INTERNAL_ERROR")
    /\ unchangedTurn /\ unchangedEnv /\ unchangedPrompt
    /\ UNCHANGED <<c, tracker, ran, replies>>

\* _audit_term itself fails: run() raises and the service reports INTERNAL_ERROR.
RunRaises ==
    /\ \/ pc \in TurnPoints
       \/ pc = "check" /\ DecideTermination(c, expired) # "none"
       \/ pc = "cancel" /\ cancelled
    /\ pc' = "done"
    /\ reason' = "INTERNAL_ERROR"
    /\ unchangedTurn /\ unchangedEnv /\ unchangedPrompt
    /\ UNCHANGED <<c, tracker, audit, ran, replies>>

\* The wall clock passes the limit, at any moment of the run.
ClockExpires ==
    /\ pc # "done" /\ ~expired
    /\ expired' = TRUE
    /\ unchangedTurn /\ unchangedPrompt
    /\ UNCHANGED <<pc, c, tracker, audit, reason, cancelled, ran, replies>>

\* A user cancels the task, at any moment of the run.
UserCancels ==
    /\ pc # "done" /\ ~cancelled
    /\ cancelled' = TRUE
    /\ unchangedTurn /\ unchangedPrompt
    /\ UNCHANGED <<pc, c, tracker, audit, reason, expired, ran, replies>>

Done == pc = "done" /\ UNCHANGED vars

\* The steps the run thread takes as long as nothing raises.
Progress ==
    \/ CheckTermination \/ CheckCancel
    \/ LlmAttemptFails \/ LlmGivesUp \/ ReplyUnparsable \/ FeedbackUnparsable
    \/ \E a \in Actions : ReplyAction(a) \/ ResolverApproves(a)
    \/ Dispatch \/ RecordVerdict \/ FeedbackDenied
    \/ ResolverRejects \/ RecordRejected \/ ExecuteApproved \/ RecordSuperseded \/ RecordApproved
    \/ RecordExecuted \/ FinishAccepted \/ FinishRejected \/ ClassifyResult \/ FeedbackResult

Run == Progress \/ TurnRaises \/ RunRaises

Next == Run \/ ClockExpires \/ UserCancels \/ Done

Spec == Init /\ [][Next]_vars

\* Every blocking call of the run is bounded: the model client, the tools and the
\* approval wait all have timeouts, so the run thread keeps taking steps.
FairSpec == Spec /\ WF_vars(Progress)
(***************************************************************************)
(* Properties                                                              *)
(***************************************************************************)
\* The variables of the loop have their types; run() has a reason exactly when it is over.
TypeOK ==
    /\ pc \in TurnPoints \cup {"check", "cancel", "done"}
    /\ c \in LoopCounters
    /\ attempts \in 0..LlmMaxRetries
    /\ action \in Actions /\ verdict \in Decisions /\ approved_fp \in Actions
    /\ result \in Results
    /\ tracker \in Seq(Actions)
    /\ recent_steps \in Seq(Feedbacks) /\ last_feedback \in Feedbacks
    /\ audit \in Seq(Events)
    /\ reason \in Reasons \cup {"none"} /\ (pc = "done" <=> reason # "none")
    /\ expired \in BOOLEAN /\ cancelled \in BOOLEAN
    /\ ran \in Seq(Executions)
    /\ replies \in Nat

\* The limits of decide_termination bound the work of a whole run, although three of the
\* four counters can stand still or go back to 0: the model is answered at most
\* max_steps * action_retry_limit times and at most max_steps tools are called.
WorkBounded ==
    /\ replies <= MaxSteps * ActionRetryLimit
    /\ Len(ran) <= MaxSteps

\* Once the wall clock has expired or the user has cancelled, the turn in flight may
\* still call its one tool, and nothing is called after that: both flags are read only
\* at the top of a turn, before the model and the dispatcher.
StopHonoured ==
    \A i \in 1..Len(ran) : ran[i].late => i = Len(ran)

\* A tool only ever runs an action that the model proposed at that step and that the
\* policy allows or asks approval for: an action object that was changed while its
\* approval was pending (the approval is bound to the fingerprint) never runs.
OnlyProposedActionsRun ==
    \A i \in 1..Len(ran) :
        /\ ran[i].action \in Registered
        /\ Policy[ran[i].action] # "DENY"
        /\ \E j \in 1..Len(audit) : /\ audit[j].type = "ACTION_PROPOSED"
                                    /\ audit[j].step = ran[i].step
                                    /\ audit[j].data = ran[i].action

IsEvent(e, type, step, data) == e.type = type /\ e.step = step /\ e.data = data

\* Among the first n events of the log there is, at the step, an ALLOW or an approved
\* REQUIRE_APPROVAL.
Justified(log, step, n) ==
    \E j \in 1..n :
        \/ \E d \in Executing : IsEvent(log[j], "GOVERNANCE_DECISION", step, d)
        \/ /\ IsEvent(log[j], "GOVERNANCE_DECISION", step, "REQUIRE_APPROVAL")
           /\ \E k \in (j + 1)..n : IsEvent(log[k], "APPROVAL_DECIDED", step, "APPROVED")

\* The audit log alone justifies each execution it reports: before a TOOL_EXECUTED that is
\* not a denial there is, at its step, an ALLOW or a REQUIRE_APPROVAL that was approved.
AuditJustifiesExecution ==
    \A i \in 1..Len(audit) :
        audit[i].type = "TOOL_EXECUTED" /\ audit[i].data # "denied" =>
            Justified(audit, audit[i].step, i - 1)

ExecutionEvents ==
    {i \in 1..Len(audit) : audit[i].type = "TOOL_EXECUTED" /\ audit[i].data # "denied"}

\* The log misses an execution only while its turn is under way or when that turn died:
\* the tool runs before its GOVERNANCE_DECISION and TOOL_EXECUTED events are appended, so
\* between turns, and after a run that did not end in INTERNAL_ERROR, log and calls agree.
ExecutionsAudited ==
    /\ Len(ran) - 1 <= Cardinality(ExecutionEvents)
    /\ pc \in {"check", "cancel", "llm"} \/ (pc = "done" /\ reason # "INTERNAL_ERROR")
          => Len(ran) = Cardinality(ExecutionEvents)

\* A TERMINATION event is the last one of its task and names the reason run() returned;
\* only a run that could not even write it (INTERNAL_ERROR) ends without one.
TerminationIsLast ==
    /\ \A i \in 1..Len(audit) : audit[i].type = "TERMINATION" => i = Len(audit) /\ pc = "done"
    /\ pc = "done" =>
          \/ Len(audit) > 0 /\ IsEvent(audit[Len(audit)], "TERMINATION", c.step, reason)
          \/ reason = "INTERNAL_ERROR"

BetweenTurns == pc \in {"check", "cancel", "llm"}

RejectedFinishes ==
    {i \in 1..Len(audit) : IsEvent(audit[i], "FEEDBACK", audit[i].step, "FINISH_REJECTED")}

\* The prompt of the next turn shows every step of the run but the rejected finishes: the
\* trimming of _append_step never drops one before max_steps ends the run.
PromptShowsEveryStep ==
    BetweenTurns => Len(recent_steps) + Cardinality(RejectedFinishes) = c.step

(***************************************************************************)
(* The promise of module GovernedRun                                       *)
(***************************************************************************)
\* The phase of a turn: it is settled when its tool has been called or has failed, and an
\* approval counts only for the action whose fingerprint it is bound to.
runPhase ==
    CASE pc \in {"check", "cancel", "invalid", "feedback"} -> "idle"
      [] pc = "llm" -> "asked"
      [] pc = "dispatch" -> "proposed"
      [] pc = "verdict" -> IF verdict \in Executing THEN "settled" ELSE "proposed"
      [] pc = "approval" -> "waiting"
      [] pc = "resume" -> IF action = approved_fp THEN "approved" ELSE "refused"
      [] pc \in {"denied", "rejected", "superseded"} -> "refused"
      [] pc \in {"approved", "executed", "finish", "classify"} -> "settled"
      [] OTHER -> "over"
runProposal == IF runPhase \in {"proposed", "waiting", "approved", "settled"} THEN {action} ELSE {}
runCalls == [i \in 1..Len(ran) |-> [action |-> ran[i].action, late |-> ran[i].late]]

Governed == INSTANCE GovernedRun WITH
    Budget <- MaxSteps, phase <- runPhase, proposal <- runProposal, calls <- runCalls,
    turns <- c.step, stopping <- expired \/ cancelled, outcome <- reason

\* The loop implements the governed run: one call per turn at most, of the proposed action,
\* allowed or approved as it was shown; and it reports COMPLETED only after a finish action
\* that governance let through, CANCELLED or TIMEOUT only after a stop, MAX_STEPS only at
\* the limit.
RunIsGoverned == Governed!RunSpec

\* Every run comes to an end: whatever the model answers, a limit is reached.
RunTerminates == <>(pc = "done")

(***************************************************************************)
(* What the documents say and the code does not do                         *)
(***************************************************************************)
\* The events that say how a step ended.
StepOutcomes ==
    {i \in 1..Len(audit) :
        \/ audit[i].type = "FEEDBACK" /\ audit[i].detail # "PARSE_ERROR"
        \/ audit[i].type = "APPROVAL_DECIDED" /\ audit[i].data = "REJECTED"}

TrailingFailures(outcomes) ==
    {i \in outcomes : \A j \in outcomes : j >= i => audit[j].data # "SUCCESS"}

\* SPEC.md:130: each failure or error of a tool adds one to the consecutive failures and a
\* success clears them.  The loop counts neither for an action it has seen lately.
FailureStreakFollowsSpec ==
    BetweenTurns => c.consecutive_failures = Cardinality(TrailingFailures(StepOutcomes))
=============================================================================
