--------------------------- MODULE HarnessProofs ---------------------------
(***************************************************************************)
(* Proofs about the agent loop for every set of actions, every policy and  *)
(* every value of the limits.                                              *)
(***************************************************************************)
EXTENDS StepViews, FiniteSetTheorems, TLAPS

USE DEF Event

(***************************************************************************)
(* Facts about the helpers                                                 *)
(***************************************************************************)
\* AuditLog.append keeps the log a sequence of events and what it held.
LEMMA EmitType ==
    ASSUME TypeOK, NEW type \in EventTypes, NEW data \in EventData, NEW detail \in Feedbacks
    PROVE  Append(audit, Event(type, c.step, data, detail)) \in Seq(Events)
  BY DEF TypeOK, Events, LoopCounters

\* Trimming a list to its newest members keeps the type of the members.
LEMMA NewestType ==
    ASSUME NEW S, NEW s \in Seq(S), NEW n \in Nat
    PROVE  Newest(s, n) \in Seq(S)
  BY DEF Newest

\* The counters stay counters through the replies and the three ways a step can end.
LEMMA CountersType ==
    ASSUME c \in LoopCounters
    PROVE  /\ FailedStep(c) \in LoopCounters /\ RepeatedStep(c) \in LoopCounters
           /\ SuccessfulStep(c) \in LoopCounters
           /\ UnparsableReply(c) \in LoopCounters /\ ParsedReply(c) \in LoopCounters
  BY DEF LoopCounters, Counters, FailedStep, RepeatedStep, SuccessfulStep, UnparsableReply,
         ParsedReply

\* decide_termination answers with a reason or with none.
LEMMA DecideType ==
    \A cs, late : DecideTermination(cs, late) \in Reasons \cup {"none"}
  BY DEF DecideTermination, Reasons

\* classify answers with a category or with none.
LEMMA ClassifyType ==
    \A r \in Results : Classify(r) \in Categories \cup {"none"}
  BY DEF Classify, Categories

\* The log after _audit_term has the right type.
LEMMA TerminateType ==
    ASSUME TypeOK, NEW r \in Reasons, Terminate(r)
    PROVE  audit' \in Seq(Events) /\ reason' \in Reasons /\ pc' = "done"
  BY EmitType DEF Terminate, Emit, EventTypes, EventData, Feedbacks
\* A call of a tool returns a result and extends the history of calls.
LEMMA RunToolType ==
    ASSUME TypeOK, RunTool
    PROVE  result' \in Results /\ ran' \in Seq(Executions)
<1>1. [action |-> action, step |-> c.step, late |-> expired \/ cancelled] \in Executions
  BY DEF TypeOK, Executions, LoopCounters
<1>2. Outcomes[action] \subseteq Results
  BY ActionsAssumption DEF TypeOK, ToolResults
<1> QED
  BY <1>1, <1>2 DEF TypeOK, RunTool

\* _append_step keeps the list of categories.
LEMMA AppendStepType ==
    ASSUME TypeOK, NEW category \in Feedbacks
    PROVE  AppendStep(category) \in Seq(Feedbacks)
<1>1. Append(recent_steps, category) \in Seq(Feedbacks)
  BY DEF TypeOK
<1> QED
  BY <1>1, NewestType, LimitsAssumption DEF AppendStep

(***************************************************************************)
(* Types                                                                   *)
(***************************************************************************)
\* Every step of the loop preserves the types.
LEMMA TypeStep == TypeOK /\ [Next]_vars => TypeOK'
<1> SUFFICES ASSUME TypeOK, [Next]_vars
             PROVE  TypeOK'
  OBVIOUS
<1> USE DEF TypeOK, TurnPoints
<1>1. CASE CheckTermination
  <2> DEFINE r == DecideTermination(c, expired)
  <2>1. r \in Reasons \cup {"none"}
    BY DecideType
  <2>2. CASE r # "none" /\ Terminate(r)
    BY <1>1, <2>1, <2>2, TerminateType
       DEF CheckTermination, unchangedTurn, unchangedEnv, unchangedPrompt, Reasons
  <2>3. CASE pc' = "cancel" /\ UNCHANGED <<audit, reason>>
    BY <1>1, <2>3 DEF CheckTermination, unchangedTurn, unchangedEnv, unchangedPrompt
  <2> QED
    BY <1>1, <2>2, <2>3 DEF CheckTermination
<1>2. CASE CheckCancel
  <2>1. CASE Terminate("CANCELLED") /\ UNCHANGED attempts
    <3>1. "CANCELLED" \in Reasons
      BY DEF Reasons
    <3> QED
      BY <1>2, <2>1, <3>1, TerminateType DEF CheckCancel, unchangedEnv, unchangedPrompt, Reasons
  <2>2. CASE pc' = "llm" /\ attempts' = 0 /\ UNCHANGED <<audit, reason>>
    BY <1>2, <2>2, LimitsAssumption DEF CheckCancel, unchangedEnv, unchangedPrompt
  <2> QED
    BY <1>2, <2>1, <2>2 DEF CheckCancel
<1>3. CASE LlmAttemptFails
    BY <1>3, LimitsAssumption DEF LlmAttemptFails, unchangedEnv, unchangedPrompt
<1>4. CASE LlmGivesUp
    BY <1>4, TerminateType DEF LlmGivesUp, Reasons, unchangedTurn, unchangedEnv, unchangedPrompt
<1>5. CASE ReplyUnparsable
  <2>1. audit' \in Seq(Events)
    BY <1>5, EmitType DEF ReplyUnparsable, Emit, EventTypes, EventData, Feedbacks
  <2> QED
    BY <1>5, <2>1, CountersType DEF ReplyUnparsable, Goto, Feedbacks, unchangedTurn, unchangedEnv
<1>6. CASE FeedbackUnparsable
    BY <1>6, EmitType DEF FeedbackUnparsable, Goto, EmitFeedback, EventTypes, EventData,
       Categories, Feedbacks, unchangedTurn, unchangedEnv, unchangedPrompt
<1>7. ASSUME NEW a \in Actions, ReplyAction(a) PROVE TypeOK'
  <2>1. audit' \in Seq(Events)
    BY <1>7, EmitType DEF ReplyAction, Emit, EventTypes, EventData, Feedbacks
  <2> QED
    BY <1>7, <2>1, CountersType DEF ReplyAction, Goto, unchangedEnv, unchangedPrompt
<1>8. ASSUME NEW a \in Actions, ResolverApproves(a) PROVE TypeOK'
    BY <1>8 DEF ResolverApproves, Goto, unchangedEnv, unchangedPrompt
<1>9. CASE Dispatch
  <2>1. verdict' \in Decisions
    BY <1>9, ActionsAssumption DEF Dispatch, Judge, Decisions
  <2>2. CASE RunTool
    BY <1>9, <2>1, <2>2, RunToolType DEF Dispatch, Goto, unchangedEnv, unchangedPrompt
  <2>3. CASE UNCHANGED <<result, ran>>
    BY <1>9, <2>1, <2>3 DEF Dispatch, Goto, unchangedEnv, unchangedPrompt
  <2> QED
    BY <1>9, <2>2, <2>3 DEF Dispatch
<1>10. CASE RecordVerdict
    BY <1>10, EmitType DEF RecordVerdict, Emit, EventTypes, EventData, Feedbacks, unchangedEnv,
       unchangedPrompt
<1>11. CASE FeedbackDenied
    BY <1>11, EmitType, CountersType, AppendStepType DEF FeedbackDenied, Goto, EmitFeedback,
       EventTypes, EventData, Categories, Feedbacks, unchangedTurn, unchangedEnv
<1>12. CASE ResolverRejects
    BY <1>12 DEF ResolverRejects, Goto, unchangedTurn, unchangedEnv, unchangedPrompt
<1>13. CASE RecordRejected
    BY <1>13, EmitType, CountersType, AppendStepType DEF RecordRejected, Goto, Emit, EventTypes,
       EventData, ApprovalStates, Categories, Feedbacks, unchangedTurn, unchangedEnv
<1>14. CASE ExecuteApproved
  <2>1. Denied \in Results /\ Unknown \in Results
    BY DEF Denied, Unknown, Results, Statuses, Categories
  <2>2. result' \in Results /\ ran' \in Seq(Executions)
    BY <1>14, <2>1, RunToolType DEF ExecuteApproved
  <2> QED
    BY <1>14, <2>2 DEF ExecuteApproved, unchangedEnv, unchangedPrompt
<1>15. CASE RecordSuperseded
    BY <1>15, EmitType DEF RecordSuperseded, Goto, Emit, EventTypes, EventData, ApprovalStates,
       Feedbacks, unchangedTurn, unchangedEnv, unchangedPrompt
<1>16. CASE RecordApproved
    BY <1>16, EmitType DEF RecordApproved, Goto, Emit, EventTypes, EventData, ApprovalStates,
       Feedbacks, unchangedTurn, unchangedEnv, unchangedPrompt
<1>17. CASE RecordExecuted
    BY <1>17, EmitType DEF RecordExecuted, Emit, EventTypes, EventData, Feedbacks, Results,
       unchangedTurn, unchangedEnv, unchangedPrompt
<1>18. CASE FinishAccepted
    BY <1>18, TerminateType DEF FinishAccepted, Reasons, unchangedTurn, unchangedEnv,
       unchangedPrompt
<1>19. CASE FinishRejected
    BY <1>19, EmitType, CountersType DEF FinishRejected, Goto, EmitFeedback, EventTypes,
       EventData, Feedbacks, unchangedTurn, unchangedEnv
<1>20. CASE ClassifyResult
  <2>1. Append(tracker, action) \in Seq(Actions)
    OBVIOUS
  <2>2. tracker' \in Seq(Actions)
    BY <1>20, <2>1, NewestType, LimitsAssumption DEF ClassifyResult
  <2>3. Classify(result) \in Categories \cup {"none"}
    BY ClassifyType
  <2>4. c' \in LoopCounters /\ last_feedback' \in Feedbacks
    BY <1>20, <2>3, CountersType DEF ClassifyResult, Feedbacks, Categories
  <2> QED
    BY <1>20, <2>2, <2>4 DEF ClassifyResult, Goto, unchangedTurn, unchangedEnv
<1>21. CASE FeedbackResult
    BY <1>21, EmitType, ClassifyType, AppendStepType DEF FeedbackResult, Goto, EmitFeedback,
       EventTypes, EventData, Feedbacks, unchangedTurn, unchangedEnv
<1>22. CASE TurnRaises
    BY <1>22, TerminateType DEF TurnRaises, Reasons, unchangedTurn, unchangedEnv,
       unchangedPrompt
<1>23. CASE RunRaises
    BY <1>23 DEF RunRaises, Reasons, unchangedTurn, unchangedEnv, unchangedPrompt
<1>24. CASE ClockExpires
    BY <1>24 DEF ClockExpires, unchangedTurn, unchangedPrompt
<1>25. CASE UserCancels
    BY <1>25 DEF UserCancels, unchangedTurn, unchangedPrompt
<1>26. CASE UNCHANGED vars
  BY <1>26 DEF vars
<1> QED
  BY <1>1, <1>2, <1>3, <1>4, <1>5, <1>6, <1>7, <1>8, <1>9, <1>10, <1>11, <1>12, <1>13,
     <1>14, <1>15, <1>16, <1>17, <1>18, <1>19, <1>20, <1>21, <1>22, <1>23, <1>24, <1>25,
     <1>26 DEF Next, Run, Progress, Done

\* The loop keeps its types for every set of actions and every value of the limits.
THEOREM TypeCorrect == Spec => []TypeOK
<1>1. Init => TypeOK
  <2> SUFFICES ASSUME Init PROVE TypeOK
    OBVIOUS
  <2>1. c \in LoopCounters
    BY DEF Init, Counters, LoopCounters
  <2>2. result \in Results
    BY DEF Init, Results, Statuses
  <2>3. /\ tracker \in Seq(Actions) /\ recent_steps \in Seq(Feedbacks)
        /\ audit \in Seq(Events) /\ ran \in Seq(Executions)
    BY DEF Init
  <2>4. expired \in BOOLEAN /\ cancelled \in BOOLEAN
    BY DEF Init
  <2>5. last_feedback \in Feedbacks /\ verdict \in Decisions /\ attempts \in 0..LlmMaxRetries
    BY LimitsAssumption DEF Init, Feedbacks, Decisions
  <2>6. reason \in Reasons \cup {"none"} /\ (pc = "done" <=> reason # "none")
    BY DEF Init
  <2> QED
    BY <2>1, <2>2, <2>3, <2>4, <2>5, <2>6, ActionsAssumption DEF Init, TypeOK
<1> QED
  BY <1>1, TypeStep, PTL DEF Spec
(***************************************************************************)
(* The bound on the work of a run                                          *)
(***************************************************************************)
\* The program points between a parsed reply and the update of the counters.
AfterReply == TurnPoints \ {"llm", "invalid", "feedback"}

\* The replies consumed so far are paid for by the completed steps, ActionRetryLimit each,
\* and by the unparsable replies since the last parsed one.
RepliesInv ==
    /\ c.step <= MaxSteps
    /\ pc \in {"cancel", "llm"} => c.step < MaxSteps /\ c.invalid_actions < ActionRetryLimit
    /\ pc \in {"check", "cancel", "llm", "invalid"} =>
          /\ replies <= c.step * ActionRetryLimit + c.invalid_actions
          /\ c.invalid_actions <= ActionRetryLimit
          /\ c.invalid_actions = 0 \/ c.step < MaxSteps
    /\ pc \in AfterReply =>
          /\ c.step < MaxSteps /\ c.invalid_actions = 0
          /\ replies <= c.step * ActionRetryLimit + ActionRetryLimit
    /\ pc = "feedback" => replies <= c.step * ActionRetryLimit /\ c.invalid_actions = 0
    /\ replies <= MaxSteps * ActionRetryLimit

\* A step calls at most one tool, and a step that has called it is charged at its end.
CallsInv ==
    /\ pc \in {"check", "cancel", "llm", "invalid", "dispatch", "approval", "rejected", "resume",
               "superseded", "feedback"} => Len(ran) <= c.step
    /\ pc = "verdict" /\ verdict \notin Executing => Len(ran) <= c.step
    /\ pc \in AfterReply => Len(ran) <= c.step + 1
    /\ Len(ran) <= MaxSteps

\* Products of the limits: an SMT solver needs to be told how they grow.
LEMMA BudgetArith ==
    ASSUME NEW s \in Nat, NEW m \in Nat, NEW n \in Nat
    PROVE  /\ s * n \in Nat
           /\ (s + 1) * n = s * n + n
           /\ s < m => s * n + n <= m * n
           /\ s <= m => s * n <= m * n
<1>1. s * n \in Nat /\ (s + 1) * n = s * n + n
  OBVIOUS
<1>2. ASSUME s <= m PROVE s * n <= m * n
  <2>1. PICK d \in Nat : m = s + d
    BY <1>2, m - s \in Nat
  <2>2. m * n = s * n + d * n /\ d * n \in Nat
    BY <2>1
  <2> QED
    BY <1>1, <2>2
<1>3. ASSUME s < m PROVE s * n + n <= m * n
  <2>1. PICK d \in Nat : m = (s + 1) + d
    BY <1>3, m - (s + 1) \in Nat
  <2>2. m * n = (s + 1) * n + d * n /\ d * n \in Nat
    BY <2>1
  <2> QED
    BY <1>1, <2>2
<1> QED
  BY <1>1, <1>2, <1>3

\* What the five updates of LoopCounters do to the fields the bounds talk about.
LEMMA CounterFields ==
    ASSUME c \in LoopCounters
    PROVE  /\ c.step \in Nat /\ c.invalid_actions \in Nat
           /\ UnparsableReply(c).step = c.step
           /\ UnparsableReply(c).invalid_actions = c.invalid_actions + 1
           /\ ParsedReply(c).step = c.step /\ ParsedReply(c).invalid_actions = 0
           /\ FailedStep(c).step = c.step + 1
           /\ FailedStep(c).invalid_actions = c.invalid_actions
           /\ RepeatedStep(c).step = c.step + 1
           /\ RepeatedStep(c).invalid_actions = c.invalid_actions
           /\ SuccessfulStep(c).step = c.step + 1
           /\ SuccessfulStep(c).invalid_actions = c.invalid_actions
  BY DEF LoopCounters, Counters, UnparsableReply, ParsedReply, FailedStep, RepeatedStep,
         SuccessfulStep

\* Passing the check at the top of a turn means that no limit is reached.
LEMMA CheckPassed ==
    ASSUME TypeOK, DecideTermination(c, expired) = "none"
    PROVE  c.step < MaxSteps /\ c.invalid_actions < ActionRetryLimit /\ ~expired
  BY LimitsAssumption DEF TypeOK, DecideTermination, LoopCounters

\* Every step of the loop keeps the account of the replies.
LEMMA RepliesStep == TypeOK /\ RepliesInv /\ [Next]_vars => RepliesInv'
<1> SUFFICES ASSUME TypeOK, RepliesInv, [Next]_vars
             PROVE  RepliesInv'
  OBVIOUS
<1>a. /\ c.step \in Nat /\ c.invalid_actions \in Nat /\ replies \in Nat
      /\ MaxSteps \in Nat /\ ActionRetryLimit \in Nat
  BY CounterFields, LimitsAssumption DEF TypeOK
<1>b. c \in LoopCounters
  BY DEF TypeOK
<1>c. /\ c.step * ActionRetryLimit \in Nat
      /\ (c.step + 1) * ActionRetryLimit = c.step * ActionRetryLimit + ActionRetryLimit
      /\ c.step < MaxSteps =>
            c.step * ActionRetryLimit + ActionRetryLimit <= MaxSteps * ActionRetryLimit
      /\ c.step <= MaxSteps => c.step * ActionRetryLimit <= MaxSteps * ActionRetryLimit
  BY <1>a, BudgetArith
<1> USE <1>a DEF RepliesInv, AfterReply, TurnPoints
<1>1. CASE CheckTermination
  <2>1. CASE DecideTermination(c, expired) # "none"
    BY <1>1, <2>1 DEF CheckTermination, Terminate, unchangedTurn
  <2>2. CASE DecideTermination(c, expired) = "none"
    BY <1>1, <2>2, CheckPassed DEF CheckTermination, unchangedTurn
  <2> QED
    BY <2>1, <2>2
<1>2. CASE CheckCancel
  BY <1>2 DEF CheckCancel, Terminate
<1>3. CASE LlmAttemptFails
  BY <1>3 DEF LlmAttemptFails
<1>4. CASE LlmGivesUp
  BY <1>4, <1>c DEF LlmGivesUp, Terminate, unchangedTurn
<1>5. CASE ReplyUnparsable
  BY <1>5, <1>b, <1>c, CounterFields DEF ReplyUnparsable, Goto, unchangedTurn
<1>6. CASE FeedbackUnparsable
  BY <1>6 DEF FeedbackUnparsable, Goto, unchangedTurn
<1>7. ASSUME NEW a \in Actions, ReplyAction(a) PROVE RepliesInv'
  BY <1>7, <1>b, <1>c, CounterFields DEF ReplyAction, Goto
<1>8. ASSUME NEW a \in Actions, ResolverApproves(a) PROVE RepliesInv'
  BY <1>8 DEF ResolverApproves, Goto
<1>9. CASE Dispatch
  BY <1>9 DEF Dispatch, Goto
<1>10. CASE RecordVerdict
  BY <1>10 DEF RecordVerdict
<1>11. CASE FeedbackDenied
  BY <1>11, <1>b, <1>c, CounterFields DEF FeedbackDenied, Goto, unchangedTurn
<1>12. CASE ResolverRejects
  BY <1>12 DEF ResolverRejects, Goto, unchangedTurn
<1>13. CASE RecordRejected
  BY <1>13, <1>b, <1>c, CounterFields DEF RecordRejected, Goto, unchangedTurn
<1>14. CASE ExecuteApproved
  BY <1>14 DEF ExecuteApproved
<1>15. CASE RecordSuperseded
  BY <1>15 DEF RecordSuperseded, Goto, unchangedTurn
<1>16. CASE RecordApproved
  BY <1>16 DEF RecordApproved, Goto, unchangedTurn
<1>17. CASE RecordExecuted
  BY <1>17 DEF RecordExecuted, unchangedTurn
<1>18. CASE FinishAccepted
  BY <1>18 DEF FinishAccepted, Terminate, unchangedTurn
<1>19. CASE FinishRejected
  BY <1>19, <1>b, <1>c, CounterFields DEF FinishRejected, Goto, unchangedTurn
<1>20. CASE ClassifyResult
  BY <1>20, <1>b, <1>c, CounterFields DEF ClassifyResult, Goto, unchangedTurn
<1>21. CASE FeedbackResult
  BY <1>21 DEF FeedbackResult, Goto, unchangedTurn
<1>22. CASE TurnRaises
  BY <1>22 DEF TurnRaises, Terminate, unchangedTurn
<1>23. CASE RunRaises
  BY <1>23 DEF RunRaises, unchangedTurn
<1>24. CASE ClockExpires
  BY <1>24 DEF ClockExpires, unchangedTurn
<1>25. CASE UserCancels
  BY <1>25 DEF UserCancels, unchangedTurn
<1>26. CASE UNCHANGED vars
  BY <1>26 DEF vars
<1> QED
  BY <1>1, <1>2, <1>3, <1>4, <1>5, <1>6, <1>7, <1>8, <1>9, <1>10, <1>11, <1>12, <1>13, <1>14,
     <1>15, <1>16, <1>17, <1>18, <1>19, <1>20, <1>21, <1>22, <1>23, <1>24, <1>25, <1>26 DEF
     Next, Run, Progress, Done

\* A call of a tool makes the history one longer.
LEMMA RunToolLen ==
    ASSUME TypeOK, RunTool
    PROVE  Len(ran) \in Nat /\ Len(ran') = Len(ran) + 1
<1>1. [action |-> action, step |-> c.step, late |-> expired \/ cancelled] \in Executions
  BY DEF TypeOK, Executions, LoopCounters
<1> QED
  BY <1>1 DEF TypeOK, RunTool

\* Every step of the loop keeps the account of the tool calls.
LEMMA CallsStep == TypeOK /\ RepliesInv /\ CallsInv /\ [Next]_vars => CallsInv'
<1> SUFFICES ASSUME TypeOK, RepliesInv, CallsInv, [Next]_vars
             PROVE  CallsInv'
  OBVIOUS
<1>a. c.step \in Nat /\ Len(ran) \in Nat /\ MaxSteps \in Nat /\ c.step <= MaxSteps
  BY CounterFields, LimitsAssumption DEF TypeOK, RepliesInv
<1>b. c \in LoopCounters
  BY DEF TypeOK
<1>c. pc \in AfterReply => c.step < MaxSteps
  BY DEF RepliesInv
<1> USE <1>a DEF CallsInv, AfterReply, TurnPoints
<1>1. CASE CheckTermination
  BY <1>1 DEF CheckTermination, Terminate, unchangedTurn
<1>2. CASE CheckCancel
  BY <1>2 DEF CheckCancel, Terminate
<1>3. CASE LlmAttemptFails
  BY <1>3 DEF LlmAttemptFails
<1>4. CASE LlmGivesUp
  BY <1>4 DEF LlmGivesUp, Terminate, unchangedTurn
<1>5. CASE ReplyUnparsable
  BY <1>5, <1>b, <1>c, CounterFields DEF ReplyUnparsable, Goto, unchangedTurn
<1>6. CASE FeedbackUnparsable
  BY <1>6 DEF FeedbackUnparsable, Goto, unchangedTurn
<1>7. ASSUME NEW a \in Actions, ReplyAction(a) PROVE CallsInv'
  BY <1>7, <1>b, <1>c, CounterFields DEF ReplyAction, Goto
<1>8. ASSUME NEW a \in Actions, ResolverApproves(a) PROVE CallsInv'
  BY <1>8 DEF ResolverApproves, Goto
<1>9. CASE Dispatch
  <2>1. CASE verdict' \in Executing /\ RunTool
    BY <1>9, <1>c, <2>1, RunToolLen DEF Dispatch, Goto
  <2>2. CASE verdict' \notin Executing /\ UNCHANGED <<result, ran>>
    BY <1>9, <2>2 DEF Dispatch, Goto
  <2> QED
    BY <1>9, <2>1, <2>2 DEF Dispatch
<1>10. CASE RecordVerdict
  BY <1>10, <1>c DEF RecordVerdict, Executing
<1>11. CASE FeedbackDenied
  BY <1>11, <1>b, <1>c, CounterFields DEF FeedbackDenied, Goto, unchangedTurn
<1>12. CASE ResolverRejects
  BY <1>12 DEF ResolverRejects, Goto, unchangedTurn
<1>13. CASE RecordRejected
  BY <1>13, <1>b, <1>c, CounterFields DEF RecordRejected, Goto, unchangedTurn
<1>14. CASE ExecuteApproved
  <2>1. CASE pc' = "approved" /\ RunTool
    BY <1>14, <1>c, <2>1, RunToolLen DEF ExecuteApproved
  <2>2. CASE UNCHANGED ran
    BY <1>14, <2>2 DEF ExecuteApproved
  <2> QED
    BY <1>14, <2>1, <2>2 DEF ExecuteApproved
<1>15. CASE RecordSuperseded
  BY <1>15 DEF RecordSuperseded, Goto, unchangedTurn
<1>16. CASE RecordApproved
  BY <1>16 DEF RecordApproved, Goto, unchangedTurn
<1>17. CASE RecordExecuted
  BY <1>17 DEF RecordExecuted, unchangedTurn
<1>18. CASE FinishAccepted
  BY <1>18 DEF FinishAccepted, Terminate, unchangedTurn
<1>19. CASE FinishRejected
  BY <1>19, <1>b, <1>c, CounterFields DEF FinishRejected, Goto, unchangedTurn
<1>20. CASE ClassifyResult
  BY <1>20, <1>b, <1>c, CounterFields DEF ClassifyResult, Goto, unchangedTurn
<1>21. CASE FeedbackResult
  BY <1>21 DEF FeedbackResult, Goto, unchangedTurn
<1>22. CASE TurnRaises
  BY <1>22 DEF TurnRaises, Terminate, unchangedTurn
<1>23. CASE RunRaises
  BY <1>23 DEF RunRaises, unchangedTurn
<1>24. CASE ClockExpires
  BY <1>24 DEF ClockExpires, unchangedTurn
<1>25. CASE UserCancels
  BY <1>25 DEF UserCancels, unchangedTurn
<1>26. CASE UNCHANGED vars
  BY <1>26 DEF vars
<1> QED
  BY <1>1, <1>2, <1>3, <1>4, <1>5, <1>6, <1>7, <1>8, <1>9, <1>10, <1>11, <1>12, <1>13, <1>14,
     <1>15, <1>16, <1>17, <1>18, <1>19, <1>20, <1>21, <1>22, <1>23, <1>24, <1>25, <1>26 DEF
     Next, Run, Progress, Done

\* A run starts with nothing to account for.
LEMMA RepliesInit == Init => RepliesInv /\ CallsInv
<1> SUFFICES ASSUME Init PROVE RepliesInv /\ CallsInv
  OBVIOUS
<1>1. c.step = 0 /\ c.invalid_actions = 0 /\ replies = 0 /\ Len(ran) = 0 /\ pc = "check"
  BY DEF Init, Counters
<1>2. MaxSteps * ActionRetryLimit \in Nat /\ 0 * ActionRetryLimit = 0
  BY LimitsAssumption
<1> QED
  BY <1>1, <1>2, LimitsAssumption DEF RepliesInv, CallsInv, AfterReply, TurnPoints

\* For every policy and all values of the limits a run consumes at most
\* max_steps * action_retry_limit replies and calls at most max_steps tools.
THEOREM WorkIsBounded == Spec => []WorkBounded
<1>1. Init => RepliesInv /\ CallsInv
  BY RepliesInit
<1>2. RepliesInv /\ CallsInv => WorkBounded
  BY DEF RepliesInv, CallsInv, WorkBounded
<1> QED
  BY <1>1, <1>2, TypeCorrect, RepliesStep, CallsStep, PTL DEF Spec

(***************************************************************************)
(* Stopping                                                                *)
(***************************************************************************)
SomeLate == \E i \in 1..Len(ran) : ran[i].late

\* A late call is the last one, and the turn after it is stopped by one of the two checks.
LateInv ==
    /\ StopHonoured
    /\ SomeLate => expired \/ cancelled
    /\ pc \in {"llm", "invalid", "dispatch", "approval", "rejected", "resume", "superseded"}
          => ~SomeLate
    /\ pc = "verdict" /\ verdict \notin Executing => ~SomeLate
    /\ pc = "cancel" /\ SomeLate => cancelled

\* A call made after no late one is the only late one, and late only after a stop.
LEMMA RunToolLate ==
    ASSUME TypeOK, LateInv, ~SomeLate, RunTool, UNCHANGED <<expired, cancelled>>
    PROVE  StopHonoured' /\ (SomeLate' => expired' \/ cancelled')
<1> DEFINE e == [action |-> action, step |-> c.step, late |-> expired \/ cancelled]
<1>1. e \in Executions
  BY DEF TypeOK, Executions, LoopCounters
<1>2. /\ ran \in Seq(Executions) /\ ran' = Append(ran, e)
  BY DEF TypeOK, RunTool
<1> HIDE DEF e
<1>3. /\ Len(ran') = Len(ran) + 1 /\ Len(ran) \in Nat
      /\ ran'[Len(ran) + 1] = e
      /\ \A i \in 1..Len(ran) : ran'[i] = ran[i]
  BY <1>1, <1>2
<1>4. e.late = (expired \/ cancelled)
  BY DEF e
<1>5. ASSUME NEW i \in 1..Len(ran'), ran'[i].late
      PROVE  i = Len(ran') /\ (expired \/ cancelled)
  <2>1. i \notin 1..Len(ran)
    BY <1>3, <1>5 DEF SomeLate
  <2>2. i = Len(ran) + 1
    BY <1>3, <2>1
  <2> QED
    BY <1>3, <1>4, <1>5, <2>2
<1> QED
  BY <1>5 DEF StopHonoured, SomeLate

\* Every step keeps late calls last and stops the turn after one.
LEMMA LateStep == TypeOK /\ LateInv /\ [Next]_vars => LateInv'
<1> SUFFICES ASSUME TypeOK, LateInv, [Next]_vars
             PROVE  LateInv'
  OBVIOUS
<1> USE DEF LateInv
<1>a. ASSUME UNCHANGED ran PROVE StopHonoured' /\ SomeLate' = SomeLate
  BY <1>a DEF StopHonoured, SomeLate
<1>1. CASE CheckTermination
  <2>1. CASE DecideTermination(c, expired) # "none" /\ pc' = "done"
    BY <1>1, <1>a, <2>1 DEF CheckTermination, unchangedEnv
  <2>2. CASE DecideTermination(c, expired) = "none" /\ pc' = "cancel"
    BY <1>1, <1>a, <2>2, CheckPassed DEF CheckTermination, unchangedEnv
  <2> QED
    BY <1>1, <2>1, <2>2 DEF CheckTermination, Terminate
<1>2. CASE CheckCancel
  BY <1>2, <1>a DEF CheckCancel, Terminate, unchangedEnv
<1>3. CASE LlmAttemptFails
  BY <1>3, <1>a DEF LlmAttemptFails, unchangedEnv
<1>4. CASE LlmGivesUp
  BY <1>4, <1>a DEF LlmGivesUp, Terminate, unchangedTurn, unchangedEnv
<1>5. CASE ReplyUnparsable
  BY <1>5, <1>a DEF ReplyUnparsable, Goto, unchangedTurn, unchangedEnv
<1>6. CASE FeedbackUnparsable
  BY <1>6, <1>a DEF FeedbackUnparsable, Goto, unchangedTurn, unchangedEnv
<1>7. ASSUME NEW a \in Actions, ReplyAction(a) PROVE LateInv'
  BY <1>7, <1>a DEF ReplyAction, Goto, unchangedEnv
<1>8. ASSUME NEW a \in Actions, ResolverApproves(a) PROVE LateInv'
  BY <1>8, <1>a DEF ResolverApproves, Goto, unchangedEnv
<1>9. CASE Dispatch
  <2>1. CASE verdict' \in Executing /\ RunTool
    BY <1>9, <2>1, RunToolLate DEF Dispatch, Goto, unchangedEnv
  <2>2. CASE verdict' \notin Executing /\ UNCHANGED <<result, ran>>
    BY <1>9, <1>a, <2>2 DEF Dispatch, Goto, unchangedEnv
  <2> QED
    BY <1>9, <2>1, <2>2 DEF Dispatch
<1>10. CASE RecordVerdict
  BY <1>10, <1>a DEF RecordVerdict, unchangedEnv, Executing
<1>11. CASE FeedbackDenied
  BY <1>11, <1>a DEF FeedbackDenied, Goto, unchangedTurn, unchangedEnv
<1>12. CASE ResolverRejects
  BY <1>12, <1>a DEF ResolverRejects, Goto, unchangedTurn, unchangedEnv
<1>13. CASE RecordRejected
  BY <1>13, <1>a DEF RecordRejected, Goto, unchangedTurn, unchangedEnv
<1>14. CASE ExecuteApproved
  <2>1. CASE pc' = "approved" /\ RunTool
    BY <1>14, <2>1, RunToolLate DEF ExecuteApproved, unchangedEnv
  <2>2. CASE UNCHANGED ran
    BY <1>14, <1>a, <2>2 DEF ExecuteApproved, unchangedEnv
  <2> QED
    BY <1>14, <2>1, <2>2 DEF ExecuteApproved
<1>15. CASE RecordSuperseded
  BY <1>15, <1>a DEF RecordSuperseded, Goto, unchangedTurn, unchangedEnv
<1>16. CASE RecordApproved
  BY <1>16, <1>a DEF RecordApproved, Goto, unchangedTurn, unchangedEnv
<1>17. CASE RecordExecuted
  BY <1>17, <1>a DEF RecordExecuted, unchangedTurn, unchangedEnv
<1>18. CASE FinishAccepted
  BY <1>18, <1>a DEF FinishAccepted, Terminate, unchangedTurn, unchangedEnv
<1>19. CASE FinishRejected
  BY <1>19, <1>a DEF FinishRejected, Goto, unchangedTurn, unchangedEnv
<1>20. CASE ClassifyResult
  BY <1>20, <1>a DEF ClassifyResult, Goto, unchangedTurn, unchangedEnv
<1>21. CASE FeedbackResult
  BY <1>21, <1>a DEF FeedbackResult, Goto, unchangedTurn, unchangedEnv
<1>22. CASE TurnRaises
  BY <1>22, <1>a DEF TurnRaises, Terminate, unchangedTurn, unchangedEnv, TurnPoints
<1>23. CASE RunRaises
  BY <1>23, <1>a DEF RunRaises, unchangedTurn, unchangedEnv, TurnPoints
<1>24. CASE ClockExpires
  BY <1>24, <1>a DEF ClockExpires, unchangedTurn
<1>25. CASE UserCancels
  BY <1>25, <1>a DEF UserCancels, unchangedTurn
<1>26. CASE UNCHANGED vars
  BY <1>26, <1>a DEF vars
<1> QED
  BY <1>1, <1>2, <1>3, <1>4, <1>5, <1>6, <1>7, <1>8, <1>9, <1>10, <1>11, <1>12, <1>13, <1>14,
     <1>15, <1>16, <1>17, <1>18, <1>19, <1>20, <1>21, <1>22, <1>23, <1>24, <1>25, <1>26 DEF
     Next, Run, Progress, Done

\* For every policy and all limits: after the wall clock has expired or the task was
\* cancelled, at most the tool of the turn in flight is called, and it is the last one.
THEOREM StopIsHonoured == Spec => []StopHonoured
<1>1. Init => LateInv
  <2> SUFFICES ASSUME Init PROVE LateInv
    OBVIOUS
  <2>1. Len(ran) = 0 /\ pc = "check"
    BY DEF Init
  <2> QED
    BY <2>1 DEF LateInv, StopHonoured, SomeLate
<1>2. LateInv => StopHonoured
  BY DEF LateInv
<1> QED
  BY <1>1, <1>2, TypeCorrect, LateStep, PTL DEF Spec

(***************************************************************************)
(* The log only grows                                                      *)
(***************************************************************************)
\* What Append does to a sequence, whatever is appended.
LEMMA AppendFacts ==
    ASSUME NEW S, NEW s \in Seq(S), NEW e
    PROVE  /\ Len(s) \in Nat /\ Len(Append(s, e)) = Len(s) + 1
           /\ Append(s, e)[Len(s) + 1] = e
           /\ \A i \in 1..Len(s) : Append(s, e)[i] = s[i]
<1>1. s \in Seq(S \cup {e}) /\ e \in S \cup {e}
  OBVIOUS
<1> QED
  BY <1>1

\* An event that is in the log stays there, at its place.
Kept == /\ Len(audit) \in Nat /\ Len(audit') \in Nat /\ Len(audit) <= Len(audit')
        /\ \A i \in 1..Len(audit) : i \in 1..Len(audit') /\ audit'[i] = audit[i]

\* Emitting an event keeps the others and puts the new one last.
LEMMA EmitKeeps ==
    ASSUME TypeOK, NEW e, audit' = Append(audit, e)
    PROVE  /\ Kept
           /\ Len(audit') = Len(audit) + 1 /\ audit'[Len(audit')] = e
<1>1. audit \in Seq(Events)
  BY DEF TypeOK
<1> QED
  BY <1>1, AppendFacts DEF Kept

\* Each step appends at most one event to the log.
LEMMA LogGrows == TypeOK /\ [Next]_vars => Kept
<1> SUFFICES ASSUME TypeOK, [Next]_vars
             PROVE  Kept
  OBVIOUS
<1>a. ASSUME UNCHANGED audit PROVE Kept
  BY <1>a DEF TypeOK, Kept
<1>1. CASE CheckTermination
  BY <1>1, EmitKeeps, <1>a DEF CheckTermination, Terminate, Emit
<1>2. CASE CheckCancel
  BY <1>2, EmitKeeps, <1>a DEF CheckCancel, Terminate, Emit
<1>3. CASE LlmAttemptFails
  BY <1>3, <1>a DEF LlmAttemptFails
<1>4. CASE LlmGivesUp
  BY <1>4, EmitKeeps DEF LlmGivesUp, Terminate, Emit
<1>5. CASE ReplyUnparsable
  BY <1>5, EmitKeeps DEF ReplyUnparsable, Emit
<1>6. CASE FeedbackUnparsable
  BY <1>6, EmitKeeps DEF FeedbackUnparsable, EmitFeedback
<1>7. ASSUME NEW a \in Actions, ReplyAction(a) PROVE Kept
  BY <1>7, EmitKeeps DEF ReplyAction, Emit
<1>8. ASSUME NEW a \in Actions, ResolverApproves(a) PROVE Kept
  BY <1>8, <1>a DEF ResolverApproves
<1>9. CASE Dispatch
  BY <1>9, <1>a DEF Dispatch
<1>10. CASE RecordVerdict
  BY <1>10, EmitKeeps DEF RecordVerdict, Emit
<1>11. CASE FeedbackDenied
  BY <1>11, EmitKeeps DEF FeedbackDenied, EmitFeedback
<1>12. CASE ResolverRejects
  BY <1>12, <1>a DEF ResolverRejects
<1>13. CASE RecordRejected
  BY <1>13, EmitKeeps DEF RecordRejected, Emit
<1>14. CASE ExecuteApproved
  BY <1>14, <1>a DEF ExecuteApproved
<1>15. CASE RecordSuperseded
  BY <1>15, EmitKeeps DEF RecordSuperseded, Emit
<1>16. CASE RecordApproved
  BY <1>16, EmitKeeps DEF RecordApproved, Emit
<1>17. CASE RecordExecuted
  BY <1>17, EmitKeeps DEF RecordExecuted, Emit
<1>18. CASE FinishAccepted
  BY <1>18, EmitKeeps DEF FinishAccepted, Terminate, Emit
<1>19. CASE FinishRejected
  BY <1>19, EmitKeeps DEF FinishRejected, EmitFeedback
<1>20. CASE ClassifyResult
  BY <1>20, <1>a DEF ClassifyResult
<1>21. CASE FeedbackResult
  BY <1>21, EmitKeeps DEF FeedbackResult, EmitFeedback
<1>22. CASE TurnRaises
  BY <1>22, EmitKeeps DEF TurnRaises, Terminate, Emit
<1>23. CASE RunRaises
  BY <1>23, <1>a DEF RunRaises
<1>24. CASE ClockExpires
  BY <1>24, <1>a DEF ClockExpires
<1>25. CASE UserCancels
  BY <1>25, <1>a DEF UserCancels
<1>26. CASE UNCHANGED vars
  BY <1>26, <1>a DEF vars
<1> QED
  BY <1>1, <1>2, <1>3, <1>4, <1>5, <1>6, <1>7, <1>8, <1>9, <1>10, <1>11, <1>12, <1>13, <1>14,
     <1>15, <1>16, <1>17, <1>18, <1>19, <1>20, <1>21, <1>22, <1>23, <1>24, <1>25, <1>26 DEF
     Next, Run, Progress, Done

(***************************************************************************)
(* Approval binding                                                        *)
(***************************************************************************)
Proposed(a, step) ==
    \E j \in 1..Len(audit) : /\ audit[j].type = "ACTION_PROPOSED"
                             /\ audit[j].step = step
                             /\ audit[j].data = a

Permitted(a) == a \in Registered /\ Policy[a] # "DENY"

\* What the turn may run is in the log: the action itself until it is judged, then the
\* action the approval was asked for, whatever the object has become since.
BindingInv ==
    /\ OnlyProposedActionsRun
    /\ pc \in {"dispatch", "verdict"} => Proposed(action, c.step)
    /\ pc = "verdict" /\ verdict = "REQUIRE_APPROVAL" => Permitted(action)
    /\ pc \in {"approval", "resume"} => Proposed(approved_fp, c.step) /\ Permitted(approved_fp)

\* A proposal in the log stays a proposal.
LEMMA ProposedStays ==
    ASSUME Kept, NEW a, NEW step, Proposed(a, step)
    PROVE  Proposed(a, step)'
  BY DEF Kept, Proposed

\* Without a call of a tool the property only needs the log to be kept.
LEMMA BindingKept ==
    ASSUME OnlyProposedActionsRun, Kept, UNCHANGED ran
    PROVE  OnlyProposedActionsRun'
<1>1. ASSUME NEW k \in 1..Len(ran)
      PROVE  /\ ran[k].action \in Registered /\ Policy[ran[k].action] # "DENY"
             /\ Proposed(ran[k].action, ran[k].step)'
  <2>1. /\ ran[k].action \in Registered /\ Policy[ran[k].action] # "DENY"
        /\ Proposed(ran[k].action, ran[k].step)
    BY <1>1 DEF OnlyProposedActionsRun, Proposed
  <2>2. \E j \in 1..Len(audit') :
           /\ audit'[j].type = "ACTION_PROPOSED"
           /\ audit'[j].step = ran[k].step
           /\ audit'[j].data = ran[k].action
    BY <2>1 DEF Proposed, Kept
  <2>3. Proposed(ran[k].action, ran[k].step)'
    BY <2>2 DEF Proposed
  <2> QED
    BY <2>1, <2>3
<1>2. ran' = ran
  OBVIOUS
<1> QED
  BY <1>1, <1>2 DEF OnlyProposedActionsRun, Proposed

\* A call of a proposed and permitted action keeps the property.
LEMMA BindingRun ==
    ASSUME TypeOK, OnlyProposedActionsRun, UNCHANGED audit, RunTool,
           Proposed(action, c.step), Permitted(action)
    PROVE  OnlyProposedActionsRun'
<1> DEFINE e == [action |-> action, step |-> c.step, late |-> expired \/ cancelled]
<1>1. ran \in Seq(Executions) /\ ran' = Append(ran, e)
  BY DEF TypeOK, RunTool
<1>2. e.action = action /\ e.step = c.step
  OBVIOUS
<1> HIDE DEF e
<1>3. /\ Len(ran') = Len(ran) + 1 /\ Len(ran) \in Nat
      /\ ran'[Len(ran) + 1] = e
      /\ \A i \in 1..Len(ran) : ran'[i] = ran[i]
  BY <1>1, AppendFacts
<1> SUFFICES ASSUME NEW i \in 1..Len(ran')
             PROVE  /\ ran'[i].action \in Registered
                    /\ Policy[ran'[i].action] # "DENY"
                    /\ Proposed(ran'[i].action, ran'[i].step)
  BY DEF OnlyProposedActionsRun, Proposed
<1>4. CASE i \in 1..Len(ran)
  BY <1>3, <1>4 DEF OnlyProposedActionsRun, Proposed
<1>5. CASE i = Len(ran) + 1
  BY <1>2, <1>3, <1>5 DEF Permitted
<1> QED
  BY <1>3, <1>4, <1>5

\* Every step keeps what may run bound to a proposal in the log.
LEMMA BindingStep == TypeOK /\ BindingInv /\ [Next]_vars => BindingInv'
<1> SUFFICES ASSUME TypeOK, BindingInv, [Next]_vars
             PROVE  BindingInv'
  OBVIOUS
<1>a. Kept
  BY LogGrows
<1>b. ASSUME UNCHANGED ran PROVE OnlyProposedActionsRun'
  BY <1>a, <1>b, BindingKept DEF BindingInv
<1>c. ASSUME UNCHANGED <<action, approved_fp, c>>
      PROVE  /\ Proposed(action, c.step) => Proposed(action, c.step)'
             /\ Proposed(approved_fp, c.step) => Proposed(approved_fp, c.step)'
  BY <1>a, <1>c DEF Kept, Proposed
<1> USE DEF BindingInv, Permitted
<1>1. CASE CheckTermination
  BY <1>1, <1>b DEF CheckTermination, Terminate, unchangedTurn
<1>2. CASE CheckCancel
  BY <1>2, <1>b DEF CheckCancel, Terminate
<1>3. CASE LlmAttemptFails
  BY <1>3, <1>b DEF LlmAttemptFails
<1>4. CASE LlmGivesUp
  BY <1>4, <1>b DEF LlmGivesUp, Terminate, unchangedTurn
<1>5. CASE ReplyUnparsable
  BY <1>5, <1>b DEF ReplyUnparsable, Goto, unchangedTurn
<1>6. CASE FeedbackUnparsable
  BY <1>6, <1>b DEF FeedbackUnparsable, Goto, unchangedTurn
<1>7. ASSUME NEW a \in Actions, ReplyAction(a) PROVE BindingInv'
  <2>1. Proposed(action, c.step)'
    <3>1. /\ audit' = Append(audit, Event("ACTION_PROPOSED", c.step, a, "none"))
          /\ action' = a /\ c'.step = c.step
      BY <1>7, CounterFields DEF ReplyAction, Emit, TypeOK
    <3>2. Len(audit') \in 1..Len(audit')
          /\ audit'[Len(audit')] = Event("ACTION_PROPOSED", c.step, a, "none")
      BY <3>1, EmitKeeps DEF Kept
    <3> QED
      BY <3>1, <3>2 DEF Proposed
  <2> QED
    BY <1>7, <1>b, <2>1 DEF ReplyAction, Goto
<1>8. ASSUME NEW a \in Actions, ResolverApproves(a) PROVE BindingInv'
  BY <1>8, <1>b DEF ResolverApproves, Goto, Proposed
<1>9. CASE Dispatch
  <2>1. Proposed(action, c.step)'
    BY <1>9, <1>c DEF Dispatch, Goto, Proposed
  <2>2. verdict' # "DENY" => Permitted(action)
    BY <1>9 DEF Dispatch, Judge
  <2>3. OnlyProposedActionsRun'
    <3>1. CASE verdict' \in Executing /\ RunTool
      BY <1>9, <2>2, <3>1, BindingRun DEF Dispatch, Goto, Executing
    <3>2. CASE UNCHANGED ran
      BY <1>b, <3>2
    <3> QED
      BY <1>9, <3>1, <3>2 DEF Dispatch
  <2> QED
    BY <1>9, <2>1, <2>2, <2>3 DEF Dispatch, Goto
<1>10. CASE RecordVerdict
  <2>1. CASE pc' = "approval" /\ approved_fp' = action /\ verdict = "REQUIRE_APPROVAL"
    BY <1>10, <1>a, <1>b, <2>1 DEF RecordVerdict, Kept, Proposed
  <2>2. CASE pc' \in {"denied", "executed"}
    BY <1>10, <1>b, <2>2 DEF RecordVerdict
  <2> QED
    BY <1>10, <2>1, <2>2 DEF RecordVerdict
<1>11. CASE FeedbackDenied
  BY <1>11, <1>b DEF FeedbackDenied, Goto, unchangedTurn
<1>12. CASE ResolverRejects
  BY <1>12, <1>b DEF ResolverRejects, Goto, unchangedTurn
<1>13. CASE RecordRejected
  BY <1>13, <1>b DEF RecordRejected, Goto, unchangedTurn
<1>14. CASE ExecuteApproved
  <2>1. CASE RunTool /\ StillApproved(action)
    BY <1>14, <2>1, BindingRun DEF ExecuteApproved, StillApproved
  <2>2. CASE UNCHANGED ran
    BY <1>14, <1>b, <2>2 DEF ExecuteApproved
  <2> QED
    BY <1>14, <2>1, <2>2 DEF ExecuteApproved
<1>15. CASE RecordSuperseded
  BY <1>15, <1>b DEF RecordSuperseded, Goto, unchangedTurn
<1>16. CASE RecordApproved
  BY <1>16, <1>b DEF RecordApproved, Goto, unchangedTurn
<1>17. CASE RecordExecuted
  BY <1>17, <1>b DEF RecordExecuted, unchangedTurn
<1>18. CASE FinishAccepted
  BY <1>18, <1>b DEF FinishAccepted, Terminate, unchangedTurn
<1>19. CASE FinishRejected
  BY <1>19, <1>b DEF FinishRejected, Goto, unchangedTurn
<1>20. CASE ClassifyResult
  BY <1>20, <1>b DEF ClassifyResult, Goto, unchangedTurn
<1>21. CASE FeedbackResult
  BY <1>21, <1>b DEF FeedbackResult, Goto, unchangedTurn
<1>22. CASE TurnRaises
  BY <1>22, <1>b DEF TurnRaises, Terminate, unchangedTurn
<1>23. CASE RunRaises
  BY <1>23, <1>b DEF RunRaises, unchangedTurn
<1>24. CASE ClockExpires
  BY <1>24, <1>b, <1>c DEF ClockExpires, unchangedTurn
<1>25. CASE UserCancels
  BY <1>25, <1>b, <1>c DEF UserCancels, unchangedTurn
<1>26. CASE UNCHANGED vars
  BY <1>26, <1>b, <1>c DEF vars
<1> QED
  BY <1>1, <1>2, <1>3, <1>4, <1>5, <1>6, <1>7, <1>8, <1>9, <1>10, <1>11, <1>12, <1>13, <1>14,
     <1>15, <1>16, <1>17, <1>18, <1>19, <1>20, <1>21, <1>22, <1>23, <1>24, <1>25, <1>26 DEF
     Next, Run, Progress, Done

\* For every policy, whatever the approver does to the action object: only an action that
\* was proposed at its step, and that the policy does not deny, is ever run.
THEOREM OnlyProposedRun == Spec => []OnlyProposedActionsRun
<1>1. Init => BindingInv
  BY DEF Init, BindingInv, OnlyProposedActionsRun
<1>2. BindingInv => OnlyProposedActionsRun
  BY DEF BindingInv
<1> QED
  BY <1>1, <1>2, TypeCorrect, BindingStep, PTL DEF Spec

(***************************************************************************)
(* The audit log                                                           *)
(***************************************************************************)
AskedAt(log, step) ==
    \E j \in 1..Len(log) : IsEvent(log[j], "GOVERNANCE_DECISION", step, "REQUIRE_APPROVAL")

\* The event that justifies a call precedes the point at which TOOL_EXECUTED is written.
JustifiedInv ==
    /\ AuditJustifiesExecution
    /\ pc \in {"approval", "resume", "approved"} => AskedAt(audit, c.step)
    /\ pc = "executed" => Justified(audit, c.step, Len(audit))

\* A justification within the first n events outlives the growth of the log.
LEMMA JustifiedStays ==
    ASSUME Kept, NEW step, NEW n \in 0..Len(audit), Justified(audit, step, n)
    PROVE  Justified(audit', step, n)
<1>1. \A i \in 1..n : i \in 1..Len(audit)
  BY DEF Kept
<1>2. \A i \in 1..n : audit'[i] = audit[i]
  BY <1>1 DEF Kept
<1>3. \A j \in 1..n : \A k \in (j + 1)..n : k \in 1..n
  BY DEF Kept
<1> QED
  BY <1>2, <1>3 DEF Justified

\* Appending an event keeps the property if a TOOL_EXECUTED is justified by what precedes it.
LEMMA JustifiedEmit ==
    ASSUME TypeOK, AuditJustifiesExecution, NEW e, audit' = Append(audit, e),
           e.type = "TOOL_EXECUTED" => Justified(audit, e.step, Len(audit))
    PROVE  AuditJustifiesExecution'
<1>1. Kept /\ Len(audit') = Len(audit) + 1 /\ audit'[Len(audit')] = e
  BY EmitKeeps
<1> SUFFICES ASSUME NEW i \in 1..Len(audit'),
                    audit'[i].type = "TOOL_EXECUTED", audit'[i].data # "denied"
             PROVE  Justified(audit', audit'[i].step, i - 1)
  BY DEF AuditJustifiesExecution
<1>2. CASE i \in 1..Len(audit)
  <2>1. audit'[i] = audit[i] /\ i - 1 \in 0..Len(audit)
    BY <1>1, <1>2 DEF Kept
  <2>2. Justified(audit, audit[i].step, i - 1)
    BY <1>2, <2>1 DEF AuditJustifiesExecution
  <2> QED
    BY <1>1, <2>1, <2>2, JustifiedStays
<1>3. CASE i = Len(audit')
  <2>1. i - 1 = Len(audit) /\ Len(audit) \in 0..Len(audit) /\ audit'[i] = e
    BY <1>1, <1>3 DEF Kept
  <2> QED
    BY <1>1, <2>1, JustifiedStays
<1> QED
  BY <1>1, <1>2, <1>3 DEF Kept

\* Every step keeps the log its own justification.
LEMMA JustifiedStep == TypeOK /\ JustifiedInv /\ [Next]_vars => JustifiedInv'
<1> SUFFICES ASSUME TypeOK, JustifiedInv, [Next]_vars
             PROVE  JustifiedInv'
  OBVIOUS
<1>a. Kept
  BY LogGrows
<1>b. ASSUME UNCHANGED audit PROVE AuditJustifiesExecution'
  BY <1>b DEF JustifiedInv, AuditJustifiesExecution
<1>c. ASSUME NEW e, audit' = Append(audit, e), e.type # "TOOL_EXECUTED"
      PROVE  AuditJustifiesExecution'
  BY <1>c, JustifiedEmit DEF JustifiedInv
<1>d. AskedAt(audit, c.step) => AskedAt(audit', c.step)
  BY <1>a DEF Kept, AskedAt
<1> USE DEF JustifiedInv
<1>1. CASE CheckTermination
  BY <1>1, <1>c, <1>b DEF CheckTermination, Terminate, unchangedTurn, Emit
<1>2. CASE CheckCancel
  BY <1>2, <1>c, <1>b DEF CheckCancel, Terminate, Emit
<1>3. CASE LlmAttemptFails
  BY <1>3, <1>b DEF LlmAttemptFails
<1>4. CASE LlmGivesUp
  BY <1>4, <1>c DEF LlmGivesUp, Terminate, unchangedTurn, Emit
<1>5. CASE ReplyUnparsable
  BY <1>5, <1>c DEF ReplyUnparsable, Goto, unchangedTurn, Emit
<1>6. CASE FeedbackUnparsable
  BY <1>6, <1>c DEF FeedbackUnparsable, Goto, unchangedTurn, EmitFeedback
<1>7. ASSUME NEW a \in Actions, ReplyAction(a) PROVE JustifiedInv'
  BY <1>7, <1>c DEF ReplyAction, Goto, Emit
<1>8. ASSUME NEW a \in Actions, ResolverApproves(a) PROVE JustifiedInv'
  BY <1>8, <1>b DEF ResolverApproves, Goto, AskedAt
<1>9. CASE Dispatch
  BY <1>9, <1>b DEF Dispatch, Goto, AskedAt
<1>10. CASE RecordVerdict
  <2> DEFINE e == Event("GOVERNANCE_DECISION", c.step, verdict, "none")
  <2>1. audit' = Append(audit, e)
    BY <1>10 DEF RecordVerdict, Emit
  <2>2. /\ Len(audit') \in 1..Len(audit') /\ Len(audit') \in Nat
        /\ IsEvent(audit'[Len(audit')], "GOVERNANCE_DECISION", c.step, verdict)
    BY <2>1, EmitKeeps DEF Kept, IsEvent
  <2>3. AuditJustifiesExecution'
    BY <1>c, <2>1
  <2>4. c' = c
    BY <1>10 DEF RecordVerdict
  <2>5. CASE pc' = "approval" /\ verdict = "REQUIRE_APPROVAL"
    BY <2>2, <2>3, <2>4, <2>5 DEF AskedAt
  <2>6. CASE pc' = "denied"
    BY <2>3, <2>6
  <2>7. CASE pc' = "executed" /\ verdict \in Executing
    BY <2>2, <2>3, <2>4, <2>7 DEF Justified
  <2> QED
    BY <1>10, <2>5, <2>6, <2>7 DEF RecordVerdict
<1>11. CASE FeedbackDenied
  BY <1>11, <1>c DEF FeedbackDenied, Goto, unchangedTurn, EmitFeedback
<1>12. CASE ResolverRejects
  BY <1>12, <1>b DEF ResolverRejects, Goto, unchangedTurn
<1>13. CASE RecordRejected
  BY <1>13, <1>c DEF RecordRejected, Goto, unchangedTurn, Emit
<1>14. CASE ExecuteApproved
  BY <1>14, <1>b DEF ExecuteApproved, AskedAt
<1>15. CASE RecordSuperseded
  BY <1>15, <1>c DEF RecordSuperseded, Goto, unchangedTurn, Emit
<1>16. CASE RecordApproved
  <2>1. audit' = Append(audit, Event("APPROVAL_DECIDED", c.step, "APPROVED", "none"))
    BY <1>16 DEF RecordApproved, Emit
  <2>2. /\ Len(audit') = Len(audit) + 1 /\ Len(audit) \in Nat
        /\ IsEvent(audit'[Len(audit')], "APPROVAL_DECIDED", c.step, "APPROVED")
    BY <2>1, EmitKeeps DEF Kept, IsEvent
  <2>3. AuditJustifiesExecution'
    BY <1>c, <2>1
  <2>4. PICK j \in 1..Len(audit) :
            IsEvent(audit[j], "GOVERNANCE_DECISION", c.step, "REQUIRE_APPROVAL")
    BY <1>16 DEF RecordApproved, Goto, AskedAt
  <2>5. /\ j \in 1..Len(audit') /\ Len(audit') \in (j + 1)..Len(audit')
        /\ IsEvent(audit'[j], "GOVERNANCE_DECISION", c.step, "REQUIRE_APPROVAL")
    BY <1>a, <2>2, <2>4 DEF Kept
  <2>6. Justified(audit', c.step, Len(audit'))
    BY <2>2, <2>5 DEF Justified
  <2> QED
    BY <1>16, <2>3, <2>6 DEF RecordApproved, Goto
<1>17. CASE RecordExecuted
  <2>1. audit' = Append(audit, Event("TOOL_EXECUTED", c.step, result.status, "none"))
    BY <1>17 DEF RecordExecuted, Emit
  <2>2. Justified(audit, c.step, Len(audit))
    BY <1>17 DEF RecordExecuted
  <2>3. AuditJustifiesExecution'
    BY <2>1, <2>2, JustifiedEmit
  <2> QED
    BY <1>17, <2>3 DEF RecordExecuted
<1>18. CASE FinishAccepted
  BY <1>18, <1>c DEF FinishAccepted, Terminate, unchangedTurn, Emit
<1>19. CASE FinishRejected
  BY <1>19, <1>c DEF FinishRejected, Goto, unchangedTurn, EmitFeedback
<1>20. CASE ClassifyResult
  BY <1>20, <1>b DEF ClassifyResult, Goto, unchangedTurn
<1>21. CASE FeedbackResult
  BY <1>21, <1>c DEF FeedbackResult, Goto, unchangedTurn, EmitFeedback
<1>22. CASE TurnRaises
  BY <1>22, <1>c DEF TurnRaises, Terminate, unchangedTurn, Emit
<1>23. CASE RunRaises
  BY <1>23, <1>b DEF RunRaises, unchangedTurn
<1>24. CASE ClockExpires
  BY <1>24, <1>b DEF ClockExpires, unchangedTurn, AskedAt, Justified
<1>25. CASE UserCancels
  BY <1>25, <1>b DEF UserCancels, unchangedTurn, AskedAt, Justified
<1>26. CASE UNCHANGED vars
  BY <1>26, <1>b DEF vars, AskedAt, Justified
<1> QED
  BY <1>1, <1>2, <1>3, <1>4, <1>5, <1>6, <1>7, <1>8, <1>9, <1>10, <1>11, <1>12, <1>13, <1>14,
     <1>15, <1>16, <1>17, <1>18, <1>19, <1>20, <1>21, <1>22, <1>23, <1>24, <1>25, <1>26 DEF
     Next, Run, Progress, Done

\* For every policy: the audit log alone justifies each execution it reports.
THEOREM ExecutionsAreJustified == Spec => []AuditJustifiesExecution
<1>1. Init => JustifiedInv
  BY DEF Init, JustifiedInv, AuditJustifiesExecution
<1>2. JustifiedInv => AuditJustifiesExecution
  BY DEF JustifiedInv
<1> QED
  BY <1>1, <1>2, TypeCorrect, JustifiedStep, PTL DEF Spec
NoTermination == \A i \in 1..Len(audit) : audit[i].type # "TERMINATION"

\* A run that is not over has no TERMINATION event.
EndInv == TerminationIsLast /\ (pc # "done" => NoTermination)

\* An event of another type leaves the log without a TERMINATION.
LEMMA NoTerminationEmit ==
    ASSUME TypeOK, NoTermination, NEW e, audit' = Append(audit, e), e.type # "TERMINATION"
    PROVE  NoTermination'
<1>1. Kept /\ Len(audit') = Len(audit) + 1 /\ audit'[Len(audit')] = e
  BY EmitKeeps
<1> QED
  BY <1>1 DEF NoTermination, Kept

\* _audit_term puts the one TERMINATION event of the task last, with the reason.
LEMMA TerminateEnds ==
    ASSUME TypeOK, NoTermination, NEW r, Terminate(r), UNCHANGED c
    PROVE  EndInv'
<1>1. audit' = Append(audit, Event("TERMINATION", c.step, r, "none"))
  BY DEF Terminate, Emit
<1>2. /\ Kept /\ Len(audit') = Len(audit) + 1
      /\ IsEvent(audit'[Len(audit')], "TERMINATION", c.step, r)
  BY <1>1, EmitKeeps DEF IsEvent
<1>3. pc' = "done" /\ reason' = r
  BY DEF Terminate
<1>4. ASSUME NEW i \in 1..Len(audit'), audit'[i].type = "TERMINATION"
      PROVE  i = Len(audit')
  BY <1>2, <1>4 DEF NoTermination, Kept
<1> QED
  BY <1>2, <1>3, <1>4 DEF EndInv, TerminationIsLast, Kept

\* Every step keeps the TERMINATION event unique, last and right.
LEMMA EndStep == TypeOK /\ EndInv /\ [Next]_vars => EndInv'
<1> SUFFICES ASSUME TypeOK, EndInv, [Next]_vars
             PROVE  EndInv'
  OBVIOUS
<1>a. ASSUME pc # "done", pc' # "done", UNCHANGED audit PROVE EndInv'
  BY <1>a DEF EndInv, NoTermination, TerminationIsLast
<1>b. ASSUME pc # "done", pc' # "done",
             NEW e, audit' = Append(audit, e), e.type # "TERMINATION"
      PROVE  EndInv'
  <2>1. NoTermination'
    BY <1>b, NoTerminationEmit DEF EndInv
  <2> QED
    BY <1>b, <2>1 DEF EndInv, NoTermination, TerminationIsLast
<1>c. ASSUME pc # "done", NEW r, Terminate(r), UNCHANGED c PROVE EndInv'
  BY <1>c, TerminateEnds DEF EndInv
<1>1. CASE CheckTermination
  BY <1>1, <1>c, <1>a DEF CheckTermination
<1>2. CASE CheckCancel
  BY <1>2, <1>c, <1>a DEF CheckCancel
<1>3. CASE LlmAttemptFails
  BY <1>3, <1>a DEF LlmAttemptFails
<1>4. CASE LlmGivesUp
  BY <1>4, <1>c DEF LlmGivesUp
<1>5. CASE ReplyUnparsable
  BY <1>5, <1>b DEF ReplyUnparsable, Emit, Goto
<1>6. CASE FeedbackUnparsable
  BY <1>6, <1>b DEF FeedbackUnparsable, EmitFeedback, Goto
<1>7. ASSUME NEW a \in Actions, ReplyAction(a) PROVE EndInv'
  BY <1>7, <1>b DEF ReplyAction, Emit, Goto
<1>8. ASSUME NEW a \in Actions, ResolverApproves(a) PROVE EndInv'
  BY <1>8, <1>a DEF ResolverApproves, Goto
<1>9. CASE Dispatch
  BY <1>9, <1>a DEF Dispatch, Goto
<1>10. CASE RecordVerdict
  BY <1>10, <1>b DEF RecordVerdict, Emit
<1>11. CASE FeedbackDenied
  BY <1>11, <1>b DEF FeedbackDenied, EmitFeedback, Goto
<1>12. CASE ResolverRejects
  BY <1>12, <1>a DEF ResolverRejects, Goto
<1>13. CASE RecordRejected
  BY <1>13, <1>b DEF RecordRejected, Emit, Goto
<1>14. CASE ExecuteApproved
  BY <1>14, <1>a DEF ExecuteApproved
<1>15. CASE RecordSuperseded
  BY <1>15, <1>b DEF RecordSuperseded, Emit, Goto
<1>16. CASE RecordApproved
  BY <1>16, <1>b DEF RecordApproved, Emit, Goto
<1>17. CASE RecordExecuted
  BY <1>17, <1>b DEF RecordExecuted, Emit
<1>18. CASE FinishAccepted
  BY <1>18, <1>c DEF FinishAccepted
<1>19. CASE FinishRejected
  BY <1>19, <1>b DEF FinishRejected, EmitFeedback, Goto
<1>20. CASE ClassifyResult
  BY <1>20, <1>a DEF ClassifyResult, Goto
<1>21. CASE FeedbackResult
  BY <1>21, <1>b DEF FeedbackResult, EmitFeedback, Goto
<1>22. CASE TurnRaises
  BY <1>22, <1>c DEF TurnRaises, TurnPoints
<1>23. CASE RunRaises
  <2>1. pc # "done" /\ pc' = "done" /\ reason' = "INTERNAL_ERROR" /\ audit' = audit
    BY <1>23 DEF RunRaises, TurnPoints
  <2> QED
    BY <2>1 DEF EndInv, NoTermination, TerminationIsLast
<1>24. CASE ClockExpires
  BY <1>24, <1>a DEF ClockExpires
<1>25. CASE UserCancels
  BY <1>25, <1>a DEF UserCancels
<1>26. CASE UNCHANGED vars
  BY <1>26 DEF vars, EndInv, NoTermination, TerminationIsLast
<1> QED
  BY <1>1, <1>2, <1>3, <1>4, <1>5, <1>6, <1>7, <1>8, <1>9, <1>10, <1>11, <1>12, <1>13, <1>14,
     <1>15, <1>16, <1>17, <1>18, <1>19, <1>20, <1>21, <1>22, <1>23, <1>24, <1>25, <1>26 DEF
     Next, Run, Progress, Done

\* For every policy and all limits: a task has at most one TERMINATION event, it is the last
\* one, and it names the reason that run() returned.
THEOREM TerminationIsUnique == Spec => []TerminationIsLast
<1>1. Init => EndInv
  BY DEF Init, EndInv, NoTermination, TerminationIsLast
<1>2. EndInv => TerminationIsLast
  BY DEF EndInv
<1> QED
  BY <1>1, <1>2, TypeCorrect, EndStep, PTL DEF Spec

(***************************************************************************)
(* Log and calls                                                           *)
(***************************************************************************)
\* Counting places of the log: what is found among the first n, and one more at n + 1.
LEMMA IndexSets ==
    ASSUME NEW n \in Nat, NEW S \in SUBSET (1..n)
    PROVE  /\ IsFiniteSet(S) /\ Cardinality(S) \in Nat
           /\ Cardinality(S \cup {n + 1}) = Cardinality(S) + 1
<1>1. IsFiniteSet(1..n)
  BY FS_Interval
<1>2. IsFiniteSet(S)
  BY <1>1, FS_Subset
<1>3. n + 1 \notin S
  OBVIOUS
<1> QED
  BY <1>2, <1>3, FS_CardinalityType, FS_AddElement

\* A tool has been called and its TOOL_EXECUTED event is not written yet.
CallUnrecorded ==
    \/ pc = "verdict" /\ verdict \in Executing
    \/ pc \in {"approved", "executed"} /\ result.status # "denied"

\* The log lacks exactly the call that is not recorded yet, and a run that dies before it
\* has written the event never catches up.
AuditedInv ==
    /\ pc = "verdict" /\ verdict \in Executing => result.status # "denied"
    /\ pc # "done" => Len(ran) = Cardinality(ExecutionEvents) + (IF CallUnrecorded THEN 1 ELSE 0)
    /\ pc = "done" => /\ Len(ran) - 1 <= Cardinality(ExecutionEvents)
                      /\ reason # "INTERNAL_ERROR" => Len(ran) = Cardinality(ExecutionEvents)

\* An event is counted as an execution exactly when it is a TOOL_EXECUTED with no denial.
LEMMA EmitExecutions ==
    ASSUME TypeOK, NEW e, audit' = Append(audit, e)
    PROVE  Cardinality(ExecutionEvents') = Cardinality(ExecutionEvents)
               + (IF e.type = "TOOL_EXECUTED" /\ e.data # "denied" THEN 1 ELSE 0)
<1>1. Kept /\ Len(audit') = Len(audit) + 1 /\ audit'[Len(audit')] = e
  BY EmitKeeps
<1>2. Len(audit) \in Nat /\ ExecutionEvents \in SUBSET (1..Len(audit))
  BY <1>1 DEF Kept, ExecutionEvents
<1>3. CASE e.type = "TOOL_EXECUTED" /\ e.data # "denied"
  <2>1. ExecutionEvents' = ExecutionEvents \cup {Len(audit) + 1}
    BY <1>1, <1>3 DEF Kept, ExecutionEvents
  <2> QED
    BY <1>2, <1>3, <2>1, IndexSets
<1>4. CASE ~(e.type = "TOOL_EXECUTED" /\ e.data # "denied")
  <2>1. ExecutionEvents' = ExecutionEvents
    BY <1>1, <1>4 DEF Kept, ExecutionEvents
  <2>2. Cardinality(ExecutionEvents) \in Nat
    BY <1>2, IndexSets, Zenon
  <2> QED
    BY <1>4, <2>1, <2>2
<1> QED
  BY <1>3, <1>4

\* A tool never answers with a denial, nor does a run of an action that is not registered.
LEMMA RunToolStatus ==
    ASSUME TypeOK, RunTool
    PROVE  result'.status # "denied"
<1>1. Outcomes[action] \subseteq ToolResults
  BY ActionsAssumption DEF TypeOK
<1> QED
  BY <1>1 DEF RunTool, ToolResults

\* Every step keeps log and calls in agreement.
LEMMA AuditedStep == TypeOK /\ BindingInv /\ AuditedInv /\ [Next]_vars => AuditedInv'
<1> SUFFICES ASSUME TypeOK, BindingInv, AuditedInv, [Next]_vars
             PROVE  AuditedInv'
  OBVIOUS
<1> DEFINE N == Cardinality(ExecutionEvents)
<1>a. N \in Nat /\ Len(ran) \in Nat
  <2>1. Len(audit) \in Nat /\ ExecutionEvents \in SUBSET (1..Len(audit))
    BY DEF TypeOK, ExecutionEvents
  <2>2. N \in Nat
    BY <2>1, IndexSets, Zenon
  <2> QED
    BY <2>2 DEF TypeOK
<1>b. ASSUME UNCHANGED audit PROVE N' = N
  BY <1>b DEF ExecutionEvents
<1>c. ASSUME NEW e, audit' = Append(audit, e), e.type # "TOOL_EXECUTED" \/ e.data = "denied"
      PROVE  N' = N
  BY <1>a, <1>c, EmitExecutions
<1> HIDE DEF N
<1>d. /\ pc = "verdict" /\ verdict \in Executing => result.status # "denied"
      /\ pc # "done" => Len(ran) = N + (IF CallUnrecorded THEN 1 ELSE 0)
      /\ pc = "done" => /\ Len(ran) - 1 <= N
                        /\ reason # "INTERNAL_ERROR" => Len(ran) = N
  BY DEF AuditedInv, N
<1>e. ASSUME /\ pc' = "verdict" /\ verdict' \in Executing => result'.status # "denied"
             /\ pc' # "done" => Len(ran') = N' + (IF CallUnrecorded' THEN 1 ELSE 0)
             /\ pc' = "done" => /\ Len(ran') - 1 <= N'
                                /\ reason' # "INTERNAL_ERROR" => Len(ran') = N'
      PROVE  AuditedInv'
  BY <1>e DEF AuditedInv, N
<1> USE <1>a, <1>d DEF CallUnrecorded
<1>1. CASE CheckTermination
  BY <1>1, <1>e, <1>b, <1>c DEF CheckTermination, Terminate, Emit, unchangedTurn
<1>2. CASE CheckCancel
  BY <1>2, <1>e, <1>b, <1>c DEF CheckCancel, Terminate, Emit
<1>3. CASE LlmAttemptFails
  BY <1>3, <1>e, <1>b DEF LlmAttemptFails
<1>4. CASE LlmGivesUp
  BY <1>4, <1>e, <1>c DEF LlmGivesUp, Terminate, Emit, unchangedTurn
<1>5. CASE ReplyUnparsable
  BY <1>5, <1>e, <1>c DEF ReplyUnparsable, Goto, Emit, unchangedTurn
<1>6. CASE FeedbackUnparsable
  BY <1>6, <1>e, <1>c DEF FeedbackUnparsable, Goto, EmitFeedback, unchangedTurn
<1>7. ASSUME NEW a \in Actions, ReplyAction(a) PROVE AuditedInv'
  BY <1>7, <1>e, <1>c DEF ReplyAction, Goto, Emit
<1>8. ASSUME NEW a \in Actions, ResolverApproves(a) PROVE AuditedInv'
  BY <1>8, <1>e, <1>b DEF ResolverApproves, Goto
<1>9. CASE Dispatch
  <2>1. CASE verdict' \in Executing /\ RunTool
    BY <1>9, <1>b, <1>e, <2>1, RunToolLen, RunToolStatus DEF Dispatch, Goto
  <2>2. CASE verdict' \notin Executing /\ UNCHANGED <<result, ran>>
    BY <1>9, <1>b, <1>e, <2>2 DEF Dispatch, Goto
  <2> QED
    BY <1>9, <2>1, <2>2 DEF Dispatch
<1>10. CASE RecordVerdict
  <2>1. N' = N /\ UNCHANGED <<ran, result, verdict>>
    BY <1>10, <1>c DEF RecordVerdict, Emit
  <2>2. CASE verdict \in Executing /\ pc' = "executed"
    BY <1>10, <1>e, <2>1, <2>2 DEF RecordVerdict
  <2>3. CASE verdict \notin Executing /\ pc' \in {"approval", "denied"}
    BY <1>10, <1>e, <2>1, <2>3 DEF RecordVerdict
  <2> QED
    BY <1>10, <2>2, <2>3 DEF RecordVerdict, Executing
<1>11. CASE FeedbackDenied
  BY <1>11, <1>e, <1>c DEF FeedbackDenied, Goto, EmitFeedback, unchangedTurn
<1>12. CASE ResolverRejects
  BY <1>12, <1>e, <1>b DEF ResolverRejects, Goto, unchangedTurn
<1>13. CASE RecordRejected
  BY <1>13, <1>e, <1>c DEF RecordRejected, Goto, Emit, unchangedTurn
<1>14. CASE ExecuteApproved
  <2>1. N' = N
    BY <1>14, <1>b DEF ExecuteApproved
  <2>2. CASE pc' = "superseded" /\ UNCHANGED ran
    BY <1>14, <1>e, <2>1, <2>2 DEF ExecuteApproved
  <2>3. CASE pc' = "approved" /\ RunTool
    BY <1>14, <1>e, <2>1, <2>3, RunToolLen, RunToolStatus DEF ExecuteApproved
  <2>4. CASE pc' = "approved" /\ UNCHANGED ran /\ result' = Denied
    BY <1>14, <1>e, <2>1, <2>4 DEF ExecuteApproved, Denied
  <2>5. StillApproved(action) => action \in Registered
    BY <1>14 DEF ExecuteApproved, BindingInv, Permitted, StillApproved
  <2> QED
    BY <1>14, <2>2, <2>3, <2>4, <2>5 DEF ExecuteApproved
<1>15. CASE RecordSuperseded
  BY <1>15, <1>e, <1>c DEF RecordSuperseded, Goto, Emit, unchangedTurn
<1>16. CASE RecordApproved
  BY <1>16, <1>e, <1>c DEF RecordApproved, Goto, Emit, unchangedTurn
<1>17. CASE RecordExecuted
  <2>1. audit' = Append(audit, Event("TOOL_EXECUTED", c.step, result.status, "none"))
    BY <1>17 DEF RecordExecuted, Emit
  <2>2. N' = N + (IF result.status # "denied" THEN 1 ELSE 0)
    BY <2>1, EmitExecutions DEF N
  <2> QED
    BY <1>17, <1>e, <2>2 DEF RecordExecuted, unchangedTurn
<1>18. CASE FinishAccepted
  BY <1>18, <1>e, <1>c DEF FinishAccepted, Terminate, Emit, unchangedTurn
<1>19. CASE FinishRejected
  BY <1>19, <1>e, <1>c DEF FinishRejected, Goto, EmitFeedback, unchangedTurn
<1>20. CASE ClassifyResult
  BY <1>20, <1>e, <1>b DEF ClassifyResult, Goto, unchangedTurn
<1>21. CASE FeedbackResult
  BY <1>21, <1>e, <1>c DEF FeedbackResult, Goto, EmitFeedback, unchangedTurn
<1>22. CASE TurnRaises
  BY <1>22, <1>e, <1>c DEF TurnRaises, Terminate, Emit, unchangedTurn, TurnPoints
<1>23. CASE RunRaises
  BY <1>23, <1>e, <1>b DEF RunRaises, unchangedTurn, TurnPoints
<1>24. CASE ClockExpires
  BY <1>24, <1>e, <1>b DEF ClockExpires, unchangedTurn
<1>25. CASE UserCancels
  BY <1>25, <1>e, <1>b DEF UserCancels, unchangedTurn
<1>26. CASE UNCHANGED vars
  BY <1>26, <1>e, <1>b DEF vars
<1> QED
  BY <1>1, <1>2, <1>3, <1>4, <1>5, <1>6, <1>7, <1>8, <1>9, <1>10, <1>11, <1>12, <1>13, <1>14,
     <1>15, <1>16, <1>17, <1>18, <1>19, <1>20, <1>21, <1>22, <1>23, <1>24, <1>25, <1>26 DEF
     Next, Run, Progress, Done

\* A run starts with an empty log and no calls.
LEMMA AuditedInit == Init => AuditedInv /\ BindingInv
<1> SUFFICES ASSUME Init PROVE AuditedInv /\ BindingInv
  OBVIOUS
<1>1. ExecutionEvents = {} /\ Len(ran) = 0 /\ pc = "check"
  BY DEF Init, ExecutionEvents
<1>2. BindingInv
  BY DEF Init, BindingInv, OnlyProposedActionsRun
<1> QED
  BY <1>1, <1>2, FS_EmptySet DEF AuditedInv, CallUnrecorded

\* For every policy and all limits: log and calls agree between turns, and after a run that
\* did not end in INTERNAL_ERROR; at worst the log misses the one call of the turn that died.
THEOREM ExecutionsAreAudited == Spec => []ExecutionsAudited
<1>1. Init => AuditedInv /\ BindingInv
  BY AuditedInit
<1>2. TypeOK /\ AuditedInv => ExecutionsAudited
  <2> SUFFICES ASSUME TypeOK, AuditedInv PROVE ExecutionsAudited
    OBVIOUS
  <2>1. Len(audit) \in Nat /\ ExecutionEvents \in SUBSET (1..Len(audit)) /\ Len(ran) \in Nat
    BY DEF TypeOK, ExecutionEvents
  <2>2. Cardinality(ExecutionEvents) \in Nat
    BY <2>1, IndexSets, Zenon
  <2> QED
    BY <2>1, <2>2 DEF AuditedInv, CallUnrecorded, ExecutionsAudited
<1> QED
  BY <1>1, <1>2, TypeCorrect, BindingStep, AuditedStep, PTL DEF Spec

(***************************************************************************)
(* The prompt of the next turn                                             *)
(***************************************************************************)
\* Every completed step is shown or was a rejected finish; while the result of a tool is
\* classified but not fed back yet, the counter is one ahead.
PromptInv ==
    /\ pc \notin {"feedback", "done"} =>
          Len(recent_steps) + Cardinality(RejectedFinishes) = c.step
    /\ pc = "feedback" => Len(recent_steps) + Cardinality(RejectedFinishes) + 1 = c.step

\* Trimming drops nothing as long as the list is not longer than the limit.
LEMMA AppendStepLen ==
    ASSUME TypeOK, NEW category \in Feedbacks, Len(recent_steps) < MaxSteps
    PROVE  Len(AppendStep(category)) = Len(recent_steps) + 1
<1>1. /\ Append(recent_steps, category) \in Seq(Feedbacks)
      /\ Len(Append(recent_steps, category)) = Len(recent_steps) + 1
      /\ Len(recent_steps) \in Nat
  BY DEF TypeOK
<1> QED
  BY <1>1, LimitsAssumption DEF AppendStep, Newest

\* An event is counted as a rejected finish exactly when it is a FEEDBACK that says so.
LEMMA EmitRejectedFinishes ==
    ASSUME TypeOK, NEW e, audit' = Append(audit, e)
    PROVE  Cardinality(RejectedFinishes') = Cardinality(RejectedFinishes)
               + (IF e.type = "FEEDBACK" /\ e.data = "FINISH_REJECTED" THEN 1 ELSE 0)
<1>1. Kept /\ Len(audit') = Len(audit) + 1 /\ audit'[Len(audit')] = e
  BY EmitKeeps
<1>2. Len(audit) \in Nat /\ RejectedFinishes \in SUBSET (1..Len(audit))
  BY <1>1 DEF Kept, RejectedFinishes
<1>3. CASE e.type = "FEEDBACK" /\ e.data = "FINISH_REJECTED"
  <2>1. RejectedFinishes' = RejectedFinishes \cup {Len(audit) + 1}
    BY <1>1, <1>3 DEF Kept, RejectedFinishes, IsEvent
  <2> QED
    BY <1>2, <1>3, <2>1, IndexSets
<1>4. CASE ~(e.type = "FEEDBACK" /\ e.data = "FINISH_REJECTED")
  <2>1. RejectedFinishes' = RejectedFinishes
    BY <1>1, <1>4 DEF Kept, RejectedFinishes, IsEvent
  <2>2. Cardinality(RejectedFinishes) \in Nat
    BY <1>2, IndexSets, Zenon
  <2> QED
    BY <1>4, <2>1, <2>2
<1> QED
  BY <1>3, <1>4

\* Every step keeps the prompt complete.
LEMMA PromptStep == TypeOK /\ RepliesInv /\ PromptInv /\ [Next]_vars => PromptInv'
<1> SUFFICES ASSUME TypeOK, RepliesInv, PromptInv, [Next]_vars
             PROVE  PromptInv'
  OBVIOUS
<1> DEFINE N == Cardinality(RejectedFinishes)
<1>a. N \in Nat /\ Len(recent_steps) \in Nat
  <2>1. Len(audit) \in Nat /\ RejectedFinishes \in SUBSET (1..Len(audit))
    BY DEF TypeOK, RejectedFinishes
  <2>2. N \in Nat
    BY <2>1, IndexSets, Zenon
  <2> QED
    BY <2>2 DEF TypeOK
<1>b. ASSUME UNCHANGED audit PROVE N' = N
  BY <1>b DEF RejectedFinishes
<1>c. ASSUME NEW e, audit' = Append(audit, e), e.type # "FEEDBACK" \/ e.data # "FINISH_REJECTED"
      PROVE  N' = N
  BY <1>a, <1>c, EmitRejectedFinishes
<1>d. ASSUME NEW e, audit' = Append(audit, e), e.type = "FEEDBACK", e.data = "FINISH_REJECTED"
      PROVE  N' = N + 1
  BY <1>d, EmitRejectedFinishes
<1> HIDE DEF N
<1>e. /\ pc \notin {"feedback", "done"} => Len(recent_steps) + N = c.step
      /\ pc = "feedback" => Len(recent_steps) + N + 1 = c.step
  BY DEF PromptInv, N
<1>f. ASSUME /\ pc' \notin {"feedback", "done"} => Len(recent_steps') + N' = c'.step
             /\ pc' = "feedback" => Len(recent_steps') + N' + 1 = c'.step
      PROVE  PromptInv'
  BY <1>f DEF PromptInv, N
<1>g. /\ c \in LoopCounters /\ c.step \in Nat /\ c.step <= MaxSteps /\ MaxSteps \in Nat
      /\ pc \in AfterReply => c.step < MaxSteps
  BY CounterFields, LimitsAssumption DEF TypeOK, RepliesInv
<1> USE <1>a, <1>e
<1>1. CASE CheckTermination
  BY <1>1, <1>f, <1>b, <1>c DEF CheckTermination, Terminate, Emit, unchangedPrompt
<1>2. CASE CheckCancel
  BY <1>2, <1>f, <1>b, <1>c DEF CheckCancel, Terminate, Emit, unchangedPrompt
<1>3. CASE LlmAttemptFails
  BY <1>3, <1>f, <1>b DEF LlmAttemptFails, unchangedPrompt
<1>4. CASE LlmGivesUp
  BY <1>4, <1>f, <1>c DEF LlmGivesUp, Terminate
<1>5. CASE ReplyUnparsable
  BY <1>5, <1>f, <1>c, <1>g, CounterFields DEF ReplyUnparsable, Goto, Emit
<1>6. CASE FeedbackUnparsable
  BY <1>6, <1>f, <1>c DEF FeedbackUnparsable, Goto, EmitFeedback, unchangedPrompt
<1>7. ASSUME NEW a \in Actions, ReplyAction(a) PROVE PromptInv'
  BY <1>7, <1>f, <1>c, <1>g, CounterFields DEF ReplyAction, Goto, Emit, unchangedPrompt
<1>8. ASSUME NEW a \in Actions, ResolverApproves(a) PROVE PromptInv'
  BY <1>8, <1>f, <1>b DEF ResolverApproves, Goto, unchangedPrompt
<1>9. CASE Dispatch
  BY <1>9, <1>f, <1>b DEF Dispatch, Goto, unchangedPrompt
<1>10. CASE RecordVerdict
  BY <1>10, <1>f, <1>c DEF RecordVerdict, Emit, unchangedPrompt
<1>11. CASE FeedbackDenied
  <2>1. N' = N /\ c' = FailedStep(c) /\ pc' = "check"
    BY <1>11, <1>c DEF FeedbackDenied, Goto, Emit, EmitFeedback
  <2>2. Len(recent_steps) + N = c.step /\ c.step < MaxSteps
    BY <1>11, <1>g DEF FeedbackDenied, Goto, AfterReply, TurnPoints
  <2>3. Len(recent_steps') = Len(recent_steps) + 1
    BY <1>11, <1>g, <2>2, AppendStepLen DEF FeedbackDenied, Feedbacks, Categories
  <2>4. c'.step = c.step + 1
    BY <1>g, <2>1, CounterFields
  <2> QED
    BY <1>f, <1>g, <2>1, <2>2, <2>3, <2>4
<1>12. CASE ResolverRejects
  BY <1>12, <1>f, <1>b DEF ResolverRejects, Goto, unchangedPrompt
<1>13. CASE RecordRejected
  <2>1. N' = N /\ c' = FailedStep(c) /\ pc' = "check"
    BY <1>13, <1>c DEF RecordRejected, Goto, Emit, EmitFeedback
  <2>2. Len(recent_steps) + N = c.step /\ c.step < MaxSteps
    BY <1>13, <1>g DEF RecordRejected, Goto, AfterReply, TurnPoints
  <2>3. Len(recent_steps') = Len(recent_steps) + 1
    BY <1>13, <1>g, <2>2, AppendStepLen DEF RecordRejected, Feedbacks, Categories
  <2>4. c'.step = c.step + 1
    BY <1>g, <2>1, CounterFields
  <2> QED
    BY <1>f, <1>g, <2>1, <2>2, <2>3, <2>4
<1>14. CASE ExecuteApproved
  BY <1>14, <1>f, <1>b DEF ExecuteApproved, unchangedPrompt
<1>15. CASE RecordSuperseded
  BY <1>15, <1>f, <1>c DEF RecordSuperseded, Goto, Emit, unchangedPrompt
<1>16. CASE RecordApproved
  BY <1>16, <1>f, <1>c DEF RecordApproved, Goto, Emit, unchangedPrompt
<1>17. CASE RecordExecuted
  BY <1>17, <1>f, <1>c DEF RecordExecuted, Emit, unchangedPrompt
<1>18. CASE FinishAccepted
  BY <1>18, <1>f DEF FinishAccepted, Terminate
<1>19. CASE FinishRejected
  <2>1. N' = N + 1 /\ c' = FailedStep(c) /\ pc' = "check" /\ pc = "finish"
    BY <1>19, <1>d DEF FinishRejected, Goto, EmitFeedback
  <2> QED
    BY <1>19, <1>f, <1>g, <2>1, CounterFields DEF FinishRejected
<1>20. CASE ClassifyResult
  BY <1>20, <1>f, <1>b, <1>g, CounterFields DEF ClassifyResult, Goto
<1>21. CASE FeedbackResult
  <2> DEFINE category == IF Classify(result) = "none" THEN "SUCCESS" ELSE Classify(result)
  <2>1. category \in Feedbacks /\ category # "FINISH_REJECTED"
    BY ClassifyType DEF TypeOK, Feedbacks, Categories
  <2>2. N' = N
    BY <1>21, <1>c, <2>1 DEF FeedbackResult, EmitFeedback
  <2>3. Len(recent_steps) < MaxSteps
    BY <1>21, <1>g DEF FeedbackResult, Goto
  <2>4. Len(recent_steps') = Len(recent_steps) + 1
    BY <1>21, <2>1, <2>3, AppendStepLen DEF FeedbackResult
  <2> QED
    BY <1>21, <1>f, <1>g, <2>2, <2>4 DEF FeedbackResult, Goto
<1>22. CASE TurnRaises
  BY <1>22, <1>f DEF TurnRaises, Terminate
<1>23. CASE RunRaises
  BY <1>23, <1>f DEF RunRaises
<1>24. CASE ClockExpires
  BY <1>24, <1>f, <1>b DEF ClockExpires, unchangedPrompt
<1>25. CASE UserCancels
  BY <1>25, <1>f, <1>b DEF UserCancels, unchangedPrompt
<1>26. CASE UNCHANGED vars
  BY <1>26, <1>f, <1>b DEF vars
<1> QED
  BY <1>1, <1>2, <1>3, <1>4, <1>5, <1>6, <1>7, <1>8, <1>9, <1>10, <1>11, <1>12, <1>13, <1>14,
     <1>15, <1>16, <1>17, <1>18, <1>19, <1>20, <1>21, <1>22, <1>23, <1>24, <1>25, <1>26 DEF
     Next, Run, Progress, Done

\* For all limits: the prompt of a turn shows every completed step but the rejected
\* finishes, although the list of steps is trimmed.
THEOREM PromptIsComplete == Spec => []PromptShowsEveryStep
<1>1. Init => PromptInv /\ RepliesInv
  <2> SUFFICES ASSUME Init PROVE PromptInv /\ RepliesInv
    OBVIOUS
  <2>1. RejectedFinishes = {} /\ Len(recent_steps) = 0 /\ pc = "check" /\ c.step = 0
    BY DEF Init, RejectedFinishes, Counters
  <2> QED
    BY <2>1, RepliesInit, FS_EmptySet DEF PromptInv
<1>2. PromptInv => PromptShowsEveryStep
  BY DEF PromptInv, PromptShowsEveryStep, BetweenTurns
<1> QED
  BY <1>1, <1>2, TypeCorrect, RepliesStep, PromptStep, PTL DEF Spec

(***************************************************************************)
(* The streak of failures                                                  *)
(***************************************************************************)
\* The step outcomes the loop counts: a repeated action is counted as a repetition instead.
CountedOutcomes ==
    {i \in StepOutcomes : audit[i].type = "FEEDBACK" => audit[i].detail # "NO_PROGRESS"}

Streak == Cardinality(TrailingFailures(CountedOutcomes))

\* The counter is the streak in the log.  The result of a tool is counted one step before
\* its FEEDBACK event is written, whose detail tells which of the three ways it went.
StreakInv ==
    /\ pc \notin {"feedback", "done"} => c.consecutive_failures = Streak
    /\ pc = "feedback" =>
          \/ last_feedback = "NO_PROGRESS" /\ c.consecutive_failures = Streak
          \/ /\ last_feedback = Classify(result) /\ last_feedback \notin {"none", "NO_PROGRESS"}
             /\ c.consecutive_failures = Streak + 1
          \/ /\ last_feedback = "none" /\ Classify(result) = "none"
             /\ c.consecutive_failures = 0
    /\ result.category # "NO_PROGRESS"

\* An event that tells how a step ended.
IsOutcome(e) ==
    \/ e.type = "FEEDBACK" /\ e.detail \notin {"PARSE_ERROR", "NO_PROGRESS"}
    \/ e.type = "APPROVAL_DECIDED" /\ e.data = "REJECTED"

\* A failed step prolongs the streak, a success ends it, another event leaves it alone.
LEMMA EmitStreak ==
    ASSUME TypeOK, NEW e, audit' = Append(audit, e)
    PROVE  /\ ~IsOutcome(e) => Streak' = Streak
           /\ IsOutcome(e) /\ e.data # "SUCCESS" => Streak' = Streak + 1
           /\ IsOutcome(e) /\ e.data = "SUCCESS" => Streak' = 0
<1> DEFINE n == Len(audit)
           S == CountedOutcomes
           F == TrailingFailures(CountedOutcomes)
<1>1. /\ Kept /\ n \in Nat /\ Len(audit') = n + 1 /\ audit'[n + 1] = e
      /\ \A i \in 1..n : audit'[i] = audit[i]
  BY EmitKeeps DEF Kept
<1>2. S \in SUBSET (1..n) /\ F \in SUBSET (1..n)
  BY <1>1 DEF CountedOutcomes, StepOutcomes, TrailingFailures
<1>3. /\ F = {i \in S : \A j \in S : j >= i => audit[j].data # "SUCCESS"}
      /\ F' = {i \in S' : \A j \in S' : j >= i => audit'[j].data # "SUCCESS"}
  BY DEF TrailingFailures
<1>4. S' = IF IsOutcome(e) THEN S \cup {n + 1} ELSE S
  <2>1. S = {i \in 1..n : IsOutcome(audit[i])}
    BY DEF CountedOutcomes, StepOutcomes, IsOutcome
  <2>2. S' = {i \in 1..(n + 1) : IsOutcome(audit'[i])}
    BY <1>1 DEF CountedOutcomes, StepOutcomes, IsOutcome
  <2> QED
    BY <1>1, <2>1, <2>2
<1> HIDE DEF S, F, n
<1>5. ASSUME ~IsOutcome(e) PROVE F' = F
  BY <1>1, <1>2, <1>3, <1>4, <1>5
<1>6. ASSUME IsOutcome(e), e.data # "SUCCESS" PROVE F' = F \cup {n + 1}
  <2>1. S' = S \cup {n + 1} /\ audit'[n + 1].data # "SUCCESS"
    BY <1>1, <1>4, <1>6
  <2>2. \A i \in S : i \in 1..n /\ audit'[i] = audit[i]
    BY <1>1, <1>2
  <2>3. n + 1 \in F'
    BY <1>1, <1>3, <2>1, <2>2
  <2>4. \A i \in S : i \in F' <=> i \in F
    BY <1>3, <2>1, <2>2
  <2>5. F' \subseteq S \cup {n + 1} /\ F \subseteq S
    BY <1>3, <2>1
  <2> QED
    BY <2>3, <2>4, <2>5
<1>7. ASSUME IsOutcome(e), e.data = "SUCCESS" PROVE F' = {}
  BY <1>1, <1>2, <1>3, <1>4, <1>7
<1>8. Cardinality(F \cup {n + 1}) = Cardinality(F) + 1
  BY <1>1, <1>2, IndexSets
<1>9. Streak = Cardinality(F) /\ Streak' = Cardinality(F')
  BY DEF Streak, F
<1> QED
  BY <1>5, <1>6, <1>7, <1>8, <1>9, FS_EmptySet

\* What the updates of LoopCounters do to the streak.
LEMMA FailureFields ==
    ASSUME c \in LoopCounters
    PROVE  /\ c.consecutive_failures \in Nat
           /\ UnparsableReply(c).consecutive_failures = c.consecutive_failures
           /\ ParsedReply(c).consecutive_failures = c.consecutive_failures
           /\ FailedStep(c).consecutive_failures = c.consecutive_failures + 1
           /\ RepeatedStep(c).consecutive_failures = c.consecutive_failures
           /\ SuccessfulStep(c).consecutive_failures = 0
  BY DEF LoopCounters, Counters, UnparsableReply, ParsedReply, FailedStep, RepeatedStep,
         SuccessfulStep

\* Neither a tool nor the dispatcher answers NO_PROGRESS.
LEMMA RunToolCategory ==
    ASSUME TypeOK, RunTool
    PROVE  result'.category # "NO_PROGRESS"
<1>1. Outcomes[action] \subseteq ToolResults
  BY ActionsAssumption DEF TypeOK
<1> QED
  BY <1>1 DEF RunTool, ToolResults

\* classify gives NO_PROGRESS only for a result that says so, and no tag of the log's own.
LEMMA ClassifyTags ==
    ASSUME NEW r \in Results, r.category # "NO_PROGRESS"
    PROVE  Classify(r) \notin {"NO_PROGRESS", "PARSE_ERROR", "SUCCESS"}
  BY DEF Classify, Results, Categories

\* Every step keeps the counter equal to the streak.
LEMMA StreakStep == TypeOK /\ StreakInv /\ [Next]_vars => StreakInv'
<1> SUFFICES ASSUME TypeOK, StreakInv, [Next]_vars
             PROVE  StreakInv'
  OBVIOUS
<1>a. c \in LoopCounters /\ result \in Results /\ result.category # "NO_PROGRESS"
  BY DEF TypeOK, StreakInv
<1>b. ASSUME UNCHANGED audit PROVE Streak' = Streak
  BY <1>b DEF Streak, CountedOutcomes, StepOutcomes, TrailingFailures
<1>c. ASSUME NEW e, audit' = Append(audit, e), e.type \notin {"FEEDBACK", "APPROVAL_DECIDED"}
      PROVE  Streak' = Streak
  BY <1>c, EmitStreak DEF IsOutcome
<1>d. ASSUME pc \notin {"feedback", "done"} PROVE c.consecutive_failures = Streak
  BY <1>d DEF StreakInv
<1>e. ASSUME pc' \notin {"feedback", "done"}, c'.consecutive_failures = Streak',
             UNCHANGED result
      PROVE  StreakInv'
  BY <1>e DEF StreakInv
<1>f. ASSUME pc \notin {"feedback", "done"}, pc' \notin {"feedback", "done"},
             UNCHANGED <<c, result>>, Streak' = Streak
      PROVE  StreakInv'
  BY <1>d, <1>e, <1>f
<1>g. ASSUME pc' = "done", UNCHANGED result
      PROVE  StreakInv'
  BY <1>g DEF StreakInv
<1>1. CASE CheckTermination
  BY <1>1, <1>b, <1>f, <1>g DEF CheckTermination, Terminate, unchangedTurn
<1>2. CASE CheckCancel
  BY <1>2, <1>b, <1>f, <1>g DEF CheckCancel, Terminate
<1>3. CASE LlmAttemptFails
  BY <1>3, <1>b, <1>f DEF LlmAttemptFails
<1>4. CASE LlmGivesUp
  BY <1>4, <1>g DEF LlmGivesUp, Terminate, unchangedTurn
<1>5. CASE ReplyUnparsable
  <2>1. Streak' = Streak /\ c.consecutive_failures = Streak
    BY <1>5, <1>c, <1>d DEF ReplyUnparsable, Goto, Emit
  <2>2. c'.consecutive_failures = c.consecutive_failures
    BY <1>5, <1>a, FailureFields DEF ReplyUnparsable
  <2> QED
    BY <1>5, <1>e, <2>1, <2>2 DEF ReplyUnparsable, Goto, unchangedTurn
<1>6. CASE FeedbackUnparsable
  <2>1. audit' = Append(audit, Event("FEEDBACK", c.step, "INVALID_ACTION", "PARSE_ERROR"))
    BY <1>6 DEF FeedbackUnparsable, EmitFeedback
  <2>2. Streak' = Streak
    BY <2>1, EmitStreak DEF IsOutcome
  <2> QED
    BY <1>6, <1>f, <2>2 DEF FeedbackUnparsable, Goto, unchangedTurn
<1>7. ASSUME NEW a \in Actions, ReplyAction(a) PROVE StreakInv'
  <2>1. Streak' = Streak /\ c.consecutive_failures = Streak
    BY <1>7, <1>c, <1>d DEF ReplyAction, Goto, Emit
  <2>2. c'.consecutive_failures = c.consecutive_failures
    BY <1>7, <1>a, FailureFields DEF ReplyAction
  <2> QED
    BY <1>7, <1>e, <2>1, <2>2 DEF ReplyAction, Goto
<1>8. ASSUME NEW a \in Actions, ResolverApproves(a) PROVE StreakInv'
  BY <1>8, <1>b, <1>f DEF ResolverApproves, Goto
<1>9. CASE Dispatch
  <2>1. Streak' = Streak /\ c.consecutive_failures = Streak
    BY <1>9, <1>b, <1>d DEF Dispatch, Goto
  <2>2. result'.category # "NO_PROGRESS"
    BY <1>9, <1>a, RunToolCategory DEF Dispatch
  <2> QED
    BY <1>9, <2>1, <2>2 DEF Dispatch, Goto, StreakInv
<1>10. CASE RecordVerdict
  BY <1>10, <1>c, <1>f DEF RecordVerdict, Emit
<1>11. CASE FeedbackDenied
  <2>1. audit' = Append(audit, Event("FEEDBACK", c.step, "POLICY_DENIED", "POLICY_DENIED"))
    BY <1>11 DEF FeedbackDenied, EmitFeedback
  <2>2. Streak' = Streak + 1
    BY <2>1, EmitStreak DEF IsOutcome
  <2>3. c'.consecutive_failures = c.consecutive_failures + 1
    BY <1>11, <1>a, FailureFields DEF FeedbackDenied
  <2> QED
    BY <1>11, <1>d, <1>e, <2>2, <2>3 DEF FeedbackDenied, Goto, unchangedTurn
<1>12. CASE ResolverRejects
  BY <1>12, <1>b, <1>f DEF ResolverRejects, Goto, unchangedTurn
<1>13. CASE RecordRejected
  <2>1. audit' = Append(audit, Event("APPROVAL_DECIDED", c.step, "REJECTED", "none"))
    BY <1>13 DEF RecordRejected, Emit
  <2>2. Streak' = Streak + 1
    BY <2>1, EmitStreak DEF IsOutcome
  <2>3. c'.consecutive_failures = c.consecutive_failures + 1
    BY <1>13, <1>a, FailureFields DEF RecordRejected
  <2> QED
    BY <1>13, <1>d, <1>e, <2>2, <2>3 DEF RecordRejected, Goto, unchangedTurn
<1>14. CASE ExecuteApproved
  <2>1. Streak' = Streak /\ c.consecutive_failures = Streak
    BY <1>14, <1>b, <1>d DEF ExecuteApproved, Goto
  <2>2. result'.category # "NO_PROGRESS"
    BY <1>14, <1>a, RunToolCategory DEF ExecuteApproved, Denied, Unknown
  <2> QED
    BY <1>14, <2>1, <2>2 DEF ExecuteApproved, Goto, StreakInv
<1>15. CASE RecordSuperseded
  <2>1. audit' = Append(audit, Event("APPROVAL_DECIDED", c.step, "SUPERSEDED", "none"))
    BY <1>15 DEF RecordSuperseded, Emit
  <2>2. Streak' = Streak
    BY <2>1, EmitStreak DEF IsOutcome
  <2> QED
    BY <1>15, <1>f, <2>2 DEF RecordSuperseded, Goto, unchangedTurn
<1>16. CASE RecordApproved
  <2>1. audit' = Append(audit, Event("APPROVAL_DECIDED", c.step, "APPROVED", "none"))
    BY <1>16 DEF RecordApproved, Emit
  <2>2. Streak' = Streak
    BY <2>1, EmitStreak DEF IsOutcome
  <2> QED
    BY <1>16, <1>f, <2>2 DEF RecordApproved, Goto, unchangedTurn
<1>17. CASE RecordExecuted
  BY <1>17, <1>c, <1>f DEF RecordExecuted, Emit, unchangedTurn
<1>18. CASE FinishAccepted
  BY <1>18, <1>g DEF FinishAccepted, Terminate, unchangedTurn
<1>19. CASE FinishRejected
  <2>1. audit' = Append(audit, Event("FEEDBACK", c.step, "FINISH_REJECTED", "FINISH_REJECTED"))
    BY <1>19 DEF FinishRejected, EmitFeedback
  <2>2. Streak' = Streak + 1
    BY <2>1, EmitStreak DEF IsOutcome
  <2>3. c'.consecutive_failures = c.consecutive_failures + 1
    BY <1>19, <1>a, FailureFields DEF FinishRejected
  <2> QED
    BY <1>19, <1>d, <1>e, <2>2, <2>3 DEF FinishRejected, Goto, unchangedTurn
<1>20. CASE ClassifyResult
  <2>1. Streak' = Streak /\ c.consecutive_failures = Streak /\ pc' = "feedback" /\ result' = result
    BY <1>20, <1>b, <1>d DEF ClassifyResult, Goto, unchangedTurn
  <2>2. Classify(result) # "NO_PROGRESS"
    BY <1>a, ClassifyTags
  <2>3. CASE c' = RepeatedStep(c) /\ last_feedback' = "NO_PROGRESS"
    BY <1>a, <2>1, <2>3, FailureFields DEF StreakInv
  <2>4. CASE /\ Classify(result) # "none"
              /\ c' = FailedStep(c) /\ last_feedback' = Classify(result)
    BY <1>a, <2>1, <2>2, <2>4, FailureFields DEF StreakInv
  <2>5. CASE /\ Classify(result) = "none"
              /\ c' = SuccessfulStep(c) /\ last_feedback' = "none"
    BY <1>a, <2>1, <2>5, FailureFields DEF StreakInv
  <2> QED
    BY <1>20, <2>3, <2>4, <2>5 DEF ClassifyResult
<1>21. CASE FeedbackResult
  <2> DEFINE category == IF Classify(result) = "none" THEN "SUCCESS" ELSE Classify(result)
             e == Event("FEEDBACK", c.step, category, last_feedback)
  <2>1. audit' = Append(audit, e) /\ e.type = "FEEDBACK" /\ e.data = category
        /\ e.detail = last_feedback
    BY <1>21 DEF FeedbackResult, EmitFeedback
  <2>2. Classify(result) \notin {"NO_PROGRESS", "PARSE_ERROR", "SUCCESS"}
    BY <1>a, ClassifyTags
  <2>3. category = "SUCCESS" <=> Classify(result) = "none"
    BY <2>2
  <2> HIDE DEF category, e
  <2>4. CASE last_feedback = "NO_PROGRESS" /\ c.consecutive_failures = Streak
    <3>1. Streak' = Streak
      BY <2>1, <2>4, EmitStreak DEF IsOutcome
    <3> QED
      BY <1>21, <1>e, <2>4, <3>1 DEF FeedbackResult, Goto, unchangedTurn
  <2>5. CASE /\ last_feedback = Classify(result) /\ last_feedback \notin {"none", "NO_PROGRESS"}
             /\ c.consecutive_failures = Streak + 1
    <3>1. Streak' = Streak + 1
      BY <2>1, <2>2, <2>3, <2>5, EmitStreak DEF IsOutcome
    <3> QED
      BY <1>21, <1>e, <2>5, <3>1 DEF FeedbackResult, Goto, unchangedTurn
  <2>6. CASE /\ last_feedback = "none" /\ Classify(result) = "none"
             /\ c.consecutive_failures = 0
    <3>1. Streak' = 0
      BY <2>1, <2>3, <2>6, EmitStreak DEF IsOutcome
    <3> QED
      BY <1>21, <1>e, <2>6, <3>1 DEF FeedbackResult, Goto, unchangedTurn
  <2> QED
    BY <1>21, <2>4, <2>5, <2>6 DEF FeedbackResult, Goto, StreakInv
<1>22. CASE TurnRaises
  BY <1>22, <1>g DEF TurnRaises, Terminate, unchangedTurn
<1>23. CASE RunRaises
  BY <1>23, <1>g DEF RunRaises, unchangedTurn
<1>24. CASE ClockExpires
  BY <1>24, <1>b DEF ClockExpires, unchangedTurn, unchangedPrompt, StreakInv
<1>25. CASE UserCancels
  BY <1>25, <1>b DEF UserCancels, unchangedTurn, unchangedPrompt, StreakInv
<1>26. CASE UNCHANGED vars
  BY <1>26, <1>b DEF vars, StreakInv
<1> QED
  BY <1>1, <1>2, <1>3, <1>4, <1>5, <1>6, <1>7, <1>8, <1>9, <1>10, <1>11, <1>12, <1>13, <1>14,
     <1>15, <1>16, <1>17, <1>18, <1>19, <1>20, <1>21, <1>22, <1>23, <1>24, <1>25, <1>26 DEF
     Next, Run, Progress, Done

\* Between turns, consecutive_failures is the trailing run of counted failures in the log.
FailureStreakOfCounted == BetweenTurns => c.consecutive_failures = Streak

\* What the counter is, for every policy and all limits, where it departs from SPEC.md:130
\* (FailureStreakFollowsSpec): the length of the trailing run of denials, rejections, rejected
\* finishes and failed tools in the audit log, repeated actions left aside whether they failed
\* or succeeded.  An unparsable reply or a retry does not disturb it.
THEOREM FailuresMatchTheLog == Spec => []FailureStreakOfCounted
<1>1. Init => StreakInv
  <2> SUFFICES ASSUME Init PROVE StreakInv
    OBVIOUS
  <2>1. CountedOutcomes = {}
    BY DEF Init, CountedOutcomes, StepOutcomes
  <2>2. TrailingFailures(CountedOutcomes) = {}
    BY <2>1 DEF TrailingFailures
  <2>3. Streak = 0
    BY <2>2, FS_EmptySet DEF Streak
  <2>4. /\ pc = "check" /\ c.consecutive_failures = 0
        /\ result.category # "NO_PROGRESS"
    BY DEF Init, Counters
  <2> QED
    BY <2>3, <2>4 DEF StreakInv
<1>2. StreakInv => FailureStreakOfCounted
  BY DEF StreakInv, FailureStreakOfCounted, BetweenTurns
<1> QED
  BY <1>1, <1>2, TypeCorrect, StreakStep, PTL DEF Spec

(***************************************************************************)
(* The summary of the steps                                                *)
(***************************************************************************)
\* The last event of the type at the step carries the data.
Latest(log, step, type, data) ==
    \E i \in 1..Len(log) :
        /\ IsEvent(log[i], type, step, data)
        /\ \A j \in 1..Len(log) : log[j].step = step /\ log[j].type = type => j <= i

RanAt(a, step) == \E k \in 1..Len(ran) : ran[k].action = a /\ ran[k].step = step

Allowed(log, step) ==
    \/ \E d \in Executing : Latest(log, step, "GOVERNANCE_DECISION", d)
    \/ /\ Latest(log, step, "GOVERNANCE_DECISION", "REQUIRE_APPROVAL")
       /\ Latest(log, step, "APPROVAL_DECIDED", "APPROVED")

\* What the summary of a step with a tool's status rests on.
ShowsWhatRan(step) ==
    /\ Allowed(audit, step)
    /\ \E a \in Actions : RanAt(a, step) /\ Latest(audit, step, "ACTION_PROPOSED", a)

\* Here no TOOL_EXECUTED event of the current step has been written yet.
BeforeExecuted(point) == point \notin {"finish", "classify", "done"}

\* A step has at most one TOOL_EXECUTED event, and what its summary shows is settled when
\* that event is written: only FEEDBACK and TERMINATION events follow at the step.
EventsInv ==
    \A i \in 1..Len(audit) :
        /\ audit[i].step <= c.step
        /\ audit[i].type = "TOOL_EXECUTED" =>
              /\ BeforeExecuted(pc) => audit[i].step # c.step
              /\ Latest(audit, audit[i].step, "TOOL_EXECUTED", audit[i].data)
              /\ audit[i].data # "denied" => ShowsWhatRan(audit[i].step)

\* What the log already shows of the turn that is under way.
TurnInv ==
    /\ pc \in {"dispatch", "verdict", "approved", "executed"} =>
          Latest(audit, c.step, "ACTION_PROPOSED", action)
    /\ pc \in {"approval", "resume"} => Latest(audit, c.step, "ACTION_PROPOSED", approved_fp)
    /\ pc \in {"approval", "resume", "approved"} =>
          Latest(audit, c.step, "GOVERNANCE_DECISION", "REQUIRE_APPROVAL")
    /\ pc = "executed" => Allowed(audit, c.step)
    /\ CallUnrecorded => RanAt(action, c.step)

\* The history of calls only grows.
RanKept == \A k \in 1..Len(ran) : k \in 1..Len(ran') /\ ran'[k] = ran[k]

\* An event of another step or of another type does not change which one is the latest.
LEMMA LatestStays ==
    ASSUME TypeOK, NEW e, audit' = Append(audit, e), NEW step, NEW type, NEW data,
           Latest(audit, step, type, data), e.step # step \/ e.type # type
    PROVE  Latest(audit', step, type, data)
<1>1. /\ Len(audit) \in Nat /\ Len(audit') = Len(audit) + 1 /\ audit'[Len(audit) + 1] = e
      /\ \A j \in 1..Len(audit) : audit'[j] = audit[j]
  BY EmitKeeps DEF Kept
<1>2. PICK i \in 1..Len(audit) :
          /\ IsEvent(audit[i], type, step, data)
          /\ \A j \in 1..Len(audit) : audit[j].step = step /\ audit[j].type = type => j <= i
  BY DEF Latest
<1>3. i \in 1..Len(audit') /\ IsEvent(audit'[i], type, step, data)
  BY <1>1, <1>2
<1>4. ASSUME NEW j \in 1..Len(audit'), audit'[j].step = step, audit'[j].type = type
      PROVE  j <= i
  <2>1. j \in 1..Len(audit)
    BY <1>1, <1>4
  <2> QED
    BY <1>1, <1>2, <1>4, <2>1
<1> QED
  BY <1>3, <1>4 DEF Latest

\* The event that is appended is the latest of its type at its step.
LEMMA LatestNow ==
    ASSUME TypeOK, NEW e, audit' = Append(audit, e)
    PROVE  Latest(audit', e.step, e.type, e.data)
<1>1. Len(audit) \in Nat /\ Len(audit') = Len(audit) + 1 /\ audit'[Len(audit')] = e
  BY EmitKeeps DEF Kept
<1>2. Len(audit') \in 1..Len(audit') /\ \A j \in 1..Len(audit') : j <= Len(audit')
  BY <1>1
<1>3. IsEvent(audit'[Len(audit')], e.type, e.step, e.data)
  BY <1>1 DEF IsEvent
<1> QED
  BY <1>2, <1>3 DEF Latest

\* A call stays in the history.
LEMMA RanStays ==
    ASSUME RanKept, NEW a, NEW step, RanAt(a, step)
    PROVE  RanAt(a, step)'
  BY DEF RanKept, RanAt

\* A call of a tool adds the action at the current step.
LEMMA RunToolRan ==
    ASSUME TypeOK, RunTool
    PROVE  /\ RanKept
           /\ \E k \in 1..Len(ran') : ran'[k].action = action /\ ran'[k].step = c.step
<1> DEFINE e == [action |-> action, step |-> c.step, late |-> expired \/ cancelled]
<1>1. ran \in Seq(Executions) /\ ran' = Append(ran, e)
  BY DEF TypeOK, RunTool
<1>2. e.action = action /\ e.step = c.step
  OBVIOUS
<1> HIDE DEF e
<1>3. /\ Len(ran') = Len(ran) + 1 /\ Len(ran) \in Nat
      /\ ran'[Len(ran) + 1] = e
      /\ \A i \in 1..Len(ran) : ran'[i] = ran[i]
  BY <1>1, AppendFacts
<1>4. Len(ran) + 1 \in 1..Len(ran')
  BY <1>3
<1> QED
  BY <1>2, <1>3, <1>4 DEF RanKept

\* Every event has a step index and a type.
LEMMA LogTypes ==
    ASSUME TypeOK
    PROVE  /\ c.step \in Nat
           /\ \A i \in 1..Len(audit) : audit[i].step \in Nat /\ audit[i].type \in EventTypes
<1>1. ASSUME NEW i \in 1..Len(audit) PROVE audit[i] \in Events
  BY <1>1 DEF TypeOK
<1>2. \A x \in Events : x.step \in Nat /\ x.type \in EventTypes
  BY DEF Events
<1> QED
  BY <1>1, <1>2 DEF TypeOK, LoopCounters

\* What a summary rests on outlives the events that follow.
LEMMA ShowsStays ==
    ASSUME TypeOK, RanKept, NEW step, ShowsWhatRan(step),
           \/ UNCHANGED audit
           \/ \E e : /\ audit' = Append(audit, e)
                     /\ \/ e.step # step
                        \/ e.type \in {"TOOL_EXECUTED", "FEEDBACK", "TERMINATION"}
    PROVE  ShowsWhatRan(step)'
<1>1. ASSUME NEW type \in {"ACTION_PROPOSED", "GOVERNANCE_DECISION", "APPROVAL_DECIDED"},
             NEW data, Latest(audit, step, type, data)
      PROVE  Latest(audit', step, type, data)
  <2>1. CASE UNCHANGED audit
    BY <1>1, <2>1
  <2>2. ASSUME NEW e, audit' = Append(audit, e), e.step # step \/ e.type # type
        PROVE  Latest(audit', step, type, data)
    BY <1>1, <2>2, LatestStays
  <2> QED
    BY <2>1, <2>2
<1>2. Allowed(audit', step)
  BY <1>1 DEF ShowsWhatRan, Allowed
<1>3. PICK a \in Actions : RanAt(a, step) /\ Latest(audit, step, "ACTION_PROPOSED", a)
  BY DEF ShowsWhatRan
<1>4. RanAt(a, step)' /\ Latest(audit', step, "ACTION_PROPOSED", a)
  BY <1>1, <1>3, RanStays
<1> QED
  BY <1>2, <1>4 DEF ShowsWhatRan

\* A step that writes no event.
LEMMA EventsQuiet ==
    ASSUME TypeOK, EventsInv, UNCHANGED audit, RanKept, c'.step \in Nat, c.step <= c'.step,
           BeforeExecuted(pc') => BeforeExecuted(pc) \/ c.step < c'.step
    PROVE  EventsInv'
<1>1. c.step \in Nat /\ \A i \in 1..Len(audit) : audit[i].step \in Nat
  BY LogTypes
<1>2. ASSUME NEW i \in 1..Len(audit) PROVE audit[i].step <= c'.step
  BY <1>1, <1>2 DEF EventsInv
<1>3. ASSUME NEW i \in 1..Len(audit), audit[i].type = "TOOL_EXECUTED"
      PROVE  /\ BeforeExecuted(pc') => audit[i].step # c'.step
             /\ Latest(audit, audit[i].step, "TOOL_EXECUTED", audit[i].data)
             /\ audit[i].data # "denied" => ShowsWhatRan(audit[i].step)
  BY <1>1, <1>3 DEF EventsInv
<1>4. ASSUME NEW i \in 1..Len(audit), ShowsWhatRan(audit[i].step)
      PROVE  \A step : step = audit[i].step => ShowsWhatRan(step)'
  BY <1>4, ShowsStays
<1>5. audit' = audit
  OBVIOUS
<1> QED
  BY <1>2, <1>3, <1>4, <1>5 DEF EventsInv

\* A step that writes an event other than TOOL_EXECUTED, and after one only FEEDBACK or
\* TERMINATION.
LEMMA EventsEmit ==
    ASSUME TypeOK, EventsInv, NEW e, audit' = Append(audit, e), e.step = c.step,
           e.type # "TOOL_EXECUTED", UNCHANGED ran, c'.step \in Nat, c.step <= c'.step,
           BeforeExecuted(pc') => BeforeExecuted(pc) \/ c.step < c'.step,
           BeforeExecuted(pc) \/ e.type \in {"FEEDBACK", "TERMINATION"}
    PROVE  EventsInv'
<1>1. /\ Len(audit) \in Nat /\ Len(audit') = Len(audit) + 1 /\ audit'[Len(audit) + 1] = e
      /\ \A i \in 1..Len(audit) : audit'[i] = audit[i]
  BY EmitKeeps DEF Kept
<1>2. c.step \in Nat /\ \A i \in 1..Len(audit) : audit[i].step \in Nat
  BY LogTypes
<1>3. ASSUME NEW i \in 1..Len(audit') PROVE audit'[i].step <= c'.step
  BY <1>1, <1>2, <1>3 DEF EventsInv
<1>4. ASSUME NEW i \in 1..Len(audit'), audit'[i].type = "TOOL_EXECUTED"
      PROVE  i \in 1..Len(audit) /\ audit'[i] = audit[i] /\ audit[i].type = "TOOL_EXECUTED"
  BY <1>1, <1>4
<1>5. ASSUME NEW i \in 1..Len(audit), audit[i].type = "TOOL_EXECUTED"
      PROVE  /\ BeforeExecuted(pc') => audit[i].step # c'.step
             /\ Latest(audit', audit[i].step, "TOOL_EXECUTED", audit[i].data)
             /\ audit[i].data # "denied" =>
                   \A step : step = audit[i].step => ShowsWhatRan(step)'
  <2>1. /\ BeforeExecuted(pc) => audit[i].step # c.step
        /\ Latest(audit, audit[i].step, "TOOL_EXECUTED", audit[i].data)
        /\ audit[i].data # "denied" => ShowsWhatRan(audit[i].step)
        /\ audit[i].step <= c.step
    BY <1>5 DEF EventsInv
  <2>2. BeforeExecuted(pc') => audit[i].step # c'.step
    BY <1>2, <2>1
  <2>3. Latest(audit', audit[i].step, "TOOL_EXECUTED", audit[i].data)
    BY <2>1, LatestStays
  <2>4. ASSUME NEW step, step = audit[i].step, audit[i].data # "denied"
        PROVE  ShowsWhatRan(step)'
    <3>1. RanKept
      BY DEF RanKept
    <3>2. e.step # step \/ e.type \in {"FEEDBACK", "TERMINATION"}
      BY <2>1, <2>4
    <3> QED
      BY <2>1, <2>4, <3>1, <3>2, ShowsStays
  <2> QED
    BY <2>2, <2>3, <2>4
<1> QED
  BY <1>3, <1>4, <1>5 DEF EventsInv

\* Writing the TOOL_EXECUTED event of a step that has none and may show it.
LEMMA EventsExecuted ==
    ASSUME TypeOK, EventsInv, NEW e, audit' = Append(audit, e), e.step = c.step,
           e.type = "TOOL_EXECUTED", UNCHANGED <<ran, c>>, BeforeExecuted(pc),
           ~BeforeExecuted(pc'), e.data # "denied" => ShowsWhatRan(c.step)
    PROVE  EventsInv'
<1>1. /\ Len(audit) \in Nat /\ Len(audit') = Len(audit) + 1 /\ audit'[Len(audit) + 1] = e
      /\ \A i \in 1..Len(audit) : audit'[i] = audit[i]
  BY EmitKeeps DEF Kept
<1>2. c.step \in Nat /\ \A i \in 1..Len(audit) : audit[i].step \in Nat
  BY LogTypes
<1>3. RanKept
  BY DEF RanKept
<1>4. ASSUME NEW i \in 1..Len(audit') PROVE audit'[i].step <= c'.step
  BY <1>1, <1>2, <1>4 DEF EventsInv
<1>5. ASSUME NEW i \in 1..Len(audit'), audit'[i].type = "TOOL_EXECUTED"
      PROVE  /\ Latest(audit', audit'[i].step, "TOOL_EXECUTED", audit'[i].data)
             /\ audit'[i].data # "denied" =>
                   \A step : step = audit'[i].step => ShowsWhatRan(step)'
  <2>1. CASE i \in 1..Len(audit)
    <3>1. /\ audit'[i] = audit[i] /\ audit[i].step # c.step
          /\ Latest(audit, audit[i].step, "TOOL_EXECUTED", audit[i].data)
          /\ audit[i].data # "denied" => ShowsWhatRan(audit[i].step)
      BY <1>1, <1>5, <2>1 DEF EventsInv
    <3>2. Latest(audit', audit[i].step, "TOOL_EXECUTED", audit[i].data)
      BY <3>1, LatestStays
    <3>3. ASSUME NEW step, step = audit[i].step, audit[i].data # "denied"
          PROVE  ShowsWhatRan(step)'
      BY <1>3, <3>1, <3>3, ShowsStays
    <3> QED
      BY <3>1, <3>2, <3>3
  <2>2. CASE i = Len(audit) + 1
    <3>1. audit'[i] = e
      BY <1>1, <2>2
    <3>2. Latest(audit', e.step, "TOOL_EXECUTED", e.data)
      BY LatestNow
    <3>3. ASSUME NEW step, step = c.step, e.data # "denied"
          PROVE  ShowsWhatRan(step)'
      BY <1>3, <3>3, ShowsStays
    <3> QED
      BY <3>1, <3>2, <3>3
  <2> QED
    BY <1>1, <1>5, <2>1, <2>2
<1> QED
  BY <1>4, <1>5 DEF EventsInv

\* Every step keeps the events in order and their summaries settled.
LEMMA EventsStep == TypeOK /\ AuditedInv /\ EventsInv /\ TurnInv /\ [Next]_vars => EventsInv'
<1> SUFFICES ASSUME TypeOK, AuditedInv, EventsInv, TurnInv, [Next]_vars
             PROVE  EventsInv'
  OBVIOUS
<1>a. c \in LoopCounters /\ c.step \in Nat /\ c.step <= c.step
  BY CounterFields DEF TypeOK
<1>b. ASSUME UNCHANGED ran PROVE RanKept
  BY <1>b DEF RanKept
<1>c. ASSUME UNCHANGED <<audit, ran>>, c'.step = c.step,
             BeforeExecuted(pc') => BeforeExecuted(pc)
      PROVE  EventsInv'
  BY <1>a, <1>b, <1>c, EventsQuiet
<1>d. ASSUME NEW e, audit' = Append(audit, e), e.step = c.step, e.type # "TOOL_EXECUTED",
             UNCHANGED ran, c'.step = c.step,
             BeforeExecuted(pc') => BeforeExecuted(pc),
             BeforeExecuted(pc) \/ e.type \in {"FEEDBACK", "TERMINATION"}
      PROVE  EventsInv'
  BY <1>a, <1>d, EventsEmit
<1>e. ASSUME NEW e, audit' = Append(audit, e), e.step = c.step, e.type # "TOOL_EXECUTED",
             UNCHANGED ran, c'.step = c.step + 1,
             BeforeExecuted(pc) \/ e.type \in {"FEEDBACK", "TERMINATION"}
      PROVE  EventsInv'
  BY <1>a, <1>e, EventsEmit
<1> USE DEF BeforeExecuted
<1>1. CASE CheckTermination
  BY <1>1, <1>c, <1>d DEF CheckTermination, Terminate, Emit
<1>2. CASE CheckCancel
  BY <1>2, <1>c, <1>d DEF CheckCancel, Terminate, Emit
<1>3. CASE LlmAttemptFails
  BY <1>3, <1>c DEF LlmAttemptFails
<1>4. CASE LlmGivesUp
  BY <1>4, <1>d DEF LlmGivesUp, Terminate, Emit
<1>5. CASE ReplyUnparsable
  BY <1>5, <1>a, <1>d, CounterFields DEF ReplyUnparsable, Goto, Emit
<1>6. CASE FeedbackUnparsable
  BY <1>6, <1>d DEF FeedbackUnparsable, Goto, EmitFeedback
<1>7. ASSUME NEW a \in Actions, ReplyAction(a) PROVE EventsInv'
  BY <1>7, <1>a, <1>d, CounterFields DEF ReplyAction, Goto, Emit
<1>8. ASSUME NEW a \in Actions, ResolverApproves(a) PROVE EventsInv'
  BY <1>8, <1>c DEF ResolverApproves, Goto
<1>9. CASE Dispatch
  <2>1. RanKept
    BY <1>9, <1>b, RunToolRan DEF Dispatch
  <2> QED
    BY <1>9, <1>a, <2>1, EventsQuiet DEF Dispatch, Goto
<1>10. CASE RecordVerdict
  BY <1>10, <1>d DEF RecordVerdict, Emit
<1>11. CASE FeedbackDenied
  BY <1>11, <1>a, <1>e, CounterFields DEF FeedbackDenied, Goto, EmitFeedback
<1>12. CASE ResolverRejects
  BY <1>12, <1>c DEF ResolverRejects, Goto
<1>13. CASE RecordRejected
  BY <1>13, <1>a, <1>e, CounterFields DEF RecordRejected, Goto, Emit
<1>14. CASE ExecuteApproved
  <2>1. RanKept
    BY <1>14, <1>b, RunToolRan DEF ExecuteApproved
  <2> QED
    BY <1>14, <1>a, <2>1, EventsQuiet DEF ExecuteApproved
<1>15. CASE RecordSuperseded
  BY <1>15, <1>d DEF RecordSuperseded, Goto, Emit
<1>16. CASE RecordApproved
  BY <1>16, <1>d DEF RecordApproved, Goto, Emit
<1>17. CASE RecordExecuted
  <2> DEFINE e == Event("TOOL_EXECUTED", c.step, result.status, "none")
  <2>1. audit' = Append(audit, e) /\ e.type = "TOOL_EXECUTED" /\ e.step = c.step
        /\ e.data = result.status
    BY <1>17 DEF RecordExecuted, Emit
  <2>2. e.data # "denied" => ShowsWhatRan(c.step)
    BY <1>17, <2>1 DEF RecordExecuted, TurnInv, CallUnrecorded, ShowsWhatRan, TypeOK
  <2> HIDE DEF e
  <2> QED
    BY <1>17, <2>1, <2>2, EventsExecuted DEF RecordExecuted
<1>18. CASE FinishAccepted
  BY <1>18, <1>d DEF FinishAccepted, Terminate, Emit
<1>19. CASE FinishRejected
  BY <1>19, <1>a, <1>e, CounterFields DEF FinishRejected, Goto, EmitFeedback
<1>20. CASE ClassifyResult
  <2>1. c'.step = c.step + 1
    BY <1>20, <1>a, CounterFields DEF ClassifyResult
  <2> QED
    BY <1>20, <1>a, <1>b, <2>1, EventsQuiet DEF ClassifyResult, Goto
<1>21. CASE FeedbackResult
  BY <1>21, <1>d DEF FeedbackResult, Goto, EmitFeedback
<1>22. CASE TurnRaises
  BY <1>22, <1>d DEF TurnRaises, Terminate, Emit, TurnPoints
<1>23. CASE RunRaises
  BY <1>23, <1>c DEF RunRaises, TurnPoints
<1>24. CASE ClockExpires
  BY <1>24, <1>c DEF ClockExpires
<1>25. CASE UserCancels
  BY <1>25, <1>c DEF UserCancels
<1>26. CASE UNCHANGED vars
  BY <1>26, <1>c DEF vars
<1> QED
  BY <1>1, <1>2, <1>3, <1>4, <1>5, <1>6, <1>7, <1>8, <1>9, <1>10, <1>11, <1>12, <1>13, <1>14,
     <1>15, <1>16, <1>17, <1>18, <1>19, <1>20, <1>21, <1>22, <1>23, <1>24, <1>25, <1>26 DEF
     Next, Run, Progress, Done

\* Every step keeps what the log shows of the turn under way.
LEMMA TurnStep == TypeOK /\ BindingInv /\ TurnInv /\ [Next]_vars => TurnInv'
<1> SUFFICES ASSUME TypeOK, BindingInv, TurnInv, [Next]_vars
             PROVE  TurnInv'
  OBVIOUS
<1>a. c \in LoopCounters /\ c.step \in Nat
  BY CounterFields DEF TypeOK
<1>b. ASSUME NEW e, audit' = Append(audit, e)
      PROVE  /\ Latest(audit', e.step, e.type, e.data)
             /\ \A step, type, data :
                   Latest(audit, step, type, data) /\ e.type # type
                       => Latest(audit', step, type, data)
  BY <1>b, LatestNow, LatestStays
<1>c. ASSUME pc' \in {"check", "cancel", "llm", "invalid", "denied", "rejected", "superseded",
                      "finish", "classify", "feedback", "done"}
      PROVE  TurnInv'
  BY <1>c DEF TurnInv, CallUnrecorded
<1>1. CASE CheckTermination
  BY <1>1, <1>c DEF CheckTermination, Terminate
<1>2. CASE CheckCancel
  BY <1>2, <1>c DEF CheckCancel, Terminate
<1>3. CASE LlmAttemptFails
  <2>1. pc' = "llm"
    BY <1>3 DEF LlmAttemptFails
  <2> QED
    BY <1>c, <2>1
<1>4. CASE LlmGivesUp
  BY <1>4, <1>c DEF LlmGivesUp, Terminate
<1>5. CASE ReplyUnparsable
  BY <1>5, <1>c DEF ReplyUnparsable, Goto
<1>6. CASE FeedbackUnparsable
  BY <1>6, <1>c DEF FeedbackUnparsable, Goto
<1>7. ASSUME NEW a \in Actions, ReplyAction(a) PROVE TurnInv'
  <2> DEFINE e == Event("ACTION_PROPOSED", c.step, a, "none")
  <2>1. audit' = Append(audit, e) /\ e.type = "ACTION_PROPOSED" /\ e.step = c.step /\ e.data = a
    BY <1>7 DEF ReplyAction, Emit
  <2> HIDE DEF e
  <2>2. Latest(audit', c.step, "ACTION_PROPOSED", a)
    BY <1>b, <2>1
  <2>3. c'.step = c.step
    BY <1>7, <1>a, CounterFields DEF ReplyAction
  <2> QED
    BY <1>7, <2>2, <2>3 DEF ReplyAction, Goto, TurnInv, CallUnrecorded
<1>8. ASSUME NEW a \in Actions, ResolverApproves(a) PROVE TurnInv'
  BY <1>8 DEF ResolverApproves, Goto, TurnInv, CallUnrecorded
<1>9. CASE Dispatch
  <2>1. verdict' \in Executing => RanAt(action, c.step)'
    BY <1>9, RunToolRan DEF Dispatch, RanAt
  <2> QED
    BY <1>9, <2>1 DEF Dispatch, Goto, TurnInv, CallUnrecorded, RanAt
<1>10. CASE RecordVerdict
  <2> DEFINE e == Event("GOVERNANCE_DECISION", c.step, verdict, "none")
  <2>1. /\ audit' = Append(audit, e) /\ e.type = "GOVERNANCE_DECISION"
        /\ e.step = c.step /\ e.data = verdict
    BY <1>10 DEF RecordVerdict, Emit
  <2> HIDE DEF e
  <2>2. Latest(audit', c.step, "GOVERNANCE_DECISION", verdict)
    BY <1>b, <2>1
  <2>3. Latest(audit', c.step, "ACTION_PROPOSED", action)
    BY <1>10, <1>b, <2>1 DEF RecordVerdict, TurnInv
  <2>4. CASE pc' = "approval"
    BY <1>10, <2>2, <2>3, <2>4 DEF RecordVerdict, TurnInv, CallUnrecorded
  <2>5. CASE pc' = "executed"
    <3>1. verdict \in Executing
      BY <1>10, <2>5 DEF RecordVerdict
    <3>2. Allowed(audit', c.step)
      BY <2>2, <3>1 DEF Allowed
    <3>3. RanAt(action, c.step)
      BY <1>10, <3>1 DEF RecordVerdict, TurnInv, CallUnrecorded
    <3> QED
      BY <1>10, <2>3, <2>5, <3>2, <3>3 DEF RecordVerdict, TurnInv, RanAt
  <2>6. CASE pc' = "denied"
    BY <1>c, <2>6
  <2> QED
    BY <1>10, <2>4, <2>5, <2>6 DEF RecordVerdict
<1>11. CASE FeedbackDenied
  BY <1>11, <1>c DEF FeedbackDenied, Goto
<1>12. CASE ResolverRejects
  BY <1>12, <1>c DEF ResolverRejects, Goto
<1>13. CASE RecordRejected
  BY <1>13, <1>c DEF RecordRejected, Goto
<1>14. CASE ExecuteApproved
  <2>1. CASE pc' = "approved" /\ StillApproved(action)
    <3>1. result'.status # "denied" /\ action \in Registered => RanAt(action, c.step)'
      BY <1>14, RunToolRan DEF ExecuteApproved, RanAt, Denied
    <3>2. action \in Registered
      BY <1>14, <2>1 DEF ExecuteApproved, BindingInv, Permitted, StillApproved
    <3>3. action = approved_fp
      BY <2>1 DEF StillApproved
    <3> QED
      BY <1>14, <2>1, <3>1, <3>2, <3>3 DEF ExecuteApproved, TurnInv, CallUnrecorded
  <2>2. CASE pc' = "superseded"
    BY <1>c, <2>2
  <2> QED
    BY <1>14, <2>1, <2>2 DEF ExecuteApproved
<1>15. CASE RecordSuperseded
  BY <1>15, <1>c DEF RecordSuperseded, Goto
<1>16. CASE RecordApproved
  <2> DEFINE e == Event("APPROVAL_DECIDED", c.step, "APPROVED", "none")
  <2>1. /\ audit' = Append(audit, e) /\ e.type = "APPROVAL_DECIDED"
        /\ e.step = c.step /\ e.data = "APPROVED"
    BY <1>16 DEF RecordApproved, Emit
  <2> HIDE DEF e
  <2>2. /\ Latest(audit', c.step, "APPROVAL_DECIDED", "APPROVED")
        /\ Latest(audit', c.step, "GOVERNANCE_DECISION", "REQUIRE_APPROVAL")
        /\ Latest(audit', c.step, "ACTION_PROPOSED", action)
    BY <1>16, <1>b, <2>1 DEF RecordApproved, Goto, TurnInv
  <2>3. Allowed(audit', c.step)
    BY <2>2 DEF Allowed
  <2>4. result.status # "denied" => RanAt(action, c.step)
    BY <1>16 DEF RecordApproved, Goto, TurnInv, CallUnrecorded
  <2> QED
    BY <1>16, <2>2, <2>3, <2>4
       DEF RecordApproved, Goto, unchangedTurn, TurnInv, CallUnrecorded, RanAt
<1>17. CASE RecordExecuted
  BY <1>17, <1>c DEF RecordExecuted
<1>18. CASE FinishAccepted
  BY <1>18, <1>c DEF FinishAccepted, Terminate
<1>19. CASE FinishRejected
  BY <1>19, <1>c DEF FinishRejected, Goto
<1>20. CASE ClassifyResult
  BY <1>20, <1>c DEF ClassifyResult, Goto
<1>21. CASE FeedbackResult
  BY <1>21, <1>c DEF FeedbackResult, Goto
<1>22. CASE TurnRaises
  BY <1>22, <1>c DEF TurnRaises, Terminate
<1>23. CASE RunRaises
  BY <1>23, <1>c DEF RunRaises
<1>24. CASE ClockExpires
  BY <1>24 DEF ClockExpires, unchangedTurn, TurnInv, CallUnrecorded, RanAt
<1>25. CASE UserCancels
  BY <1>25 DEF UserCancels, unchangedTurn, TurnInv, CallUnrecorded, RanAt
<1>26. CASE UNCHANGED vars
  BY <1>26 DEF vars, TurnInv, CallUnrecorded, RanAt
<1> QED
  BY <1>1, <1>2, <1>3, <1>4, <1>5, <1>6, <1>7, <1>8, <1>9, <1>10, <1>11, <1>12, <1>13, <1>14,
     <1>15, <1>16, <1>17, <1>18, <1>19, <1>20, <1>21, <1>22, <1>23, <1>24, <1>25, <1>26 DEF
     Next, Run, Progress, Done

\* _normalize_event_type undoes what str() adds to each of the event types.
LEMMA NormalizedStored ==
    ASSUME NEW type \in EventTypes
    PROVE  Normalized(StoredType[type]) = type
<1>1. StoredType[type] \in {StoredType[t] : t \in EventTypes}
  OBVIOUS
<1>2. \A t \in EventTypes : StoredType[t] = StoredType[type] => t = type
  BY DEF StoredType, EventTypes
<1> QED
  BY <1>1, <1>2 DEF Normalized

\* The latest of a set of places is the one the others do not exceed.
LEMMA NewestIs ==
    ASSUME NEW S \in SUBSET Nat, NEW i \in S, \A j \in S : j <= i
    PROVE  NewestOf(S) = i
<1>1. NewestOf(S) \in S /\ \A j \in S : j <= NewestOf(S)
  BY DEF NewestOf
<1>2. NewestOf(S) \in Nat /\ i \in Nat
  BY <1>1
<1>3. NewestOf(S) <= i /\ i <= NewestOf(S)
  BY <1>1
<1> QED
  BY <1>2, <1>3

\* The summary of a step reads the latest event of each type.
LEMMA FieldIsLatest ==
    ASSUME TypeOK, NEW step, NEW type \in EventTypes, NEW data, Latest(audit, step, type, data)
    PROVE  Field(audit, LastAt(audit, step, type)) = data
<1> DEFINE S == {i \in 1..Len(audit) : audit[i].step = step
                     /\ Normalized(StoredType[audit[i].type]) = type}
<1>1. S = {i \in 1..Len(audit) : audit[i].step = step /\ audit[i].type = type}
  BY LogTypes, NormalizedStored
<1>2. PICK i \in 1..Len(audit) :
          /\ IsEvent(audit[i], type, step, data)
          /\ \A j \in 1..Len(audit) : audit[j].step = step /\ audit[j].type = type => j <= i
  BY DEF Latest
<1>3. i \in S /\ S \in SUBSET Nat /\ \A j \in S : j <= i
  BY <1>1, <1>2 DEF IsEvent
<1>4. NewestOf(S) = i
  BY <1>3, NewestIs
<1>5. LastAt(audit, step, type) = i
  BY <1>3, <1>4 DEF LastAt
<1>6. i # 0
  BY <1>2
<1> QED
  BY <1>2, <1>5, <1>6 DEF Field, IsEvent

\* The summary of a step without an event of a type says so.
LEMMA FieldIsAbsent ==
    ASSUME TypeOK, NEW step, NEW type \in EventTypes,
           \A i \in 1..Len(audit) : ~(audit[i].step = step /\ audit[i].type = type)
    PROVE  Field(audit, LastAt(audit, step, type)) = "absent"
<1>1. {i \in 1..Len(audit) : audit[i].step = step
           /\ Normalized(StoredType[audit[i].type]) = type} = {}
  BY LogTypes, NormalizedStored
<1> QED
  BY <1>1 DEF LastAt, Field

\* For every policy and all limits: the demo's summary of a step that shows a tool status other
\* than denied shows the ALLOW or the approval that let it run, and the action it shows was
\* called at that step.
THEOREM SummariesAreCoherent == Spec => []SummaryShowsWhatRan
<1>1. Init => AuditedInv /\ BindingInv /\ EventsInv /\ TurnInv
  <2> SUFFICES ASSUME Init PROVE AuditedInv /\ BindingInv /\ EventsInv /\ TurnInv
    OBVIOUS
  <2>1. EventsInv
    BY DEF Init, EventsInv
  <2>2. TurnInv
    BY DEF Init, TurnInv, CallUnrecorded
  <2>3. AuditedInv /\ BindingInv
    BY AuditedInit
  <2> QED
    BY <2>1, <2>2, <2>3
<1>2. TypeOK /\ EventsInv => SummaryShowsWhatRan
  <2> SUFFICES ASSUME TypeOK, EventsInv, NEW entry \in SummarizeSteps(audit),
                      entry.tool_status \notin {"absent", "denied"}
               PROVE  /\ \/ entry.governance_decision \in Executing
                         \/ /\ entry.governance_decision = "REQUIRE_APPROVAL"
                            /\ entry.approval_state = "APPROVED"
                      /\ \E i \in 1..Len(ran) :
                            ran[i].step = entry.step /\ ran[i].action = entry.tool
    BY DEF SummaryShowsWhatRan
  <2>1. PICK s :
          /\ entry.step = s
          /\ entry.tool = Field(audit, LastAt(audit, s, "ACTION_PROPOSED"))
          /\ entry.governance_decision = Field(audit, LastAt(audit, s, "GOVERNANCE_DECISION"))
          /\ entry.approval_state = Field(audit, LastAt(audit, s, "APPROVAL_DECIDED"))
          /\ entry.tool_status = Field(audit, LastAt(audit, s, "TOOL_EXECUTED"))
    BY DEF SummarizeSteps
  <2>2. /\ "ACTION_PROPOSED" \in EventTypes /\ "GOVERNANCE_DECISION" \in EventTypes
        /\ "APPROVAL_DECIDED" \in EventTypes /\ "TOOL_EXECUTED" \in EventTypes
    BY DEF EventTypes
  <2>3. PICK i \in 1..Len(audit) : audit[i].step = s /\ audit[i].type = "TOOL_EXECUTED"
    BY <2>1, <2>2, FieldIsAbsent
  <2>4. /\ Latest(audit, s, "TOOL_EXECUTED", audit[i].data)
        /\ audit[i].data # "denied" => ShowsWhatRan(s)
    BY <2>3 DEF EventsInv
  <2>5. entry.tool_status = audit[i].data
    BY <2>1, <2>2, <2>4, FieldIsLatest
  <2>6. ShowsWhatRan(s)
    BY <2>4, <2>5
  <2>7. \/ entry.governance_decision \in Executing
        \/ /\ entry.governance_decision = "REQUIRE_APPROVAL"
           /\ entry.approval_state = "APPROVED"
    BY <2>1, <2>2, <2>6, FieldIsLatest DEF ShowsWhatRan, Allowed
  <2>8. PICK a \in Actions : RanAt(a, s) /\ Latest(audit, s, "ACTION_PROPOSED", a)
    BY <2>6 DEF ShowsWhatRan
  <2>9. entry.tool = a
    BY <2>1, <2>2, <2>8, FieldIsLatest
  <2> QED
    BY <2>1, <2>7, <2>8, <2>9 DEF RanAt
<1> QED
  BY <1>1, <1>2, TypeCorrect, BindingStep, AuditedStep, EventsStep, TurnStep, PTL DEF Spec

(***************************************************************************)
(* The steps of a run are numbered                                         *)
(***************************************************************************)
\* How far a point of the turn is from the next reply of the model, the failed attempts at
\* a reply left aside.
Rank(point) ==
    IF point = "cancel" THEN 2
    ELSE IF point = "check" THEN 3
    ELSE IF point \in {"invalid", "denied", "rejected", "finish", "feedback"} THEN 4
    ELSE IF point = "classify" THEN 5
    ELSE IF point = "executed" THEN 6
    ELSE IF point \in {"approved", "superseded"} THEN 7
    ELSE IF point = "resume" THEN 8
    ELSE IF point = "approval" THEN 9
    ELSE IF point = "verdict" THEN 10
    ELSE 11

Position ==
    IF pc = "done" THEN 0
    ELSE IF pc = "llm" THEN LlmMaxRetries + 1 - attempts
    ELSE LlmMaxRetries + Rank(pc)

\* The replies that are still paid for, and between two replies the way through the turn.
RepliesLeft == MaxSteps * ActionRetryLimit - replies
Remaining == RepliesLeft * (LlmMaxRetries + 12) + Position

\* Whatever fails, every step of the run thread uses one of its steps up, and nothing the
\* environment does gives it another.
StepsAreUsedUp == [][Remaining' <= Remaining /\ (Run => Remaining' < Remaining)]_vars

\* A point of the turn lies within the turn, and only the end of the run is at 0.
LEMMA PositionBound ==
    ASSUME TypeOK
    PROVE  /\ Position \in Nat /\ Position < LlmMaxRetries + 12
           /\ pc # "done" => Position > 0
<1>1. LlmMaxRetries \in Nat /\ attempts \in 0..LlmMaxRetries /\ Rank(pc) \in 2..11
  BY LimitsAssumption DEF TypeOK, Rank
<1> QED
  BY <1>1 DEF Position

\* Another reply is worth more than the whole turn it begins.
LEMMA TurnsAreShorter ==
    ASSUME NEW left \in Nat, NEW k \in Nat, NEW p \in Nat, NEW q \in Nat, q < k
    PROVE  left * k + q < (left + 1) * k + p
<1>1. left * k \in Nat /\ (left + 1) * k = left * k + k
  BY BudgetArith
<1> QED
  BY <1>1

\* Every step of the run thread uses a step up.
LEMMA RemainingStep ==
    TypeOK /\ TypeOK' /\ RepliesInv /\ RepliesInv' /\ [Next]_vars
        => Remaining' <= Remaining /\ (Run => Remaining' < Remaining)
<1> SUFFICES ASSUME TypeOK, TypeOK', RepliesInv, RepliesInv', [Next]_vars
             PROVE  Remaining' <= Remaining /\ (Run => Remaining' < Remaining)
  OBVIOUS
<1> DEFINE K == LlmMaxRetries + 12
<1>a. /\ K \in Nat /\ LlmMaxRetries \in Nat /\ attempts \in 0..LlmMaxRetries
      /\ attempts' \in 0..LlmMaxRetries
      /\ RepliesLeft \in Nat /\ RepliesLeft' \in Nat
  <2> DEFINE Budget == MaxSteps * ActionRetryLimit
  <2>1. Budget \in Nat
    BY BudgetArith, LimitsAssumption
  <2>2. /\ replies \in Nat /\ replies <= Budget
        /\ replies' \in Nat /\ replies' <= Budget
    BY DEF TypeOK, RepliesInv
  <2>3. RepliesLeft = Budget - replies /\ RepliesLeft' = Budget - replies'
    BY DEF RepliesLeft
  <2>4. attempts \in 0..LlmMaxRetries /\ attempts' \in 0..LlmMaxRetries
    BY DEF TypeOK
  <2> HIDE DEF Budget
  <2>5. \A b, r \in Nat : r <= b => b - r \in Nat
    OBVIOUS
  <2>6. RepliesLeft \in Nat
    BY <2>1, <2>2, <2>3, <2>5, Zenon
  <2>7. RepliesLeft' \in Nat
    BY <2>1, <2>2, <2>3, <2>5, Zenon
  <2> QED
    BY <2>4, <2>6, <2>7, LimitsAssumption
<1>b. /\ Position \in Nat /\ Position' \in Nat /\ Position' < K
      /\ pc # "done" => Position > 0
  <2>1. Position \in Nat /\ (pc # "done" => Position > 0)
    BY PositionBound
  <2>2. (Position \in Nat /\ Position < LlmMaxRetries + 12)'
    BY PositionBound, PTL
  <2> QED
    BY <2>1, <2>2
<1>c. Remaining = RepliesLeft * K + Position /\ Remaining' = RepliesLeft' * K + Position'
  BY DEF Remaining
<1> HIDE DEF K
<1>d. RepliesLeft * K \in Nat
  BY <1>a, BudgetArith
<1>e. ASSUME replies' = replies, Position' < Position
      PROVE  Remaining' < Remaining
  <2>1. RepliesLeft' = RepliesLeft
    BY <1>e DEF RepliesLeft
  <2> QED
    BY <1>b, <1>c, <1>d, <1>e, <2>1
<1>f. ASSUME replies' = replies + 1
      PROVE  Remaining' < Remaining
  <2>1. RepliesLeft = RepliesLeft' + 1
    BY <1>a, <1>f, LimitsAssumption DEF RepliesLeft, TypeOK
  <2>2. RepliesLeft' * K + Position' < (RepliesLeft' + 1) * K + Position
    BY <1>a, <1>b, TurnsAreShorter
  <2> QED
    BY <1>c, <2>1, <2>2
<1>g. ASSUME replies' = replies, pc # "done", pc' = "done"
      PROVE  Remaining' < Remaining
  BY <1>b, <1>e, <1>g DEF Position
<1>h. ASSUME Remaining' < Remaining
      PROVE  Remaining' <= Remaining /\ (Run => Remaining' < Remaining)
  <2>1. RepliesLeft' * K \in Nat
    BY <1>a, BudgetArith
  <2> QED
    BY <1>b, <1>c, <1>d, <1>h, <2>1
<1>i. CASE Run
  <2> USE <1>a
  <2> SUFFICES Remaining' < Remaining
    BY <1>h
  <2>1. CASE CheckTermination
    <3>1. CASE pc' = "done"
      BY <1>g, <2>1, <3>1 DEF CheckTermination
    <3>2. CASE pc' = "cancel"
      BY <1>e, <2>1, <3>2 DEF CheckTermination, Position, Rank
    <3> QED
      BY <2>1, <3>1, <3>2 DEF CheckTermination, Terminate
  <2>2. CASE CheckCancel
    <3>1. CASE pc' = "done"
      BY <1>g, <2>2, <3>1 DEF CheckCancel
    <3>2. CASE pc' = "llm" /\ attempts' = 0
      BY <1>e, <2>2, <3>2 DEF CheckCancel, Position, Rank
    <3> QED
      BY <2>2, <3>1, <3>2 DEF CheckCancel, Terminate
  <2>3. CASE LlmAttemptFails
    <3>1. Position' < Position
      BY <2>3 DEF LlmAttemptFails, Goto, Position, Rank
    <3> QED
      BY <1>e, <2>3, <3>1 DEF LlmAttemptFails
  <2>4. CASE LlmGivesUp
    BY <1>g, <2>4 DEF LlmGivesUp, Terminate
  <2>5. CASE ReplyUnparsable
    BY <1>f, <2>5 DEF ReplyUnparsable
  <2>6. CASE FeedbackUnparsable
    <3>1. Position' < Position
      BY <2>6 DEF FeedbackUnparsable, Goto, Position, Rank
    <3> QED
      BY <1>e, <2>6, <3>1 DEF FeedbackUnparsable
  <2>7. ASSUME NEW a \in Actions, ReplyAction(a) PROVE Remaining' < Remaining
    BY <1>f, <2>7 DEF ReplyAction
  <2>8. ASSUME NEW a \in Actions, ResolverApproves(a) PROVE Remaining' < Remaining
    <3>1. Position' < Position
      BY <2>8 DEF ResolverApproves, Goto, Position, Rank
    <3> QED
      BY <1>e, <2>8, <3>1 DEF ResolverApproves
  <2>9. CASE Dispatch
    <3>1. Position' < Position
      BY <2>9 DEF Dispatch, Goto, Position, Rank
    <3> QED
      BY <1>e, <2>9, <3>1 DEF Dispatch
  <2>10. CASE RecordVerdict
    <3>1. Position' < Position
      BY <2>10 DEF RecordVerdict, Goto, Position, Rank
    <3> QED
      BY <1>e, <2>10, <3>1 DEF RecordVerdict
  <2>11. CASE FeedbackDenied
    <3>1. Position' < Position
      BY <2>11 DEF FeedbackDenied, Goto, Position, Rank
    <3> QED
      BY <1>e, <2>11, <3>1 DEF FeedbackDenied
  <2>12. CASE ResolverRejects
    <3>1. Position' < Position
      BY <2>12 DEF ResolverRejects, Goto, Position, Rank
    <3> QED
      BY <1>e, <2>12, <3>1 DEF ResolverRejects
  <2>13. CASE RecordRejected
    <3>1. Position' < Position
      BY <2>13 DEF RecordRejected, Goto, Position, Rank
    <3> QED
      BY <1>e, <2>13, <3>1 DEF RecordRejected
  <2>14. CASE ExecuteApproved
    <3>1. Position' < Position
      BY <2>14 DEF ExecuteApproved, Goto, Position, Rank
    <3> QED
      BY <1>e, <2>14, <3>1 DEF ExecuteApproved
  <2>15. CASE RecordSuperseded
    <3>1. Position' < Position
      BY <2>15 DEF RecordSuperseded, Goto, Position, Rank
    <3> QED
      BY <1>e, <2>15, <3>1 DEF RecordSuperseded
  <2>16. CASE RecordApproved
    <3>1. Position' < Position
      BY <2>16 DEF RecordApproved, Goto, Position, Rank
    <3> QED
      BY <1>e, <2>16, <3>1 DEF RecordApproved
  <2>17. CASE RecordExecuted
    <3>1. Position' < Position
      BY <2>17 DEF RecordExecuted, Goto, Position, Rank
    <3> QED
      BY <1>e, <2>17, <3>1 DEF RecordExecuted
  <2>18. CASE FinishAccepted
    BY <1>g, <2>18 DEF FinishAccepted, Terminate
  <2>19. CASE FinishRejected
    <3>1. Position' < Position
      BY <2>19 DEF FinishRejected, Goto, Position, Rank
    <3> QED
      BY <1>e, <2>19, <3>1 DEF FinishRejected
  <2>20. CASE ClassifyResult
    <3>1. Position' < Position
      BY <2>20 DEF ClassifyResult, Goto, Position, Rank
    <3> QED
      BY <1>e, <2>20, <3>1 DEF ClassifyResult
  <2>21. CASE FeedbackResult
    <3>1. Position' < Position
      BY <2>21 DEF FeedbackResult, Goto, Position, Rank
    <3> QED
      BY <1>e, <2>21, <3>1 DEF FeedbackResult
  <2>22. CASE TurnRaises
    BY <1>g, <2>22 DEF TurnRaises, TurnPoints, Terminate
  <2>23. CASE RunRaises
    BY <1>g, <2>23 DEF RunRaises, TurnPoints
  <2> QED
    BY <1>i, <2>1, <2>2, <2>3, <2>4, <2>5, <2>6, <2>7, <2>8, <2>9, <2>10, <2>11, <2>12,
       <2>13, <2>14, <2>15, <2>16, <2>17, <2>18, <2>19, <2>20, <2>21, <2>22, <2>23
       DEF Run, Progress
<1>j. CASE ~Run
  <2>1. UNCHANGED <<pc, attempts, replies>>
    BY <1>j DEF Next, ClockExpires, UserCancels, Done, vars, unchangedTurn
  <2>2. RepliesLeft' = RepliesLeft /\ Position' = Position
    BY <2>1 DEF RepliesLeft, Position
  <2> QED
    BY <1>b, <1>c, <1>d, <1>j, <2>2
<1> QED
  BY <1>i, <1>j

\* For every policy and all limits: a run takes at most
\* (max_steps * action_retry_limit + 1) * (llm_max_retries + 12) steps, whatever the model,
\* the tools and the users do; with a thread that keeps running this is why it ends.
THEOREM RunUsesUpItsSteps == Spec => StepsAreUsedUp /\ [](Remaining \in Nat)
<1>1. Init => RepliesInv
  BY RepliesInit
<1>2. TypeOK /\ RepliesInv => Remaining \in Nat
  <2> SUFFICES ASSUME TypeOK, RepliesInv PROVE Remaining \in Nat
    OBVIOUS
  <2>1. MaxSteps * ActionRetryLimit \in Nat
    BY BudgetArith, LimitsAssumption
  <2>2. RepliesLeft \in Nat
    BY <2>1 DEF TypeOK, RepliesInv, RepliesLeft
  <2>3. RepliesLeft * (LlmMaxRetries + 12) \in Nat
    BY <2>2, BudgetArith, LimitsAssumption
  <2> QED
    BY <2>3, PositionBound DEF Remaining
<1> QED
  BY <1>1, <1>2, TypeCorrect, RepliesStep, RemainingStep, PTL DEF Spec, StepsAreUsedUp

(***************************************************************************)
(* The loop implements the governed run                                    *)
(***************************************************************************)
\* What the implementation of GovernedRun needs to know of a turn: the person is asked only
\* about an action the policy sends to them, and is shown the action of the turn.
GovernedInv ==
    /\ pc = "verdict" /\ verdict = "REQUIRE_APPROVAL" => Policy[action] = "REQUIRE_APPROVAL"
    /\ pc = "approval" => action = approved_fp
    /\ pc = "finish" => action = Finish

\* Every step keeps what a turn is known by.
LEMMA GovernedInvStep == TypeOK /\ GovernedInv /\ [Next]_vars => GovernedInv'
<1> SUFFICES ASSUME TypeOK, GovernedInv, [Next]_vars
             PROVE  GovernedInv'
  OBVIOUS
<1> USE DEF GovernedInv
<1>1. CASE Dispatch
  BY <1>1 DEF Dispatch, Goto, Judge
<1>2. CASE RecordVerdict
  BY <1>2 DEF RecordVerdict, Executing
<1>3. CASE RecordExecuted
  BY <1>3 DEF RecordExecuted, unchangedTurn
<1>4. CASE pc' \notin {"verdict", "approval", "finish"}
  BY <1>4
<1>5. CASE UNCHANGED <<pc, verdict, action, approved_fp>>
  BY <1>5
<1>6. Dispatch \/ RecordVerdict \/ RecordExecuted \/ pc' \notin {"verdict", "approval", "finish"}
      \/ UNCHANGED <<pc, verdict, action, approved_fp>>
  <2>1. CASE CheckTermination \/ CheckCancel \/ LlmAttemptFails \/ LlmGivesUp \/ ReplyUnparsable
    BY <2>1 DEF CheckTermination, CheckCancel, LlmAttemptFails, LlmGivesUp, ReplyUnparsable,
       Terminate, Goto
  <2>2. CASE FeedbackUnparsable \/ FeedbackDenied \/ ResolverRejects \/ RecordRejected
             \/ ExecuteApproved \/ RecordSuperseded \/ RecordApproved
    BY <2>2 DEF FeedbackUnparsable, FeedbackDenied, ResolverRejects, RecordRejected,
       ExecuteApproved, RecordSuperseded, RecordApproved, Goto
  <2>3. CASE FinishAccepted \/ FinishRejected \/ ClassifyResult \/ FeedbackResult
             \/ TurnRaises \/ RunRaises
    BY <2>3 DEF FinishAccepted, FinishRejected, ClassifyResult, FeedbackResult, TurnRaises,
       RunRaises, Terminate, Goto
  <2>4. ASSUME NEW a \in Actions, ReplyAction(a) \/ ResolverApproves(a)
        PROVE  pc' \notin {"verdict", "approval", "finish"}
    BY <2>4 DEF ReplyAction, ResolverApproves, Goto
  <2>5. CASE ClockExpires \/ UserCancels \/ UNCHANGED vars
    BY <2>5 DEF ClockExpires, UserCancels, unchangedTurn, vars
  <2> QED
    BY <2>1, <2>2, <2>3, <2>4, <2>5 DEF Next, Run, Progress, Done
<1> QED
  BY <1>1, <1>2, <1>3, <1>4, <1>5, <1>6

\* The refinement mapping, one program point at a time.
PhaseTable ==
    /\ pc \in {"check", "cancel", "invalid", "feedback"} => runPhase = "idle" /\ runProposal = {}
    /\ pc = "llm" => runPhase = "asked" /\ runProposal = {}
    /\ pc = "dispatch" => runPhase = "proposed" /\ runProposal = {action}
    /\ pc = "verdict" /\ verdict \in Executing => runPhase = "settled" /\ runProposal = {action}
    /\ pc = "verdict" /\ verdict \notin Executing
          => runPhase = "proposed" /\ runProposal = {action}
    /\ pc = "approval" => runPhase = "waiting" /\ runProposal = {action}
    /\ pc = "resume" /\ action = approved_fp => runPhase = "approved" /\ runProposal = {action}
    /\ pc = "resume" /\ action # approved_fp => runPhase = "refused" /\ runProposal = {}
    /\ pc \in {"denied", "rejected", "superseded"} => runPhase = "refused" /\ runProposal = {}
    /\ pc \in {"approved", "executed", "finish", "classify"}
          => runPhase = "settled" /\ runProposal = {action}
    /\ pc = "done" => runPhase = "over" /\ runProposal = {}

\* The table reads the mapping off, in every state.
LEMMA PhasesHold == PhaseTable
<1>1. CASE pc \in {"check", "cancel", "invalid", "feedback", "llm", "dispatch"}
  BY <1>1 DEF PhaseTable, runPhase, runProposal
<1>2. CASE pc \in {"verdict", "approval", "resume"}
  BY <1>2 DEF PhaseTable, runPhase, runProposal
<1>3. CASE pc \in {"denied", "rejected", "superseded", "approved", "executed"}
  BY <1>3 DEF PhaseTable, runPhase, runProposal
<1>4. CASE pc \in {"finish", "classify", "done"}
  BY <1>4 DEF PhaseTable, runPhase, runProposal
<1>5. CASE pc \notin {"check", "cancel", "invalid", "feedback", "llm", "dispatch", "verdict",
                      "approval", "resume", "denied", "rejected", "superseded", "approved",
                      "executed", "finish", "classify", "done"}
  BY <1>5 DEF PhaseTable
<1> QED
  BY <1>1, <1>2, <1>3, <1>4, <1>5

\* The same in the next state.
LEMMA NextPhasesHold == PhaseTable'
  BY PhasesHold, PTL

\* Steps that call no tool leave the calls alone.
LEMMA NoCall ==
    ASSUME UNCHANGED ran
    PROVE  UNCHANGED runCalls
  BY DEF runCalls

\* A function on 1..n is a sequence of length n.
LEMMA FunctionIsSeq ==
    ASSUME NEW S, NEW n \in Nat, NEW f \in [1..n -> S]
    PROVE  f \in Seq(S) /\ Len(f) = n
  OBVIOUS

\* Sequences of one length with the same members are equal.
LEMMA SameMembers ==
    ASSUME NEW S, NEW s \in Seq(S), NEW t \in Seq(S), Len(s) = Len(t),
           \A i \in 1..Len(s) : s[i] = t[i]
    PROVE  s = t
  OBVIOUS

CallOf(e) == [action |-> e.action, late |-> e.late]
CallRecords == [action : Actions, late : BOOLEAN]

\* What the mapping makes of a history of calls.
LEMMA CallsOf ==
    ASSUME NEW h \in Seq(Executions)
    PROVE  /\ [i \in 1..Len(h) |-> CallOf(h[i])] \in Seq(CallRecords)
           /\ Len([i \in 1..Len(h) |-> CallOf(h[i])]) = Len(h)
<1>1. Len(h) \in Nat /\ \A i \in 1..Len(h) : h[i] \in Executions
  OBVIOUS
<1>2. \A i \in 1..Len(h) : CallOf(h[i]) \in CallRecords
  BY <1>1 DEF CallOf, CallRecords, Executions
<1>3. [i \in 1..Len(h) |-> CallOf(h[i])] \in [1..Len(h) -> CallRecords]
  BY <1>2
<1> QED
  BY <1>1, <1>3, FunctionIsSeq

\* A call of a tool is one more call of the run, late if a stop had been asked for.
LEMMA OneCall ==
    ASSUME TypeOK, RunTool
    PROVE  runCalls' = Append(runCalls, [action |-> action, late |-> expired \/ cancelled])
<1> DEFINE e == [action |-> action, step |-> c.step, late |-> expired \/ cancelled]
           f == [action |-> action, late |-> expired \/ cancelled]
           before == [i \in 1..Len(ran) |-> CallOf(ran[i])]
           after == [i \in 1..Len(ran') |-> CallOf(ran'[i])]
<1>1. ran \in Seq(Executions) /\ ran' = Append(ran, e) /\ e \in Executions
  BY DEF TypeOK, RunTool, Executions, LoopCounters
<1>2. CallOf(e) = f /\ f \in CallRecords
  BY DEF CallOf, CallRecords, TypeOK
<1>3. runCalls = before /\ runCalls' = after
  BY DEF runCalls, CallOf
<1> HIDE DEF e, f
<1>4. /\ Len(ran) \in Nat /\ Len(ran') = Len(ran) + 1 /\ ran'[Len(ran) + 1] = e
      /\ \A i \in 1..Len(ran) : ran'[i] = ran[i]
      /\ ran' \in Seq(Executions)
  BY <1>1, AppendFacts
<1>5. before \in Seq(CallRecords) /\ Len(before) = Len(ran)
  BY <1>1, CallsOf
<1>6. after \in Seq(CallRecords) /\ Len(after) = Len(ran) + 1
  BY <1>4, CallsOf
<1>7. /\ Append(before, f) \in Seq(CallRecords) /\ Len(Append(before, f)) = Len(ran) + 1
      /\ Append(before, f)[Len(ran) + 1] = f
      /\ \A i \in 1..Len(ran) : Append(before, f)[i] = before[i]
  <2> HIDE DEF before
  <2> QED
    BY <1>2, <1>5
<1>8. ASSUME NEW i \in 1..(Len(ran) + 1)
      PROVE  after[i] = Append(before, f)[i]
  <2>1. after[i] = CallOf(ran'[i])
    BY <1>4
  <2>2. CASE i = Len(ran) + 1
    BY <1>2, <1>4, <1>7, <2>1, <2>2
  <2>3. CASE i # Len(ran) + 1
    <3>1. i \in 1..Len(ran)
      BY <1>4, <2>3
    <3>2. before[i] = CallOf(ran[i])
      BY <3>1
    <3> QED
      BY <1>4, <1>7, <2>1, <3>1, <3>2
  <2> QED
    BY <2>2, <2>3
<1>9. after = Append(before, f)
  <2> HIDE DEF after, before
  <2> QED
    BY <1>6, <1>7, <1>8, SameMembers
<1> QED
  BY <1>3, <1>9 DEF f

\* Before a late call is made, no call of the run is late.
LEMMA NoLateCall ==
    ASSUME TypeOK, ~SomeLate
    PROVE  \A i \in 1..Len(runCalls) : ~runCalls[i].late
<1>1. runCalls = [i \in 1..Len(ran) |-> CallOf(ran[i])] /\ Len(runCalls) = Len(ran)
  BY CallsOf DEF runCalls, CallOf, TypeOK
<1> QED
  BY <1>1 DEF SomeLate, CallOf

\* The run starts as a governed run does.
LEMMA GovernedInit == Init => Governed!RunInit
<1> SUFFICES ASSUME Init PROVE Governed!RunInit
  OBVIOUS
<1>1. runPhase = "idle" /\ runProposal = {}
  BY PhasesHold DEF PhaseTable, Init
<1>2. runCalls = <<>>
  BY DEF Init, runCalls
<1>3. c.step = 0
  BY DEF Init, Counters
<1> QED
  BY <1>1, <1>2, <1>3 DEF Governed!RunInit, Init

\* decide_termination tells the truth: TIMEOUT when the clock has expired and MAX_STEPS when
\* the steps are used up.
LEMMA DecisionIsTrue ==
    ASSUME TypeOK, c.step <= MaxSteps, DecideTermination(c, expired) # "none"
    PROVE  /\ DecideTermination(c, expired) \in Reasons \ {"COMPLETED", "CANCELLED"}
           /\ DecideTermination(c, expired) = "TIMEOUT" => expired
           /\ DecideTermination(c, expired) = "MAX_STEPS" => c.step = MaxSteps
  BY LimitsAssumption DEF TypeOK, DecideTermination, LoopCounters, Reasons

\* Before run() has returned the governed run is not over.
LEMMA NotOver ==
    ASSUME TypeOK, pc # "done"
    PROVE  runPhase # "over"
  BY PhasesHold DEF PhaseTable, TypeOK, TurnPoints

\* A step that ends the run for a reason that is true of it ends the governed run.
LEMMA TerminationEnds ==
    ASSUME NEW r \in Reasons, pc # "done", pc' = "done", reason' = r, Governed!Justified(r),
           TypeOK, UNCHANGED <<c, ran, expired, cancelled>>
    PROVE  Governed!End(r)
<1>1. runPhase # "over"
  BY NotOver
<1>2. runPhase' = "over" /\ runProposal' = {}
  BY NextPhasesHold DEF PhaseTable
<1> QED
  BY <1>1, <1>2, NoCall DEF Governed!End

\* The quiet steps between two phases leave the governed run alone.
LEMMA QuietStep ==
    ASSUME UNCHANGED <<runPhase, runProposal, ran, reason, expired, cancelled>>,
           c'.step = c.step
    PROVE  UNCHANGED Governed!runVars
<1>1. UNCHANGED runCalls
  BY NoCall
<1> QED
  BY <1>1 DEF Governed!runVars

\* The steps at the top of a turn end the run truthfully or ask the model.
LEMMA TopSteps ==
    ASSUME TypeOK, RepliesInv, CheckTermination \/ CheckCancel
    PROVE  \/ \E r \in Reasons : Governed!End(r)
           \/ Governed!Ask
           \/ UNCHANGED Governed!runVars
<1> USE PhasesHold, NextPhasesHold DEF PhaseTable
<1>1. CASE CheckTermination
  <2> DEFINE r == DecideTermination(c, expired)
  <2>1. CASE r # "none" /\ Terminate(r)
    <3>1. c.step <= MaxSteps /\ pc = "check" /\ runPhase = "idle"
      BY <1>1 DEF CheckTermination, RepliesInv
    <3>2. /\ r \in Reasons \ {"COMPLETED", "CANCELLED"} /\ (r = "TIMEOUT" => expired)
          /\ (r = "MAX_STEPS" => c.step = MaxSteps)
      BY <2>1, <3>1, DecisionIsTrue
    <3>3. pc' = "done" /\ reason' = r /\ UNCHANGED <<c, ran, expired, cancelled>>
      BY <1>1, <2>1 DEF CheckTermination, Terminate, unchangedEnv
    <3> HIDE DEF r
    <3>4. Governed!Justified(r)
      BY <3>1, <3>2 DEF Governed!Justified
    <3>5. Governed!End(r)
      BY <3>1, <3>2, <3>3, <3>4, TerminationEnds
    <3> QED
      BY <3>2, <3>5
  <2>2. CASE pc' = "cancel" /\ UNCHANGED <<audit, reason>>
    <3>1. pc = "check" /\ UNCHANGED <<c, ran, reason, expired, cancelled>>
      BY <1>1, <2>2 DEF CheckTermination, unchangedEnv
    <3> QED
      BY <2>2, <3>1, QuietStep
  <2> QED
    BY <1>1, <2>1, <2>2 DEF CheckTermination
<1>2. CASE CheckCancel
  <2>1. pc = "cancel" /\ c.step < MaxSteps /\ UNCHANGED <<c, ran, expired, cancelled>>
    BY <1>2 DEF CheckCancel, unchangedEnv, RepliesInv
  <2>2. CASE cancelled /\ Terminate("CANCELLED")
    <3>1. Governed!Justified("CANCELLED")
      BY <2>1, <2>2 DEF Governed!Justified
    <3>2. pc' = "done" /\ reason' = "CANCELLED" /\ "CANCELLED" \in Reasons
      BY <2>2 DEF Terminate, Reasons
    <3>3. Governed!End("CANCELLED")
      BY <2>1, <3>1, <3>2, TerminationEnds
    <3> QED
      BY <3>2, <3>3
  <2>3. CASE pc' = "llm" /\ UNCHANGED <<audit, reason>>
    <3>1. runPhase = "idle" /\ runPhase' = "asked" /\ UNCHANGED runProposal
      BY <2>1, <2>3
    <3> QED
      BY <2>1, <2>3, <3>1, NoCall DEF Governed!Ask, Governed!Move
  <2> QED
    BY <1>2, <2>2, <2>3 DEF CheckCancel
<1> QED
  BY <1>1, <1>2

\* The model's answer proposes at most one action.
LEMMA ReplySteps ==
    ASSUME TypeOK,
           \/ LlmAttemptFails \/ ReplyUnparsable \/ FeedbackUnparsable
           \/ \E a \in Actions : ReplyAction(a)
    PROVE  \/ Governed!ProposeNothing
           \/ \E a \in Actions : Governed!Propose(a)
           \/ UNCHANGED Governed!runVars
<1> USE PhasesHold, NextPhasesHold DEF PhaseTable
<1>1. CASE LlmAttemptFails
  BY <1>1, QuietStep DEF LlmAttemptFails, unchangedEnv
<1>2. CASE ReplyUnparsable
  <2>1. /\ pc = "llm" /\ pc' = "invalid" /\ c' = UnparsableReply(c)
        /\ UNCHANGED <<ran, reason, expired, cancelled>>
    BY <1>2 DEF ReplyUnparsable, Goto, unchangedEnv
  <2>2. c'.step = c.step
    BY <2>1, CounterFields DEF TypeOK
  <2>3. runPhase = "asked" /\ runPhase' = "idle" /\ UNCHANGED runProposal
    BY <2>1
  <2> QED
    BY <2>1, <2>2, <2>3, NoCall DEF Governed!ProposeNothing, Governed!Move
<1>3. CASE FeedbackUnparsable
  <2>1. /\ pc = "invalid" /\ pc' = "check"
        /\ UNCHANGED <<c, ran, reason, expired, cancelled>>
    BY <1>3 DEF FeedbackUnparsable, Goto, unchangedEnv
  <2> QED
    BY <2>1, QuietStep
<1>4. ASSUME NEW a \in Actions, ReplyAction(a)
      PROVE  Governed!Propose(a)
  <2>1. /\ pc = "llm" /\ pc' = "dispatch" /\ c' = ParsedReply(c) /\ action' = a
        /\ UNCHANGED <<ran, reason, expired, cancelled>>
    BY <1>4 DEF ReplyAction, Goto, unchangedEnv
  <2>2. c'.step = c.step
    BY <2>1, CounterFields DEF TypeOK
  <2>3. runPhase = "asked" /\ runPhase' = "proposed" /\ runProposal' = {a}
    BY <2>1
  <2> QED
    BY <2>1, <2>2, <2>3, NoCall DEF Governed!Propose, Governed!Move
<1> QED
  BY <1>1, <1>2, <1>3, <1>4

\* Governance calls what the policy allows and asks about what it has to.
LEMMA JudgeSteps ==
    ASSUME TypeOK, LateInv, GovernedInv, Dispatch \/ RecordVerdict
    PROVE  \/ \E a \in Actions : Governed!Call(a)
           \/ Governed!Consult \/ Governed!Refuse
           \/ UNCHANGED Governed!runVars
<1> USE PhasesHold, NextPhasesHold DEF PhaseTable
<1>1. CASE Dispatch
  <2>1. /\ pc = "dispatch" /\ pc' = "verdict"
        /\ UNCHANGED <<c, action, reason, expired, cancelled>>
    BY <1>1 DEF Dispatch, Goto, unchangedEnv
  <2>2. CASE verdict' \in Executing /\ RunTool
    <3>1. Policy[action] = verdict'
      BY <1>1, <2>2 DEF Dispatch, Judge, Executing
    <3>2. Governed!Allowed(action)
      BY <2>2, <3>1 DEF Governed!Allowed, Executing
    <3>3. /\ runPhase = "proposed" /\ runPhase' = "settled"
          /\ runProposal = {action} /\ UNCHANGED runProposal
      BY <2>1, <2>2
    <3>4. \A i \in 1..Len(runCalls) : ~runCalls[i].late
      BY <2>1, NoLateCall DEF LateInv
    <3>5. runCalls' = Append(runCalls, [action |-> action, late |-> expired \/ cancelled])
      BY <2>2, OneCall
    <3>6. Governed!Call(action)
      BY <2>1, <3>2, <3>3, <3>4, <3>5 DEF Governed!Call, Governed!Move
    <3> QED
      BY <3>6 DEF TypeOK
  <2>3. CASE verdict' \notin Executing /\ UNCHANGED <<result, ran>>
    BY <2>1, <2>3, QuietStep
  <2> QED
    BY <1>1, <2>2, <2>3 DEF Dispatch
<1>2. CASE RecordVerdict
  <2>1. /\ pc = "verdict"
        /\ UNCHANGED <<c, action, verdict, ran, reason, expired, cancelled>>
    BY <1>2 DEF RecordVerdict, Emit, unchangedEnv
  <2>2. CASE verdict = "REQUIRE_APPROVAL" /\ pc' = "approval"
    <3>1. /\ runPhase = "proposed" /\ runPhase' = "waiting"
          /\ runProposal = {action} /\ UNCHANGED runProposal
      BY <2>1, <2>2 DEF Executing
    <3>2. Policy[action] = "REQUIRE_APPROVAL"
      BY <2>1, <2>2 DEF GovernedInv
    <3> QED
      BY <2>1, <3>1, <3>2, NoCall DEF Governed!Consult, Governed!Move
  <2>3. CASE verdict = "DENY" /\ pc' = "denied"
    <3>1. runPhase = "proposed" /\ runPhase' = "refused" /\ runProposal' = {}
      BY <2>1, <2>3 DEF Executing
    <3> QED
      BY <2>1, <3>1, NoCall DEF Governed!Refuse
  <2>4. CASE verdict \in Executing /\ pc' = "executed"
    BY <2>1, <2>4, QuietStep
  <2> QED
    BY <1>2, <2>2, <2>3, <2>4 DEF RecordVerdict
<1> QED
  BY <1>1, <1>2

\* An approval counts for the action it was given to, and for no other.
LEMMA ApprovalSteps ==
    ASSUME TypeOK, LateInv, GovernedInv,
           \/ ResolverRejects \/ ExecuteApproved \/ RecordSuperseded \/ RecordApproved
           \/ \E a \in Actions : ResolverApproves(a)
    PROVE  \/ \E a \in Actions : Governed!Call(a)
           \/ Governed!Approve \/ Governed!Refuse \/ Governed!Fail
           \/ UNCHANGED Governed!runVars
<1> USE PhasesHold, NextPhasesHold DEF PhaseTable
<1>1. CASE ResolverRejects
  <2>1. /\ pc = "approval" /\ pc' = "rejected"
        /\ UNCHANGED <<c, ran, reason, expired, cancelled>>
    BY <1>1 DEF ResolverRejects, Goto, unchangedEnv
  <2>2. runPhase = "waiting" /\ runPhase' = "refused" /\ runProposal' = {}
    BY <2>1
  <2> QED
    BY <2>1, <2>2, NoCall DEF Governed!Refuse
<1>2. ASSUME NEW a \in Actions, ResolverApproves(a)
      PROVE  Governed!Approve \/ Governed!Refuse
  <2>1. /\ pc = "approval" /\ pc' = "resume" /\ action' = a
        /\ UNCHANGED <<c, approved_fp, ran, reason, expired, cancelled>>
    BY <1>2 DEF ResolverApproves, Goto, unchangedEnv
  <2>2. action = approved_fp /\ runPhase = "waiting" /\ runProposal = {action}
    BY <2>1 DEF GovernedInv
  <2>3. CASE a = approved_fp
    <3>1. runPhase' = "approved" /\ UNCHANGED runProposal
      BY <2>1, <2>2, <2>3
    <3> QED
      BY <2>1, <2>2, <3>1, NoCall DEF Governed!Approve, Governed!Move
  <2>4. CASE a # approved_fp
    <3>1. runPhase' = "refused" /\ runProposal' = {}
      BY <2>1, <2>4
    <3> QED
      BY <2>1, <2>2, <3>1, NoCall DEF Governed!Refuse
  <2> QED
    BY <2>3, <2>4
<1>3. CASE ExecuteApproved
  <2>1. /\ pc = "resume" /\ ~SomeLate
        /\ UNCHANGED <<c, action, reason, expired, cancelled>>
    BY <1>3 DEF ExecuteApproved, unchangedEnv, LateInv
  <2>2. CASE action # approved_fp /\ pc' = "superseded" /\ UNCHANGED ran
    BY <2>1, <2>2, QuietStep
  <2>3. CASE action = approved_fp /\ pc' = "approved"
    <3>1. /\ runPhase = "approved" /\ runPhase' = "settled"
          /\ runProposal = {action} /\ UNCHANGED runProposal
      BY <2>1, <2>3
    <3>2. CASE RunTool
      <4>1. \A i \in 1..Len(runCalls) : ~runCalls[i].late
        BY <2>1, NoLateCall
      <4>2. runCalls' = Append(runCalls, [action |-> action, late |-> expired \/ cancelled])
        BY <3>2, OneCall
      <4>3. Governed!Call(action)
        BY <2>1, <3>1, <4>1, <4>2 DEF Governed!Call, Governed!Move
      <4> QED
        BY <4>3 DEF TypeOK
    <3>3. CASE UNCHANGED ran
      BY <2>1, <3>1, <3>3, NoCall DEF Governed!Fail, Governed!Move
    <3> QED
      BY <1>3, <2>3, <3>2, <3>3 DEF ExecuteApproved, StillApproved
  <2> QED
    BY <1>3, <2>2, <2>3 DEF ExecuteApproved, StillApproved
<1>4. CASE RecordSuperseded
  <2>1. /\ pc = "superseded" /\ pc' = "denied"
        /\ UNCHANGED <<c, ran, reason, expired, cancelled>>
    BY <1>4 DEF RecordSuperseded, Goto, unchangedEnv
  <2> QED
    BY <2>1, QuietStep
<1>5. CASE RecordApproved
  <2>1. /\ pc = "approved" /\ pc' = "executed"
        /\ UNCHANGED <<c, action, ran, reason, expired, cancelled>>
    BY <1>5 DEF RecordApproved, Goto, unchangedEnv, unchangedTurn
  <2> QED
    BY <2>1, QuietStep
<1> QED
  BY <1>1, <1>2, <1>3, <1>4, <1>5

\* A turn is closed once, when the counters are advanced.
LEMMA ClosingSteps ==
    ASSUME TypeOK, GovernedInv,
           \/ FeedbackDenied \/ RecordRejected \/ FinishRejected \/ ClassifyResult
           \/ RecordExecuted \/ FeedbackResult
    PROVE  Governed!CloseTurn \/ UNCHANGED Governed!runVars
<1> USE PhasesHold, NextPhasesHold DEF PhaseTable
<1>1. c.step \in Nat /\ FailedStep(c).step = c.step + 1 /\ RepeatedStep(c).step = c.step + 1
      /\ SuccessfulStep(c).step = c.step + 1
  BY CounterFields DEF TypeOK
<1>2. CASE FeedbackDenied \/ RecordRejected \/ FinishRejected \/ ClassifyResult
  <2>1. /\ pc \in {"denied", "rejected", "finish", "classify"} /\ pc' \in {"check", "feedback"}
        /\ UNCHANGED <<ran, reason, expired, cancelled>>
    BY <1>2 DEF FeedbackDenied, RecordRejected, FinishRejected, ClassifyResult, Goto, unchangedEnv
  <2>2. c' \in {FailedStep(c), RepeatedStep(c), SuccessfulStep(c)}
    BY <1>2 DEF FeedbackDenied, RecordRejected, FinishRejected, ClassifyResult
  <2>3. c'.step = c.step + 1
    BY <1>1, <2>2
  <2>4. runPhase \in {"refused", "settled"} /\ runPhase' = "idle" /\ runProposal' = {}
    BY <2>1
  <2> QED
    BY <2>1, <2>3, <2>4, NoCall DEF Governed!CloseTurn
<1>3. CASE RecordExecuted
  <2>1. /\ pc = "executed" /\ pc' \in {"finish", "classify"}
        /\ UNCHANGED <<c, action, ran, reason, expired, cancelled>>
    BY <1>3 DEF RecordExecuted, unchangedEnv, unchangedTurn
  <2> QED
    BY <2>1, QuietStep
<1>4. CASE FeedbackResult
  <2>1. /\ pc = "feedback" /\ pc' = "check"
        /\ UNCHANGED <<c, ran, reason, expired, cancelled>>
    BY <1>4 DEF FeedbackResult, Goto, unchangedEnv
  <2> QED
    BY <2>1, QuietStep
<1> QED
  BY <1>2, <1>3, <1>4

\* An end in the middle of a turn is a failure, or the completion by the finish action.
LEMMA EndingSteps ==
    ASSUME TypeOK, GovernedInv, LlmGivesUp \/ FinishAccepted \/ TurnRaises \/ RunRaises
    PROVE  \E r \in Reasons : Governed!End(r)
<1> USE PhasesHold, NextPhasesHold DEF PhaseTable
<1>1. PICK r \in {"LLM_ERROR", "COMPLETED", "INTERNAL_ERROR"} :
         /\ pc # "done" /\ pc' = "done" /\ reason' = r
         /\ UNCHANGED <<c, ran, expired, cancelled>>
         /\ r = "COMPLETED" => pc = "finish"
  <2>1. CASE LlmGivesUp
    BY <2>1 DEF LlmGivesUp, Terminate, unchangedEnv
  <2>2. CASE FinishAccepted
    BY <2>2 DEF FinishAccepted, Terminate, unchangedEnv
  <2>3. CASE TurnRaises
    BY <2>3 DEF TurnRaises, Terminate, unchangedEnv, TurnPoints
  <2>4. CASE RunRaises
    BY <2>4 DEF RunRaises, unchangedEnv, TurnPoints
  <2> QED
    BY <2>1, <2>2, <2>3, <2>4
<1>2. r = "COMPLETED" => runPhase = "settled" /\ runProposal = {Finish}
  BY <1>1 DEF GovernedInv
<1>3. Governed!Justified(r)
  BY <1>2 DEF Governed!Justified
<1>4. r \in Reasons
  BY DEF Reasons
<1> QED
  BY <1>1, <1>3, <1>4, TerminationEnds

\* A second reason to stop changes nothing.
LEMMA StoppingSteps ==
    ASSUME TypeOK, ClockExpires \/ UserCancels \/ UNCHANGED vars
    PROVE  Governed!RequestStop \/ UNCHANGED Governed!runVars
<1> USE PhasesHold, NextPhasesHold DEF PhaseTable
<1>1. CASE ClockExpires \/ UserCancels
  <2>1. /\ pc # "done" /\ (expired' \/ cancelled')
        /\ UNCHANGED <<pc, c, action, verdict, approved_fp, ran, reason>>
    BY <1>1 DEF ClockExpires, UserCancels, unchangedTurn
  <2>2. UNCHANGED <<runPhase, runProposal>>
    BY <2>1 DEF runPhase, runProposal
  <2>3. runPhase # "over"
    BY <2>1, NotOver
  <2>4. CASE expired \/ cancelled
    <3>1. (expired' \/ cancelled') = (expired \/ cancelled)
      BY <2>1, <2>4
    <3> QED
      BY <2>1, <2>2, <3>1, NoCall DEF Governed!runVars
  <2>5. CASE ~(expired \/ cancelled)
    <3>1. (expired' \/ cancelled') = TRUE
      BY <2>1
    <3> QED
      BY <2>1, <2>2, <2>3, <2>5, <3>1, NoCall DEF Governed!RequestStop
  <2> QED
    BY <2>4, <2>5
<1>2. CASE UNCHANGED vars
  <2>1. UNCHANGED <<pc, c, action, verdict, approved_fp, ran, reason, expired, cancelled>>
    BY <1>2 DEF vars
  <2>2. UNCHANGED <<runPhase, runProposal>>
    BY <2>1 DEF runPhase, runProposal
  <2> QED
    BY <2>1, <2>2, QuietStep
<1> QED
  BY <1>1, <1>2

\* Every step of the loop is a step of the governed run, or leaves it alone.
LEMMA GovernedStep ==
    ASSUME TypeOK, RepliesInv, LateInv, GovernedInv, [Next]_vars
    PROVE  [Governed!RunNext]_(Governed!runVars)
<1>1. CASE CheckTermination \/ CheckCancel
  BY <1>1, TopSteps DEF Governed!RunNext
<1>2. CASE \/ LlmAttemptFails \/ ReplyUnparsable \/ FeedbackUnparsable
           \/ \E a \in Actions : ReplyAction(a)
  BY <1>2, ReplySteps DEF Governed!RunNext
<1>3. CASE Dispatch \/ RecordVerdict
  BY <1>3, JudgeSteps DEF Governed!RunNext
<1>4. CASE \/ ResolverRejects \/ ExecuteApproved \/ RecordSuperseded \/ RecordApproved
           \/ \E a \in Actions : ResolverApproves(a)
  BY <1>4, ApprovalSteps DEF Governed!RunNext
<1>5. CASE \/ FeedbackDenied \/ RecordRejected \/ FinishRejected \/ ClassifyResult
           \/ RecordExecuted \/ FeedbackResult
  BY <1>5, ClosingSteps DEF Governed!RunNext
<1>6. CASE LlmGivesUp \/ FinishAccepted \/ TurnRaises \/ RunRaises
  BY <1>6, EndingSteps DEF Governed!RunNext
<1>7. CASE ClockExpires \/ UserCancels \/ UNCHANGED vars
  BY <1>7, StoppingSteps DEF Governed!RunNext
<1> QED
  BY <1>1, <1>2, <1>3, <1>4, <1>5, <1>6, <1>7 DEF Next, Run, Progress, Done

\* For every policy, all outcomes of the tools and all limits, the loop implements the
\* governed run: one call per turn at most, of the action that was proposed and that the
\* policy allows or the person approved as it was shown, no second call after a stop, and an
\* end whose reason is true of the run.
THEOREM ImplementsGovernedRun == Spec => RunIsGoverned
<1>1. Init => Governed!RunInit
  BY GovernedInit
<1>2. Init => RepliesInv /\ LateInv /\ GovernedInv
  <2> SUFFICES ASSUME Init PROVE LateInv /\ GovernedInv
    BY RepliesInit
  <2>1. Len(ran) = 0 /\ pc = "check"
    BY DEF Init
  <2> QED
    BY <2>1 DEF LateInv, StopHonoured, SomeLate, GovernedInv
<1>3. TypeOK /\ RepliesInv /\ LateInv /\ GovernedInv /\ [Next]_vars
         => [Governed!RunNext]_(Governed!runVars)
  BY GovernedStep
<1> QED
  BY <1>1, <1>2, <1>3, TypeCorrect, RepliesStep, LateStep, GovernedInvStep, PTL
     DEF Spec, RunIsGoverned, Governed!RunSpec
=============================================================================
