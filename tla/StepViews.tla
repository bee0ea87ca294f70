----------------------------- MODULE StepViews -----------------------------
(***************************************************************************)
(* The views that are derived from the audit log of a run: the rows that   *)
(* ApplicationService._project_steps writes into the steps table, and the  *)
(* per-step summary of the demo service.  Both read the stored event_type, *)
(* which AuditLog.append writes as str(event_type).                        *)
(***************************************************************************)
EXTENDS Harness

\* str() of a member of the str-mixin Enum EventType is the qualified name.
StoredType ==
    [ACTION_PROPOSED |-> "EventType.ACTION_PROPOSED",
     GOVERNANCE_DECISION |-> "EventType.GOVERNANCE_DECISION",
     APPROVAL_DECIDED |-> "EventType.APPROVAL_DECIDED",
     TOOL_EXECUTED |-> "EventType.TOOL_EXECUTED",
     FEEDBACK |-> "EventType.FEEDBACK",
     TERMINATION |-> "EventType.TERMINATION"]

\* A normalisation that forgets one of the types.
Normalized_NoApproval(stored) ==
    IF stored \in {StoredType[t] : t \in EventTypes \ {"APPROVAL_DECIDED"}}
    THEN CHOOSE t \in EventTypes : StoredType[t] = stored
    ELSE stored

\* _normalize_event_type strips the prefix.
Normalized(stored) ==
    IF stored \in {StoredType[t] : t \in EventTypes}
    THEN CHOOSE t \in EventTypes : StoredType[t] = stored
    ELSE stored

NewestOf(S) == CHOOSE i \in S : \A j \in S : j <= i

\* The last event of a step whose normalised type is type; 0 if none.
LastAt(log, step, type) ==
    LET S == {i \in 1..Len(log) : log[i].step = step /\ Normalized(StoredType[log[i].type]) = type}
    IN  IF S = {} THEN 0 ELSE NewestOf(S)

Field(log, i) == IF i = 0 THEN "absent" ELSE log[i].data

(***************************************************************************)
(* The service                                                             *)
(***************************************************************************)
Verbatim(stored) == stored

\* _project_steps: the steps for which one of the three event types is recognised; it
\* compares the stored type with the plain value.
ProjectedSteps(log) ==
    {log[i].step : i \in {j \in 1..Len(log) :
        Verbatim(StoredType[log[j].type]) \in
            {"ACTION_PROPOSED", "GOVERNANCE_DECISION", "FEEDBACK"}}}

StepCount(log) == Cardinality(ProjectedSteps(log))

(***************************************************************************)
(* The demo's summary                                                      *)
(***************************************************************************)
\* _summarize_steps: one entry per step_index, the last event of a type wins.
SummarizeSteps(log) ==
    {[step |-> s,
      tool |-> Field(log, LastAt(log, s, "ACTION_PROPOSED")),
      governance_decision |-> Field(log, LastAt(log, s, "GOVERNANCE_DECISION")),
      approval_state |-> Field(log, LastAt(log, s, "APPROVAL_DECIDED")),
      tool_status |-> Field(log, LastAt(log, s, "TOOL_EXECUTED")),
      feedback_category |-> Field(log, LastAt(log, s, "FEEDBACK"))]
     : s \in {log[i].step : i \in 1..Len(log)}}

(***************************************************************************)
(* Properties                                                              *)
(***************************************************************************)
\* The summary of a step is coherent although unparsable replies, retries and approvals
\* share its step_index: a step that shows a tool's status shows the decision or the
\* approval that let it run, and the action that ran is the one it shows.
SummaryShowsWhatRan ==
    \A entry \in SummarizeSteps(audit) :
        entry.tool_status \notin {"absent", "denied"} =>
            /\ \/ entry.governance_decision \in Executing
               \/ /\ entry.governance_decision = "REQUIRE_APPROVAL"
                  /\ entry.approval_state = "APPROVED"
            /\ \E i \in 1..Len(ran) : ran[i].step = entry.step /\ ran[i].action = entry.tool
=============================================================================
