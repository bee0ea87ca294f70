------------------------------- MODULE WebUI -------------------------------
(***************************************************************************)
(* The task view of the native web page (service/webui/app.js) against the *)
(* REST API: an interval timer and the decision buttons start polls; each  *)
(* poll awaits three requests (events, approvals, task) and works on the   *)
(* page's variables in between, so polls overlap and answers arrive late.  *)
(* The server side is what the endpoints read: the audit_events table with *)
(* its global event_id, the tasks table and the approval rows.             *)
(***************************************************************************)
EXTENDS Naturals, FiniteSets

CONSTANTS
    Polls,        \* the polls that can be in flight at once
    MaxTasks,     \* tasks the user starts on one page
    MaxEvents,    \* audit events of all the tasks
    MaxFailures   \* requests that fail

ASSUME PageAssumption ==
    /\ IsFiniteSet(Polls)
    /\ MaxTasks \in Nat /\ MaxEvents \in Nat /\ MaxFailures \in Nat

Tasks == 1..MaxTasks
EventIds == 1..MaxEvents
NoTask == 0
TERMINAL == {"ended"}   \* one of COMPLETED, FAILED, CANCELLED: the page treats them alike

VARIABLES
    owner,       \* audit_events: the task of each event_id, NoTask while it is unused
    state,       \* tasks: the state column, "absent" before POST /tasks
    pending,     \* the tasks with a PENDING approval row
    taskId,      \* page: the task it shows
    lastEventId, \* page: the watermark
    intervals,   \* page: the live interval timers
    shown,       \* page: the event_ids in the event list (the list may hold one twice)
    panel,       \* page: the approvals panel shows a request
    posting,     \* page: POST /tasks is in flight, and the task it has created
    deciding,    \* page: POST /approvals/{id}/decision is in flight
    poll,        \* page: the polls in flight
    failures,    \* requests that have failed
    submits      \* history: how often the start form was submitted

server == <<owner, state, pending>>
page == <<taskId, lastEventId, intervals, shown, panel>>
vars == <<server, page, posting, deciding, poll, failures, submits>>

Used == {i \in EventIds : owner[i] # NoTask}
Created == {t \in Tasks : state[t] # "absent"}
NewestId(S) == IF S = {} THEN 0 ELSE CHOOSE i \in S : \A j \in S : j <= i

Idle == [at |-> "idle", task |-> NoTask, since |-> 0, served |-> FALSE, events |-> {},
         pending |-> FALSE, state |-> "absent"]
Posting == [at : {"no", "sent", "served"}, task : Tasks \cup {NoTask}]

\* getJSON: the request carries the taskId and, for the events, the watermark of this moment.
Request(at, task, since) == [Idle EXCEPT !.at = at, !.task = task, !.since = since]

\* poll() returns at once without a task, otherwise it asks for the events.
StartPoll(p, task, since) ==
    /\ poll[p] = Idle
    /\ poll' = [poll EXCEPT ![p] = Request("events", task, since)]

Init ==
    /\ owner = [i \in EventIds |-> NoTask]
    /\ state = [t \in Tasks |-> "absent"]
    /\ pending = {}
    /\ taskId = NoTask /\ lastEventId = 0 /\ intervals = 0
    /\ shown = {} /\ panel = FALSE
    /\ posting = [at |-> "no", task |-> NoTask]
    /\ deciding = FALSE
    /\ poll = [p \in Polls |-> Idle]
    /\ failures = 0 /\ submits = 0

(***************************************************************************)
(* The server                                                              *)
(***************************************************************************)
\* The run of a task appends an audit event; event_id counts over all the tasks.
AppendEvent(t) ==
    /\ state[t] = "RUNNING"
    /\ Cardinality(Used) < MaxEvents
    /\ owner' = [owner EXCEPT ![Cardinality(Used) + 1] = t]
    /\ UNCHANGED <<state, pending, page, posting, deciding, poll, failures, submits>>

\* The run asks for an approval, or the approval is settled by a decision or a timeout.
ChangeApproval(t) ==
    /\ state[t] = "RUNNING"
    /\ pending' = IF t \in pending THEN pending \ {t} ELSE pending \cup {t}
    /\ UNCHANGED <<owner, state, page, posting, deciding, poll, failures, submits>>

\* The run writes the terminal state of the task.
EndTask(t) ==
    /\ state[t] = "RUNNING" /\ t \notin pending
    /\ state' = [state EXCEPT ![t] = "ended"]
    /\ UNCHANGED <<owner, pending, page, posting, deciding, poll, failures, submits>>

\* Mutant: the event next to the watermark is left out.
EventsSince_OffByOne(t, since) == {i \in EventIds : owner[i] = t /\ i > since + 1}

\* list_since: the events of the task with an event_id above the watermark.
EventsSince(t, since) == {i \in EventIds : owner[i] = t /\ i > since}

\* A request of a poll reaches the server, which answers from the tables as they are.
Serve(p) ==
    /\ poll[p] # Idle /\ ~poll[p].served
    /\ LET t == poll[p].task IN
       poll' = [poll EXCEPT ![p].served = TRUE,
                            ![p].events = {i \in EventsSince(t, poll[p].since) :
                                              poll[p].at = "events"},
                            ![p].pending = poll[p].at = "approvals" /\ t \in pending,
                            ![p].state = IF poll[p].at = "task" THEN state[t] ELSE "absent"]
    /\ UNCHANGED <<server, page, posting, deciding, failures, submits>>

(***************************************************************************)
(* poll()                                                                  *)
(***************************************************************************)
\* Mutant: the watermark follows the latest answer.
ReceiveEvents_LastWins(p) ==
    /\ poll[p].served /\ poll[p].at = "events"
    /\ shown' = shown \cup poll[p].events
    /\ lastEventId' = IF poll[p].events = {} THEN lastEventId ELSE NewestId(poll[p].events)
    /\ poll' = [poll EXCEPT ![p] = Request("approvals", taskId, 0)]
    /\ UNCHANGED <<server, taskId, intervals, panel, posting, deciding, failures, submits>>

\* The events are rendered and the watermark is raised; the next request names the task the
\* page shows by now.
ReceiveEvents(p) ==
    /\ poll[p].served /\ poll[p].at = "events"
    /\ shown' = shown \cup poll[p].events
    /\ lastEventId' = IF NewestId(poll[p].events) > lastEventId THEN NewestId(poll[p].events)
                      ELSE lastEventId
    /\ poll' = [poll EXCEPT ![p] = Request("approvals", taskId, 0)]
    /\ UNCHANGED <<server, taskId, intervals, panel, posting, deciding, failures, submits>>

\* renderApprovals replaces the panel.
ReceiveApprovals(p) ==
    /\ poll[p].served /\ poll[p].at = "approvals"
    /\ panel' = poll[p].pending
    /\ poll' = [poll EXCEPT ![p] = Request("task", taskId, 0)]
    /\ UNCHANGED <<server, taskId, lastEventId, intervals, shown, posting, deciding,
                   failures, submits>>

\* Mutant: the timer is not stopped.
ReceiveTask_TimerKept(p) ==
    /\ poll[p].served /\ poll[p].at = "task"
    /\ poll' = [poll EXCEPT ![p] = Idle]
    /\ UNCHANGED <<server, page, posting, deciding, failures, submits>>

\* The state is rendered; a terminal one stops the timer.
ReceiveTask(p) ==
    /\ poll[p].served /\ poll[p].at = "task"
    /\ intervals' = IF poll[p].state \in TERMINAL THEN 0 ELSE intervals
    /\ poll' = [poll EXCEPT ![p] = Idle]
    /\ UNCHANGED <<server, taskId, lastEventId, shown, panel, posting, deciding, failures, submits>>

\* A request fails: the poll is given up, a later cycle recovers.
PollFails(p) ==
    /\ poll[p] # Idle
    /\ failures < MaxFailures /\ failures' = failures + 1
    /\ poll' = [poll EXCEPT ![p] = Idle]
    /\ UNCHANGED <<server, page, posting, deciding, submits>>

Tick(p) ==
    /\ intervals > 0 /\ taskId # NoTask
    /\ StartPoll(p, taskId, lastEventId)
    /\ UNCHANGED <<server, page, posting, deciding, failures, submits>>

(***************************************************************************)
(* The start form and the decision buttons                                 *)
(***************************************************************************)
\* The submit handler: the start button is disabled, the lists are cleared, the watermark is
\* reset, and POST /tasks is sent; the old task's timer is still running.
Submit ==
    /\ posting.at = "no"
    /\ Created # Tasks
    /\ posting' = [at |-> "sent", task |-> NoTask]
    /\ shown' = {} /\ panel' = FALSE /\ lastEventId' = 0
    /\ submits' = submits + 1
    /\ UNCHANGED <<server, taskId, intervals, deciding, poll, failures>>

\* POST /tasks: the row is inserted and the run starts.
ServeSubmit ==
    /\ posting.at = "sent"
    /\ LET t == Cardinality(Created) + 1 IN
          /\ state' = [state EXCEPT ![t] = "RUNNING"]
          /\ posting' = [at |-> "served", task |-> t]
    /\ UNCHANGED <<owner, pending, page, deciding, poll, failures, submits>>

\* failed to start, before or after the server has created the task: the start button is
\* enabled again, the page keeps the old task.
SubmitFails ==
    /\ posting.at # "no"
    /\ failures < MaxFailures /\ failures' = failures + 1
    /\ posting' = [at |-> "no", task |-> NoTask]
    /\ UNCHANGED <<server, page, deciding, poll, submits>>

\* The answer: the page shows the new task; startPolling stops the old timer, polls and
\* starts a new one.
ReceiveSubmit(p) ==
    /\ posting.at = "served"
    /\ taskId' = posting.task
    /\ intervals' = 1
    /\ StartPoll(p, posting.task, lastEventId)
    /\ posting' = [at |-> "no", task |-> NoTask]
    /\ UNCHANGED <<server, lastEventId, shown, panel, deciding, failures, submits>>

\* decide(): the decision is posted ...
ClickDecision ==
    /\ panel /\ ~deciding
    /\ deciding' = TRUE
    /\ UNCHANGED <<server, page, posting, poll, failures, submits>>

\* ... and, answered or failed, a poll follows at once.
ReceiveDecision(p) ==
    /\ deciding
    /\ deciding' = FALSE
    /\ taskId # NoTask
    /\ StartPoll(p, taskId, lastEventId)
    /\ UNCHANGED <<server, page, posting, failures, submits>>

PollStep(p) == Serve(p) \/ ReceiveEvents(p) \/ ReceiveApprovals(p) \/ ReceiveTask(p)

User == Submit \/ ClickDecision
Server == \E t \in Tasks : AppendEvent(t) \/ ChangeApproval(t) \/ EndTask(t)
Answers ==
    \/ ServeSubmit \/ SubmitFails
    \/ \E p \in Polls : ReceiveSubmit(p) \/ ReceiveDecision(p) \/ PollFails(p)

Next == \/ User \/ Server \/ Answers
        \/ \E p \in Polls : PollStep(p) \/ Tick(p)

Spec == Init /\ [][Next]_vars

\* Requests are answered and the browser keeps firing the interval timer.
FairSpec ==
    /\ Spec
    /\ \A p \in Polls : WF_vars(PollStep(p))
    /\ WF_vars(\E p \in Polls : Tick(p))

(***************************************************************************)
(* Properties                                                              *)
(***************************************************************************)
\* The tables and the page have their types, at most one interval timer is alive, and one
\* only on a page that shows a task.
TypeOK ==
    /\ owner \in [EventIds -> Tasks \cup {NoTask}]
    /\ state \in [Tasks -> TERMINAL \cup {"absent", "RUNNING"}]
    /\ pending \subseteq Created
    /\ taskId \in Created \cup {NoTask}
    /\ lastEventId \in EventIds \cup {0}
    /\ intervals \in 0..1 /\ (intervals = 1 => taskId # NoTask)
    /\ shown \subseteq Used
    /\ panel \in BOOLEAN /\ deciding \in BOOLEAN
    /\ posting \in Posting
    /\ \A p \in Polls : poll[p] = Idle \/ poll[p].task \in Created
    /\ failures \in 0..MaxFailures /\ submits \in Nat

\* The comment at the variable: the watermark is the highest event_id rendered.  Polls
\* overlap, so an answer that was overtaken by a newer one must not lower it.
WatermarkIsNewestShown == lastEventId = NewestId(shown)

\* On a page whose form was submitted once the event list has no gap: every event of the task
\* up to the watermark is shown, in whatever order the answers of overlapping polls came.
NoGapInEventList ==
    submits <= 1 =>
        \A i \in Used : i <= lastEventId => i \in shown

\* Polling comes to an end: when the task of the page has ended, the timer is stopped, unless
\* the user has turned to another task.
PollingStops ==
    \A t \in Tasks :
        taskId = t /\ state[t] \in TERMINAL ~> (intervals = 0 \/ taskId # t)

(***************************************************************************)
(* What the documents say and the code does not do                         *)
(***************************************************************************)
Quiet == /\ intervals = 0 /\ taskId # NoTask
         /\ posting.at = "no" /\ ~deciding
         /\ \A p \in Polls : poll[p] = Idle

\* The page shows the event stream and the final state (SPEC.md, M13): when it has stopped
\* polling because the task is over, every event of the task is in the list.
QuietPageShowsEveryEvent ==
    Quiet => \A i \in Used : owner[i] = taskId => i \in shown
=============================================================================
