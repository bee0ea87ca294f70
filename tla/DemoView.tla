------------------------------ MODULE DemoView ------------------------------
(***************************************************************************)
(* The demo view of the native web page (service/webui/app.js) against the *)
(* demo endpoints of the REST API.  runDemo posts a run and starts an      *)
(* interval timer; every pollDemo awaits three requests (the run, its      *)
(* approvals, its raw events) and reads the page's demoRunId again before  *)
(* each of them, so the answers of one poll may belong to two runs and the *)
(* polls of an earlier run end while a later one is shown.                 *)
(***************************************************************************)
EXTENDS Naturals, FiniteSets

CONSTANTS
    Polls,        \* the calls of pollDemo that can be in flight at once
    MaxStarts,    \* demo runs the user starts on one page
    Interactive,  \* the runs of a scenario with interactive_approval
    MaxFailures   \* requests that fail

ASSUME DemoPageAssumption ==
    /\ IsFiniteSet(Polls)
    /\ MaxStarts \in Nat /\ MaxFailures \in Nat

Runs == 1..MaxStarts     \* a run is named by the click that started it
NoRun == 0

VARIABLES
    run,          \* server: [state, approval, allPass] of each run
    demoRunId,    \* page: the run it polls
    intervals,    \* page: the live interval timers
    startEnabled, \* page: the Start button and the selector can be used
    boxes,        \* page: the containers of the run details exist
    banner,       \* page: the kind of status shown, "" before the first start
    panel,        \* page: the run whose pending approval is shown
    posting,      \* page: POST /demos/{id}/run of each click
    deciding,     \* page: POST /approvals/{id}/decision is in flight
    poll,         \* page: the polls in flight
    failures      \* requests that have failed

page == <<demoRunId, intervals, startEnabled, boxes, banner, panel>>
vars == <<run, page, posting, deciding, poll, failures>>

\* state "ended" stands for COMPLETED and FAILED, which the page treats alike.
DONE == {"ended", "CANCELLED"}
Absent == [state |-> "absent", approval |-> "none", allPass |-> FALSE]
Answer(state, allPass) == [state |-> state, allPass |-> allPass]
Clicked == {r \in Runs : posting[r] # "no"}
Created == {r \in Runs : run[r].state # "absent"}

Idle == [at |-> "idle", id |-> NoRun, served |-> FALSE,
         got |-> Answer("absent", FALSE), pending |-> FALSE]

\* getJSON: a request names the run the page shows at this moment.
Ask(p, at, id) == [poll[p] EXCEPT !.at = at, !.id = id, !.served = FALSE]

\* pollDemo() asks for the run first.
StartPoll(p, id) ==
    /\ poll[p] = Idle
    /\ poll' = [poll EXCEPT ![p] = Ask(p, "run", id)]

Init ==
    /\ run = [r \in Runs |-> Absent]
    /\ demoRunId = NoRun /\ intervals = 0
    /\ startEnabled = TRUE /\ boxes = FALSE /\ banner = "" /\ panel = NoRun
    /\ posting = [r \in Runs |-> "no"]
    /\ deciding = FALSE
    /\ poll = [p \in Polls |-> Idle]
    /\ failures = 0

(***************************************************************************)
(* The server                                                              *)
(***************************************************************************)
\* The run asks for its one interactive approval ...
AskApproval(r) ==
    /\ run[r].state = "RUNNING" /\ run[r].approval = "none" /\ r \in Interactive
    /\ run' = [run EXCEPT ![r].approval = "PENDING"]
    /\ UNCHANGED <<page, posting, deciding, poll, failures>>

\* ... which a decision or its timeout settles.
SettleApproval(r) ==
    /\ run[r].approval = "PENDING"
    /\ run' = [run EXCEPT ![r].approval = "settled"]
    /\ UNCHANGED <<page, posting, deciding, poll, failures>>

\* The terminal state is written; from here on the acceptance conditions are settled.
EndRun(r) ==
    /\ run[r].state = "RUNNING" /\ run[r].approval # "PENDING"
    /\ \E s \in DONE, pass \in BOOLEAN :
           run' = [run EXCEPT ![r].state = s, ![r].allPass = pass]
    /\ UNCHANGED <<page, posting, deciding, poll, failures>>

\* GET /demos/runs/{run_id}: the conditions are evaluated over the events so far, and all of
\* them may hold for a while of a run that still goes on.
ServeRun(p) ==
    /\ poll[p].at = "run" /\ ~poll[p].served
    /\ LET r == run[poll[p].id] IN
       \E pass \in BOOLEAN :
          /\ r.state \in DONE => pass = r.allPass
          /\ poll' = [poll EXCEPT ![p].served = TRUE, ![p].got = Answer(r.state, pass)]
    /\ UNCHANGED <<run, page, posting, deciding, failures>>

\* GET /tasks/{run_id}/approvals and /events.
ServeRest(p) ==
    /\ poll[p].at \in {"approvals", "raw"} /\ ~poll[p].served
    /\ poll' = [poll EXCEPT ![p].served = TRUE,
                            ![p].pending = IF poll[p].at = "raw" THEN @
                                           ELSE run[poll[p].id].approval = "PENDING"]
    /\ UNCHANGED <<run, page, posting, deciding, failures>>

(***************************************************************************)
(* pollDemo()                                                              *)
(***************************************************************************)
ReceiveRun(p) ==
    /\ poll[p].served /\ poll[p].at = "run"
    /\ poll' = [poll EXCEPT ![p] = Ask(p, "approvals", demoRunId)]
    /\ UNCHANGED <<run, page, posting, deciding, failures>>

\* Mutant: the verdict does not wait for the run to be done.
Acceptance_NotDone(got) ==
    IF got.allPass THEN "ok"
    ELSE IF got.state \notin DONE THEN banner
    ELSE IF got.state = "CANCELLED" THEN "cancel" ELSE "fail"

\* renderAcceptance: the verdict of a run that is done.
Acceptance(got) ==
    IF got.state \notin DONE THEN banner
    ELSE IF got.allPass THEN "ok"
    ELSE IF got.state = "CANCELLED" THEN "cancel" ELSE "fail"

\* Mutant: the answer "done" stops the timer only.
Conclude_StillDisabled(p, shown) ==
    LET done == poll[p].got.state \in DONE IN
    /\ banner' = IF poll[p].pending THEN "wait" ELSE IF ~done THEN "run" ELSE shown
    /\ intervals' = IF done THEN 0 ELSE intervals
    /\ poll' = [poll EXCEPT ![p] = Idle]
    /\ UNCHANGED startEnabled

\* The end of pollDemo: waiting and running are shown over the verdict, and the answer "done"
\* stops the timer and enables the form, whichever run the page has turned to.
Conclude(p, shown) ==
    LET done == poll[p].got.state \in DONE IN
    /\ banner' = IF poll[p].pending THEN "wait" ELSE IF ~done THEN "run" ELSE shown
    /\ intervals' = IF done THEN 0 ELSE intervals
    /\ startEnabled' = (done \/ startEnabled)
    /\ poll' = [poll EXCEPT ![p] = Idle]

\* The timeline, the approvals and the acceptance are rendered, then the raw events are asked for.
ReceiveApprovals(p) ==
    /\ poll[p].served /\ poll[p].at = "approvals"
    /\ boxes
    /\ panel' = IF poll[p].pending THEN poll[p].id ELSE NoRun
    /\ banner' = Acceptance(poll[p].got)
    /\ poll' = [poll EXCEPT ![p] = Ask(p, "raw", demoRunId)]
    /\ UNCHANGED <<run, demoRunId, intervals, startEnabled, boxes, posting, deciding, failures>>

\* Without the containers nothing is rendered, and the poll runs through to its end.
ReceiveApprovalsUnrendered(p) ==
    /\ poll[p].served /\ poll[p].at = "approvals"
    /\ ~boxes
    /\ Conclude(p, banner)
    /\ UNCHANGED <<run, demoRunId, boxes, panel, posting, deciding, failures>>

ReceiveRaw(p) ==
    /\ poll[p].served /\ poll[p].at = "raw"
    /\ Conclude(p, banner)
    /\ UNCHANGED <<run, demoRunId, boxes, panel, posting, deciding, failures>>

\* renderDemoRawEvents catches its own failure: the poll goes on.
RawFails(p) ==
    /\ poll[p].at = "raw"
    /\ failures < MaxFailures /\ failures' = failures + 1
    /\ Conclude(p, banner)
    /\ UNCHANGED <<run, demoRunId, boxes, panel, posting, deciding>>

\* Any other failure ends the poll; a later cycle recovers.
PollFails(p) ==
    /\ poll[p].at \in {"run", "approvals"}
    /\ failures < MaxFailures /\ failures' = failures + 1
    /\ poll' = [poll EXCEPT ![p] = Idle]
    /\ UNCHANGED <<run, page, posting, deciding>>

Tick(p) ==
    /\ intervals > 0
    /\ StartPoll(p, demoRunId)
    /\ UNCHANGED <<run, page, posting, deciding, failures>>

(***************************************************************************)
(* The Start and Re-run buttons, runDemo(), and the decision buttons       *)
(***************************************************************************)
\* The form is disabled, the run details are cleared, and POST /demos/{id}/run is sent; a
\* timer of an earlier run is left alive.
RunDemo(r) ==
    /\ startEnabled /\ r = Cardinality(Clicked) + 1
    /\ startEnabled' = FALSE
    /\ boxes' = FALSE /\ panel' = NoRun /\ banner' = "prep"
    /\ posting' = [posting EXCEPT ![r] = "sent"]
    /\ UNCHANGED <<run, demoRunId, intervals, deciding, poll, failures>>

\* start_run creates the task of the run.
ServeStart(r) ==
    /\ posting[r] = "sent"
    /\ posting' = [posting EXCEPT ![r] = "served"]
    /\ run' = [run EXCEPT ![r].state = "RUNNING"]
    /\ UNCHANGED <<page, deciding, poll, failures>>

\* Mutant: the form stays disabled.
StartFails_StillDisabled(r) ==
    /\ posting[r] \in {"sent", "served"}
    /\ failures < MaxFailures /\ failures' = failures + 1
    /\ posting' = [posting EXCEPT ![r] = "over"]
    /\ banner' = "fail"
    /\ UNCHANGED <<run, demoRunId, intervals, startEnabled, boxes, panel, deciding, poll>>

\* The start failed, before or after the server has created the run.
StartFails(r) ==
    /\ posting[r] \in {"sent", "served"}
    /\ failures < MaxFailures /\ failures' = failures + 1
    /\ posting' = [posting EXCEPT ![r] = "over"]
    /\ banner' = "fail" /\ startEnabled' = TRUE
    /\ UNCHANGED <<run, demoRunId, intervals, boxes, panel, deciding, poll>>

\* The answer: the containers are made; startDemoPolling stops an old timer, polls, and
\* starts a new one.
ReceiveStart(r, p) ==
    /\ posting[r] = "served"
    /\ posting' = [posting EXCEPT ![r] = "over"]
    /\ demoRunId' = r /\ boxes' = TRUE
    /\ intervals' = 1
    /\ StartPoll(p, r)
    /\ UNCHANGED <<run, startEnabled, banner, panel, deciding, failures>>

\* decideDemo(): the decision is posted ...
ClickDecision ==
    /\ panel # NoRun /\ ~deciding
    /\ deciding' = TRUE
    /\ UNCHANGED <<run, page, posting, poll, failures>>

\* ... and, answered or failed, a poll follows at once.
ReceiveDecision(p) ==
    /\ deciding
    /\ deciding' = FALSE
    /\ StartPoll(p, demoRunId)
    /\ UNCHANGED <<run, page, posting, failures>>

PollStep(p) ==
    \/ ServeRun(p) \/ ServeRest(p) \/ ReceiveRun(p)
    \/ ReceiveApprovals(p) \/ ReceiveApprovalsUnrendered(p) \/ ReceiveRaw(p)

StartStep(r) == ServeStart(r) \/ \E p \in Polls : ReceiveStart(r, p)

Next ==
    \/ \E r \in Runs : \/ AskApproval(r) \/ SettleApproval(r) \/ EndRun(r)
                       \/ RunDemo(r) \/ StartStep(r) \/ StartFails(r)
    \/ \E p \in Polls : PollStep(p) \/ Tick(p) \/ RawFails(p) \/ PollFails(p) \/ ReceiveDecision(p)
    \/ ClickDecision

Spec == Init /\ [][Next]_vars

\* Requests are answered, the browser keeps firing the timer, an approval is decided or times
\* out, and a run, whose work is bounded, ends.
FairSpec ==
    /\ Spec
    /\ \A p \in Polls : WF_vars(PollStep(p))
    /\ WF_vars(\E p \in Polls : Tick(p))
    /\ \A r \in Runs : WF_vars(StartStep(r)) /\ WF_vars(SettleApproval(r)) /\ WF_vars(EndRun(r))

(***************************************************************************)
(* Properties                                                              *)
(***************************************************************************)
\* However the answers of old and new runs interleave (a stale "done" stops the new run's
\* timer and enables Start while a POST is in flight), the page never has two timers, and a
\* disabled Start always has somebody who will enable it: a POST in flight or the timer.
DisabledStartIsAttended ==
    /\ intervals <= 1
    /\ ~startEnabled => intervals = 1 \/ \E r \in Runs : posting[r] \in {"sent", "served"}

\* The comment of renderAcceptance, "a failure still can NEVER be laundered into success":
\* conditions that hold for a while of a running run never turn the banner green; some run
\* started on this page has ended with all its conditions passed, and on a page with a
\* single start that is the run the banner speaks of.
GreenNeedsAPassedRun ==
    banner = "ok" => \E r \in Runs : run[r].state \in DONE /\ run[r].allPass

\* Start comes back: whatever polls fail and whichever run's answer arrives, a disabled form
\* is enabled again.
StartComesBack == ~startEnabled ~> startEnabled

(***************************************************************************)
(* What a comment says and the code does not do                            *)
(***************************************************************************)
\* "The banner is green ONLY when every acceptance condition passed" (app.js:477): of the run
\* the page shows.
GreenIsOfTheRunShown ==
    banner = "ok" => run[demoRunId].state \in DONE /\ run[demoRunId].allPass
=============================================================================
