----------------------------- MODULE AppService -----------------------------
(***************************************************************************)
(* ApplicationService in its asynchronous mode: one background thread per  *)
(* task runs the harness, blocks in the approval resolver and writes the   *)
(* task row at the end; API calls run on worker threads and create and     *)
(* cancel tasks and decide approvals.  They share the approval_requests    *)
(* and tasks tables, the dict of Events and the lock that guards it.  An   *)
(* action is what happens between two points where another thread can run. *)
(* The harness itself is the subject of module Harness; here it asks for   *)
(* approvals and ends.                                                     *)
(***************************************************************************)
EXTENDS Naturals, FiniteSets

CONSTANTS
    Tasks, Users,
    MaxApprovals,   \* approvals one run asks for
    MaxDecisions,   \* decide() calls of one user
    MaxCrashes      \* crashes of the process

ASSUME ServiceAssumption ==
    MaxApprovals \in Nat /\ MaxDecisions \in Nat /\ MaxCrashes \in Nat

Approvals == Tasks \X (1..MaxApprovals)
Verdicts == {"APPROVED", "REJECTED"}
Terminal == {"COMPLETED", "FAILED", "CANCELLED"}
Reasons == {"COMPLETED", "CANCELLED", "MAX_STEPS", "INTERNAL_ERROR"}
Nobody == "nobody"

\* The threads of the tasks and the worker threads of the API are different threads.
ASSUME ActorsAssumption ==
    Tasks \cap Users = {} /\ Nobody \notin Tasks \cup Users

VARIABLES
    task,      \* tasks table: the state column, "absent" before create_task
    row,       \* approval_requests table: the state column, "absent" before the insert
    thread,    \* where the background thread of each task is
    asked,     \* the approvals each run has asked for
    reason,    \* the TerminationReason the harness returned
    flags,     \* _cancel_flags: "none" (no entry), "clear" or "set"
    events,    \* the keys of _approval_events
    fired,     \* the approvals whose Event is set
    lock,      \* the holder of _approvals_lock
    caller,    \* the decide() call each user has in progress
    decisions, \* the decide() calls each user has made
    crashes,
    outcome,   \* history: what the resolver returned for each approval
    votes,     \* history: the verdicts decide() has written for each approval
    overdue    \* history: the approvals whose wait timed out

vars == <<task, row, thread, asked, reason, flags, events, fired, lock, caller, decisions,
          crashes, outcome, votes, overdue>>

NoApproval == <<Nobody, 0>>
Idle == [at |-> "idle", id |-> NoApproval, verdict |-> "none"]
Current(t) == <<t, asked[t]>>
LockFree == lock = Nobody

\* _termination_to_state
TerminationToState(r) == IF r \in {"COMPLETED", "CANCELLED"} THEN r ELSE "FAILED"

Goto(t, from, to) == thread[t] = from /\ thread' = [thread EXCEPT ![t] = to]

Init ==
    /\ task = [t \in Tasks |-> "absent"]
    /\ row = [a \in Approvals |-> "absent"]
    /\ thread = [t \in Tasks |-> "none"]
    /\ asked = [t \in Tasks |-> 0]
    /\ reason = [t \in Tasks |-> "none"]
    /\ flags = [t \in Tasks |-> "none"]
    /\ events = {} /\ fired = {}
    /\ lock = Nobody
    /\ caller = [u \in Users |-> Idle]
    /\ decisions = [u \in Users |-> 0]
    /\ crashes = 0
    /\ outcome = [a \in Approvals |-> "none"]
    /\ votes = [a \in Approvals |-> {}]
    /\ overdue = {}

(***************************************************************************)
(* The life of a task                                                      *)
(***************************************************************************)
\* create_task: the row, the cancel flag (set already with pre_cancel), the thread.
CreateTask(t) ==
    /\ task[t] = "absent"
    /\ task' = [task EXCEPT ![t] = "RUNNING"]
    /\ \E f \in {"clear", "set"} : flags' = [flags EXCEPT ![t] = f]
    /\ Goto(t, "none", "start")
    /\ UNCHANGED <<row, asked, reason, events, fired, lock, caller, decisions, crashes,
                   outcome, votes, overdue>>

\* _run_in_thread opens its connection and builds the harness.
StartRun(t) ==
    /\ Goto(t, "start", "run")
    /\ UNCHANGED <<task, row, asked, reason, flags, events, fired, lock, caller, decisions,
                   crashes, outcome, votes, overdue>>

\* open_db, the harness factory or _project_steps raises: the thread ends, the row stays.
ThreadDies(t) ==
    /\ thread[t] \in {"start", "finish"}
    /\ thread' = [thread EXCEPT ![t] = "dead"]
    /\ UNCHANGED <<task, row, asked, reason, flags, events, fired, lock, caller, decisions,
                   crashes, outcome, votes, overdue>>

\* harness.run returns or raises; CANCELLED only if the flag was seen set.
HarnessEnds(t, r) ==
    /\ Goto(t, "run", "finish")
    /\ r = "CANCELLED" => flags[t] = "set"
    /\ reason' = [reason EXCEPT ![t] = r]
    /\ UNCHANGED <<task, row, asked, flags, events, fired, lock, caller, decisions, crashes,
                   outcome, votes, overdue>>

\* The steps are projected and the task row gets its terminal state.
WriteTaskState(t) ==
    /\ Goto(t, "finish", "done")
    /\ task' = [task EXCEPT ![t] = TerminationToState(reason[t])]
    /\ UNCHANGED <<row, asked, reason, flags, events, fired, lock, caller, decisions, crashes,
                   outcome, votes, overdue>>

\* cancel sets the flag of a task this process knows.
Cancel(t) ==
    /\ flags[t] = "clear"
    /\ flags' = [flags EXCEPT ![t] = "set"]
    /\ UNCHANGED <<task, row, thread, asked, reason, events, fired, lock, caller, decisions,
                   crashes, outcome, votes, overdue>>

(***************************************************************************)
(* The asynchronous approval resolver                                      *)
(***************************************************************************)
AskApproval(t) ==
    /\ Goto(t, "run", "register")
    /\ asked[t] < MaxApprovals
    /\ asked' = [asked EXCEPT ![t] = @ + 1]
    /\ UNCHANGED <<task, row, reason, flags, events, fired, lock, caller, decisions, crashes,
                   outcome, votes, overdue>>

\* A resolver that makes the Event and does not put it where decide() looks for it.
RegisterEvent_NotShared(t) ==
    /\ Goto(t, "register", "insert")
    /\ LockFree /\ lock' = t
    /\ UNCHANGED <<task, row, asked, reason, flags, events, fired, caller, decisions, crashes,
                   outcome, votes, overdue>>

\* with _approvals_lock: the Event first ...
RegisterEvent(t) ==
    /\ Goto(t, "register", "insert")
    /\ LockFree /\ lock' = t
    /\ events' = events \cup {Current(t)}
    /\ UNCHANGED <<task, row, asked, reason, flags, fired, caller, decisions, crashes,
                   outcome, votes, overdue>>

\* ... then the PENDING row.
InsertRow(t) ==
    /\ Goto(t, "insert", "wait")
    /\ row' = [row EXCEPT ![Current(t)] = "PENDING"]
    /\ lock' = Nobody
    /\ UNCHANGED <<task, asked, reason, flags, events, fired, caller, decisions, crashes,
                   outcome, votes, overdue>>

\* The insert raises: the lock is released, the Event stays registered and the exception
\* ends the run as INTERNAL_ERROR.
InsertRaises(t) ==
    /\ Goto(t, "insert", "finish")
    /\ reason' = [reason EXCEPT ![t] = "INTERNAL_ERROR"]
    /\ lock' = Nobody
    /\ UNCHANGED <<task, row, asked, flags, events, fired, caller, decisions, crashes,
                   outcome, votes, overdue>>

WaitReturns_Spurious(t) ==
    /\ Goto(t, "wait", "decided")
    /\ UNCHANGED <<task, row, asked, reason, flags, events, fired, lock, caller, decisions,
                   crashes, outcome, votes, overdue>>

WaitReturns(t) ==
    /\ Goto(t, "wait", "decided")
    /\ Current(t) \in fired
    /\ UNCHANGED <<task, row, asked, reason, flags, events, fired, lock, caller, decisions,
                   crashes, outcome, votes, overdue>>

WaitTimesOut(t) ==
    /\ Goto(t, "wait", "timeout")
    /\ Current(t) \notin fired
    /\ overdue' = overdue \cup {Current(t)}
    /\ UNCHANGED <<task, row, asked, reason, flags, events, fired, lock, caller, decisions,
                   crashes, outcome, votes>>

\* The row of an overdue approval is REJECTED, without the lock ...
RejectOverdue(t) ==
    /\ Goto(t, "timeout", "popTimeout")
    /\ row' = [row EXCEPT ![Current(t)] = "REJECTED"]
    /\ UNCHANGED <<task, asked, reason, flags, events, fired, lock, caller, decisions,
                   crashes, outcome, votes, overdue>>

\* ... its Event is forgotten and the resolver returns False.
ReturnOverdue(t) ==
    /\ Goto(t, "popTimeout", "run")
    /\ LockFree
    /\ events' = events \ {Current(t)}
    /\ outcome' = [outcome EXCEPT ![Current(t)] = "REJECTED"]
    /\ UNCHANGED <<task, row, asked, reason, flags, fired, lock, caller, decisions, crashes,
                   votes, overdue>>

ForgetEvent_Keep(t) ==
    /\ Goto(t, "decided", "reread")
    /\ UNCHANGED <<task, row, asked, reason, flags, events, fired, lock, caller, decisions,
                   crashes, outcome, votes, overdue>>

ForgetEvent(t) ==
    /\ Goto(t, "decided", "reread")
    /\ LockFree
    /\ events' = events \ {Current(t)}
    /\ UNCHANGED <<task, row, asked, reason, flags, fired, lock, caller, decisions, crashes,
                   outcome, votes, overdue>>

\* A resolver that takes the wakeup itself for the approval.
ReturnDecided_Woken(t) ==
    /\ Goto(t, "reread", "run")
    /\ outcome' = [outcome EXCEPT ![Current(t)] = "APPROVED"]
    /\ UNCHANGED <<task, row, asked, reason, flags, events, fired, lock, caller, decisions,
                   crashes, votes, overdue>>

\* The row is read again and the resolver returns whether it says APPROVED.
ReturnDecided(t) ==
    /\ Goto(t, "reread", "run")
    /\ outcome' = [outcome EXCEPT ![Current(t)] =
                      IF row[Current(t)] = "APPROVED" THEN "APPROVED" ELSE "REJECTED"]
    /\ UNCHANGED <<task, row, asked, reason, flags, events, fired, lock, caller, decisions,
                   crashes, votes, overdue>>

\* The update of the overdue row, or the read of the decided one, raises: the row stays what
\* it was and the exception ends the run as INTERNAL_ERROR.  After a timeout the Event stays
\* registered too.
ResolverRaises(t) ==
    /\ thread[t] \in {"timeout", "reread"}
    /\ thread' = [thread EXCEPT ![t] = "finish"]
    /\ reason' = [reason EXCEPT ![t] = "INTERNAL_ERROR"]
    /\ UNCHANGED <<task, row, asked, flags, events, fired, lock, caller, decisions, crashes,
                   outcome, votes, overdue>>

(***************************************************************************)
(* decide(), on the worker thread of an API call                           *)
(***************************************************************************)
Call(u, at) == caller' = [caller EXCEPT ![u].at = at]
Return(u) == caller' = [caller EXCEPT ![u] = Idle]

\* A user has seen the row in list_approvals and decides it, however late.
StartDecide(u, a, verdict) ==
    /\ caller[u] = Idle
    /\ decisions[u] < MaxDecisions
    /\ row[a] # "absent"
    /\ caller' = [caller EXCEPT ![u] = [at |-> "update", id |-> a, verdict |-> verdict]]
    /\ decisions' = [decisions EXCEPT ![u] = @ + 1]
    /\ UNCHANGED <<task, row, thread, asked, reason, flags, events, fired, lock, crashes,
                   outcome, votes, overdue>>

\* with _approvals_lock: update_state, whatever the row's state is ...
UpdateRow(u) ==
    /\ caller[u].at = "update"
    /\ LockFree /\ lock' = u
    /\ row' = [row EXCEPT ![caller[u].id] = caller[u].verdict]
    /\ votes' = [votes EXCEPT ![caller[u].id] = @ \cup {caller[u].verdict}]
    /\ Call(u, "lookup")
    /\ UNCHANGED <<task, thread, asked, reason, flags, events, fired, decisions, crashes,
                   outcome, overdue>>

\* (the database is busy for too long: the call fails and nothing has changed)
UpdateRaises(u) ==
    /\ caller[u].at = "update"
    /\ LockFree
    /\ Return(u)
    /\ UNCHANGED <<task, row, thread, asked, reason, flags, events, fired, lock, decisions,
                   crashes, outcome, votes, overdue>>

LookupEvent_LockKept(u) ==
    /\ caller[u].at = "lookup"
    /\ IF caller[u].id \in events THEN Call(u, "set") ELSE Return(u)
    /\ UNCHANGED <<task, row, thread, asked, reason, flags, events, fired, lock, decisions,
                   crashes, outcome, votes, overdue>>

\* ... and the lookup of the Event.
LookupEvent(u) ==
    /\ caller[u].at = "lookup"
    /\ lock' = Nobody
    /\ IF caller[u].id \in events THEN Call(u, "set") ELSE Return(u)
    /\ UNCHANGED <<task, row, thread, asked, reason, flags, events, fired, decisions, crashes,
                   outcome, votes, overdue>>

\* ev.set(), after the lock is released.
SetEvent(u) ==
    /\ caller[u].at = "set"
    /\ fired' = fired \cup {caller[u].id}
    /\ Return(u)
    /\ UNCHANGED <<task, row, thread, asked, reason, flags, events, lock, decisions, crashes,
                   outcome, votes, overdue>>

(***************************************************************************)
(* The process dies and is started again: the daemon threads, the Events,  *)
(* the flags and the lock are gone, the tables stay.  Nothing resumes a    *)
(* task that was running.                                                  *)
(***************************************************************************)
Crash ==
    /\ crashes < MaxCrashes
    /\ crashes' = crashes + 1
    /\ thread' = [t \in Tasks |-> IF thread[t] \in {"none", "done", "dead"} THEN thread[t]
                                  ELSE "lost"]
    /\ flags' = [t \in Tasks |-> "none"]
    /\ events' = {} /\ fired' = {}
    /\ lock' = Nobody
    /\ caller' = [u \in Users |-> Idle]
    /\ UNCHANGED <<task, row, asked, reason, decisions, outcome, votes, overdue>>

ThreadStep(t) ==
    \/ StartRun(t) \/ WriteTaskState(t)
    \/ \E r \in Reasons : HarnessEnds(t, r)
    \/ AskApproval(t) \/ RegisterEvent(t) \/ InsertRow(t)
    \/ WaitReturns(t) \/ WaitTimesOut(t) \/ RejectOverdue(t) \/ ReturnOverdue(t)
    \/ ForgetEvent(t) \/ ReturnDecided(t)

CallStep(u) == UpdateRow(u) \/ LookupEvent(u) \/ SetEvent(u)

Environment ==
    \/ \E t \in Tasks : CreateTask(t) \/ Cancel(t) \/ ThreadDies(t) \/ InsertRaises(t)
                       \/ ResolverRaises(t)
    \/ \E u \in Users : UpdateRaises(u) \/ \E a \in Approvals, v \in Verdicts : StartDecide(u, a, v)
    \/ Crash

Next ==
    \/ \E t \in Tasks : ThreadStep(t)
    \/ \E u \in Users : CallStep(u)
    \/ Environment

Spec == Init /\ [][Next]_vars

\* A thread that can run does run: the wait of the resolver is bounded, so is the harness
\* (RunTerminates of module Harness), and a call that has taken the lock gives it back.
FairSpec ==
    /\ Spec
    /\ \A t \in Tasks : WF_vars(ThreadStep(t))
    /\ \A u \in Users : WF_vars(CallStep(u))

(***************************************************************************)
(* Properties                                                              *)
(***************************************************************************)
ThreadPoints == {"none", "start", "run", "register", "insert", "wait", "timeout", "popTimeout",
                 "decided", "reread", "finish", "done", "dead", "lost"}

\* The tables, threads, Events and calls have their types; the lock is held exactly by the
\* thread or call that is inside its critical section.
TypeOK ==
    /\ task \in [Tasks -> Terminal \cup {"absent", "RUNNING"}]
    /\ row \in [Approvals -> Verdicts \cup {"absent", "PENDING"}]
    /\ thread \in [Tasks -> ThreadPoints]
    /\ asked \in [Tasks -> 0..MaxApprovals]
    /\ reason \in [Tasks -> Reasons \cup {"none"}]
    /\ flags \in [Tasks -> {"none", "clear", "set"}]
    /\ events \subseteq Approvals /\ fired \subseteq Approvals
    /\ caller \in [Users -> {Idle} \cup
                      [at : {"update", "lookup", "set"}, id : Approvals, verdict : Verdicts]]
    /\ decisions \in [Users -> 0..MaxDecisions]
    /\ crashes \in 0..MaxCrashes
    /\ outcome \in [Approvals -> Verdicts \cup {"none"}]
    /\ votes \in [Approvals -> SUBSET Verdicts]
    /\ overdue \subseteq Approvals
    /\ lock \in {Nobody} \cup Tasks \cup Users
    /\ \A t \in Tasks : lock = t <=> thread[t] = "insert"
    /\ \A u \in Users : lock = u <=> caller[u].at = "lookup"

InFlight(a) == \E u \in Users : caller[u].id = a /\ caller[u].at \in {"lookup", "set"}

\* No lost wakeup: a resolver that waits for a row which is no longer PENDING has its Event
\* set or is about to have it set, whichever of decide() and the registration came first.
NoLostWakeup ==
    \A t \in Tasks :
        thread[t] = "wait" /\ row[Current(t)] # "PENDING"
            => Current(t) \in fired \/ InFlight(Current(t))

\* The resolver fails closed: it returns True only if decide() wrote an approval, and it
\* returns False only if decide() wrote a rejection or the wait timed out.
OutcomeHasACause ==
    \A a \in Approvals :
        /\ outcome[a] = "APPROVED" => "APPROVED" \in votes[a]
        /\ outcome[a] = "REJECTED" => "REJECTED" \in votes[a] \/ a \in overdue

\* What the resolver can leave behind of an approval: a PENDING row, a registered Event.
Leftover(a) == row[a] = "PENDING" \/ a \in events

\* An answer of the resolver leaves nothing behind.  A task that has ended does so only for
\* its last approval, and only when the resolver raised: the insert (the Event is left) or
\* the update of the overdue row (the Event and the PENDING row are).  The task is FAILED.
ResolvedIsSettled ==
    \A a \in Approvals :
        /\ outcome[a] # "none" => ~Leftover(a)
        /\ task[a[1]] \in Terminal /\ Leftover(a)
               => /\ a = Current(a[1])
                  /\ task[a[1]] = "FAILED" /\ reason[a[1]] = "INTERNAL_ERROR"
                  /\ row[a] # "absent" => a \in overdue

\* A task that was created reaches a terminal row, whoever decides or does not decide its
\* approvals, unless its thread died outside harness.run or the process crashed.
TaskSettles ==
    \A t \in Tasks : task[t] = "RUNNING" ~> (task[t] \in Terminal \/ thread[t] \in {"dead", "lost"})

(***************************************************************************)
(* The promise of module ApprovalGate                                      *)
(***************************************************************************)
Lower(verdict) == IF verdict = "APPROVED" THEN "approved" ELSE "rejected"
Waiting == {"wait", "timeout", "popTimeout", "decided", "reread"}
Live(a) == a[2] = asked[a[1]] /\ thread[a[1]] \in Waiting /\ outcome[a] = "none"
gateStatus ==
    [a \in Approvals |->
        IF row[a] = "absent" THEN "none"
        ELSE IF outcome[a] # "none" THEN Lower(outcome[a])
        ELSE IF ~Live(a) THEN "abandoned"
        ELSE IF a \in overdue THEN "overdue" ELSE "open"]
gateVotes == [a \in Approvals |-> {Lower(v) : v \in votes[a]}]

Gate == INSTANCE ApprovalGate WITH Requests <- Approvals, status <- gateStatus, votes <- gateVotes

\* The service implements the gate: answers come from votes on the open request or from its
\* time running out, and each request is answered at most once.
GateImplemented == Gate!GateSpec

(***************************************************************************)
(* What the documents say and the code does not do                         *)
(***************************************************************************)
\* The docstring of the resolver: on timeout the row is moved to a terminal REJECTED state.
OverdueRowStaysRejected ==
    \A a \in Approvals : a \in overdue /\ outcome[a] = "REJECTED" => row[a] = "REJECTED"
=============================================================================
