-------------------------- MODULE AppServiceProofs --------------------------
(***************************************************************************)
(* Proofs about the approval handshake for every set of tasks and users    *)
(* and every number of approvals, decisions and crashes.                   *)
(***************************************************************************)
EXTENDS AppService, TLAPS

(***************************************************************************)
(* The inductive invariant                                                 *)
(***************************************************************************)
\* Where a thread is says how far its current approval has come.
ThreadInv ==
    \A t \in Tasks :
        /\ thread[t] \in {"register", "insert"} \cup Waiting => asked[t] \in 1..MaxApprovals
        /\ thread[t] \in {"insert", "wait", "timeout", "popTimeout", "decided"}
               => Current(t) \in events
        /\ thread[t] \in Waiting => row[Current(t)] # "absent" /\ outcome[Current(t)] = "none"
        /\ thread[t] \in {"popTimeout", "decided", "reread"} => row[Current(t)] \in Verdicts
        /\ thread[t] \in {"timeout", "popTimeout"} => Current(t) \in overdue
        /\ thread[t] \in {"wait", "decided", "reread"} => Current(t) \notin overdue
        /\ thread[t] = "reread" => Current(t) \notin events
        /\ task[t] \in Terminal => thread[t] = "done" /\ task[t] = TerminationToState(reason[t])

\* An approval that its run has not asked for, or has not stored yet.
Fresh(a) ==
    \/ a[2] > asked[a[1]]
    \/ a[2] = asked[a[1]] /\ thread[a[1]] \in {"register", "insert"}

\* A run that an exception of its resolver has ended, or is about to end.
Abandoned(t) == thread[t] \in {"finish", "done", "dead"} /\ reason[t] = "INTERNAL_ERROR"

\* The approvals whose row may be PENDING: the current one of a run that waits or was lost in
\* a crash, and the overdue one whose update raised.
Pends(a) ==
    /\ a[2] = asked[a[1]]
    /\ \/ thread[a[1]] \in {"wait", "timeout", "lost"}
       \/ a \in overdue /\ Abandoned(a[1])

\* The Events that may be registered: of the current approval of a run that has yet to forget
\* it, or whose resolver raised first.
Registered(a) ==
    /\ a[2] = asked[a[1]]
    /\ \/ thread[a[1]] \in {"insert", "wait", "timeout", "popTimeout", "decided"}
       \/ Abandoned(a[1]) /\ (row[a] = "absent" \/ a \in overdue)

EventInv == \A a \in events : Registered(a)

\* What a row says has a cause, and only the current approval of a run is PENDING.
RowInv ==
    \A a \in Approvals :
        /\ Fresh(a) => row[a] = "absent"
        /\ a \in overdue => row[a] # "absent"
        /\ a \in fired => row[a] \in Verdicts
        /\ row[a] = "APPROVED" => "APPROVED" \in votes[a]
        /\ row[a] = "REJECTED" => "REJECTED" \in votes[a] \/ a \in overdue
        /\ row[a] = "PENDING" => Pends(a)
        /\ outcome[a] # "none" => row[a] \in Verdicts /\ a \notin events

\* A call decides a row that exists, and has written it before it looks for the Event.
CallInv ==
    \A u \in Users :
        /\ caller[u].at = "update" => row[caller[u].id] # "absent"
        /\ caller[u].at \in {"lookup", "set"} => row[caller[u].id] \in Verdicts

IInv == TypeOK /\ ThreadInv /\ RowInv /\ EventInv /\ CallInv /\ NoLostWakeup /\ OutcomeHasACause

\* An approval a thread works on exists.
LEMMA CurrentExists ==
    ASSUME TypeOK, ThreadInv, NEW t \in Tasks,
           thread[t] \in {"register", "insert"} \cup Waiting
    PROVE  Current(t) \in Approvals
  BY DEF ThreadInv, Approvals, Current

(***************************************************************************)
(* Type correctness                                                        *)
(***************************************************************************)
LEMMA TypeInit == Init => TypeOK
  BY ServiceAssumption, ActorsAssumption DEF Init, TypeOK, Idle, ThreadPoints

LEMMA TypeStep ==
    ASSUME TypeOK, ThreadInv, Next
    PROVE  TypeOK'
<1> USE ServiceAssumption, ActorsAssumption
<1>1. ASSUME NEW t \in Tasks, CreateTask(t) PROVE TypeOK'
  BY <1>1, CurrentExists DEF TypeOK, CreateTask, Goto, LockFree, Waiting, TerminationToState, Terminal, Reasons, ThreadPoints, Verdicts
<1>2. ASSUME NEW t \in Tasks, StartRun(t) PROVE TypeOK'
  BY <1>2, CurrentExists DEF TypeOK, StartRun, Goto, LockFree, Waiting, TerminationToState, Terminal, Reasons, ThreadPoints, Verdicts
<1>3. ASSUME NEW t \in Tasks, ThreadDies(t) PROVE TypeOK'
  BY <1>3, CurrentExists DEF TypeOK, ThreadDies, Goto, LockFree, Waiting, TerminationToState, Terminal, Reasons, ThreadPoints, Verdicts
<1>4. ASSUME NEW t \in Tasks, WriteTaskState(t) PROVE TypeOK'
  BY <1>4, CurrentExists DEF TypeOK, WriteTaskState, Goto, LockFree, Waiting, TerminationToState, Terminal, Reasons, ThreadPoints, Verdicts
<1>5. ASSUME NEW t \in Tasks, Cancel(t) PROVE TypeOK'
  BY <1>5, CurrentExists DEF TypeOK, Cancel, Goto, LockFree, Waiting, TerminationToState, Terminal, Reasons, ThreadPoints, Verdicts
<1>6. ASSUME NEW t \in Tasks, AskApproval(t) PROVE TypeOK'
  BY <1>6, CurrentExists DEF TypeOK, AskApproval, Goto, LockFree, Waiting, TerminationToState, Terminal, Reasons, ThreadPoints, Verdicts
<1>7. ASSUME NEW t \in Tasks, RegisterEvent(t) PROVE TypeOK'
  BY <1>7, CurrentExists DEF TypeOK, RegisterEvent, Goto, LockFree, Waiting, TerminationToState, Terminal, Reasons, ThreadPoints, Verdicts
<1>8. ASSUME NEW t \in Tasks, InsertRow(t) PROVE TypeOK'
  BY <1>8, CurrentExists DEF TypeOK, InsertRow, Goto, LockFree, Waiting, TerminationToState, Terminal, Reasons, ThreadPoints, Verdicts
<1>9. ASSUME NEW t \in Tasks, InsertRaises(t) PROVE TypeOK'
  BY <1>9, CurrentExists DEF TypeOK, InsertRaises, Goto, LockFree, Waiting, TerminationToState, Terminal, Reasons, ThreadPoints, Verdicts
<1>10. ASSUME NEW t \in Tasks, WaitReturns(t) PROVE TypeOK'
  BY <1>10, CurrentExists DEF TypeOK, WaitReturns, Goto, LockFree, Waiting, TerminationToState, Terminal, Reasons, ThreadPoints, Verdicts
<1>11. ASSUME NEW t \in Tasks, WaitTimesOut(t) PROVE TypeOK'
  BY <1>11, CurrentExists DEF TypeOK, WaitTimesOut, Goto, LockFree, Waiting, TerminationToState, Terminal, Reasons, ThreadPoints, Verdicts
<1>12. ASSUME NEW t \in Tasks, RejectOverdue(t) PROVE TypeOK'
  BY <1>12, CurrentExists DEF TypeOK, RejectOverdue, Goto, LockFree, Waiting, TerminationToState, Terminal, Reasons, ThreadPoints, Verdicts
<1>13. ASSUME NEW t \in Tasks, ReturnOverdue(t) PROVE TypeOK'
  BY <1>13, CurrentExists DEF TypeOK, ReturnOverdue, Goto, LockFree, Waiting, TerminationToState, Terminal, Reasons, ThreadPoints, Verdicts
<1>14. ASSUME NEW t \in Tasks, ForgetEvent(t) PROVE TypeOK'
  BY <1>14, CurrentExists DEF TypeOK, ForgetEvent, Goto, LockFree, Waiting, TerminationToState, Terminal, Reasons, ThreadPoints, Verdicts
<1>15. ASSUME NEW t \in Tasks, ReturnDecided(t) PROVE TypeOK'
  BY <1>15, CurrentExists DEF TypeOK, ReturnDecided, Goto, LockFree, Waiting, TerminationToState, Terminal, Reasons, ThreadPoints, Verdicts
<1>16. ASSUME NEW t \in Tasks, NEW r \in Reasons, HarnessEnds(t, r) PROVE TypeOK'
  BY <1>16 DEF TypeOK, HarnessEnds, Goto, ThreadPoints
<1>17. ASSUME NEW u \in Users, UpdateRow(u) PROVE TypeOK'
  BY <1>17 DEF TypeOK, UpdateRow, Call, Return, Idle, LockFree, Verdicts
<1>18. ASSUME NEW u \in Users, LookupEvent(u) PROVE TypeOK'
  BY <1>18 DEF TypeOK, LookupEvent, Call, Return, Idle, LockFree, Verdicts
<1>19. ASSUME NEW u \in Users, SetEvent(u) PROVE TypeOK'
  BY <1>19 DEF TypeOK, SetEvent, Call, Return, Idle, LockFree, Verdicts
<1>20. ASSUME NEW u \in Users, UpdateRaises(u) PROVE TypeOK'
  BY <1>20 DEF TypeOK, UpdateRaises, Call, Return, Idle, LockFree, Verdicts
<1>21. ASSUME NEW u \in Users, NEW a \in Approvals, NEW v \in Verdicts, StartDecide(u, a, v)
      PROVE  TypeOK'
  BY <1>21 DEF TypeOK, StartDecide, Idle
<1>22. CASE Crash
  BY <1>22 DEF TypeOK, Crash, ThreadPoints, Idle
<1>23. ASSUME NEW t \in Tasks, ResolverRaises(t) PROVE TypeOK'
  BY <1>23 DEF TypeOK, ResolverRaises, Reasons, ThreadPoints
<1> QED
  BY <1>1, <1>2, <1>3, <1>4, <1>5, <1>6, <1>7, <1>8, <1>9, <1>10, <1>11, <1>12, <1>13, <1>14, <1>15, <1>16, <1>17, <1>18, <1>19, <1>20, <1>21, <1>22, <1>23 DEF Next, ThreadStep, CallStep, Environment

\* The invariant of the threads.
LEMMA ThreadStepKept ==
    ASSUME TypeOK, ThreadInv, RowInv, CallInv, Next
    PROVE  ThreadInv'
<1> USE ActorsAssumption, ServiceAssumption
<1>1. ASSUME NEW t \in Tasks, CreateTask(t) PROVE ThreadInv'
  BY <1>1, CurrentExists DEF TypeOK, ThreadInv, RowInv, Fresh, Waiting, Current, Approvals, Verdicts, Terminal, CreateTask, Goto
<1>2. ASSUME NEW t \in Tasks, StartRun(t) PROVE ThreadInv'
  BY <1>2, CurrentExists DEF TypeOK, ThreadInv, RowInv, Fresh, Waiting, Current, Approvals, Verdicts, Terminal, StartRun, Goto
<1>3. ASSUME NEW t \in Tasks, ThreadDies(t) PROVE ThreadInv'
  BY <1>3, CurrentExists DEF TypeOK, ThreadInv, RowInv, Fresh, Waiting, Current, Approvals, Verdicts, Terminal, ThreadDies, Goto
<1>4. ASSUME NEW t \in Tasks, WriteTaskState(t) PROVE ThreadInv'
  BY <1>4, CurrentExists DEF TypeOK, ThreadInv, RowInv, Fresh, Waiting, Current, Approvals, Verdicts, Terminal, WriteTaskState, Goto
<1>5. ASSUME NEW t \in Tasks, Cancel(t) PROVE ThreadInv'
  BY <1>5, CurrentExists DEF TypeOK, ThreadInv, RowInv, Fresh, Waiting, Current, Approvals, Verdicts, Terminal, Cancel, Goto
<1>6. ASSUME NEW t \in Tasks, AskApproval(t) PROVE ThreadInv'
  BY <1>6, CurrentExists DEF TypeOK, ThreadInv, RowInv, Fresh, Waiting, Current, Approvals, Verdicts, Terminal, AskApproval, Goto
<1>7. ASSUME NEW t \in Tasks, RegisterEvent(t) PROVE ThreadInv'
  BY <1>7, CurrentExists DEF TypeOK, ThreadInv, RowInv, Fresh, Waiting, Current, Approvals, Verdicts, Terminal, RegisterEvent, Goto
<1>8. ASSUME NEW t \in Tasks, InsertRow(t) PROVE ThreadInv'
  BY <1>8, CurrentExists DEF TypeOK, ThreadInv, RowInv, Fresh, Waiting, Current, Approvals, Verdicts, Terminal, InsertRow, Goto
<1>9. ASSUME NEW t \in Tasks, InsertRaises(t) PROVE ThreadInv'
  BY <1>9, CurrentExists DEF TypeOK, ThreadInv, RowInv, Fresh, Waiting, Current, Approvals, Verdicts, Terminal, InsertRaises, Goto
<1>10. ASSUME NEW t \in Tasks, WaitReturns(t) PROVE ThreadInv'
  <2>1. Current(t) \in Approvals
    BY <1>10, CurrentExists DEF WaitReturns, Goto, Waiting
  <2>2. row[Current(t)] \in Verdicts
    BY <1>10, <2>1 DEF RowInv, WaitReturns
  <2> QED
    BY <1>10, <2>2 DEF TypeOK, ThreadInv, Waiting, Current, WaitReturns, Goto
<1>11. ASSUME NEW t \in Tasks, WaitTimesOut(t) PROVE ThreadInv'
  BY <1>11, CurrentExists DEF TypeOK, ThreadInv, RowInv, Fresh, Waiting, Current, Approvals, Verdicts, Terminal, WaitTimesOut, Goto
<1>12. ASSUME NEW t \in Tasks, RejectOverdue(t) PROVE ThreadInv'
  BY <1>12, CurrentExists DEF TypeOK, ThreadInv, RowInv, Fresh, Waiting, Current, Approvals, Verdicts, Terminal, RejectOverdue, Goto
<1>13. ASSUME NEW t \in Tasks, ReturnOverdue(t) PROVE ThreadInv'
  BY <1>13, CurrentExists DEF TypeOK, ThreadInv, RowInv, Fresh, Waiting, Current, Approvals, Verdicts, Terminal, ReturnOverdue, Goto
<1>14. ASSUME NEW t \in Tasks, ForgetEvent(t) PROVE ThreadInv'
  BY <1>14, CurrentExists DEF TypeOK, ThreadInv, RowInv, Fresh, Waiting, Current, Approvals, Verdicts, Terminal, ForgetEvent, Goto
<1>15. ASSUME NEW t \in Tasks, ReturnDecided(t) PROVE ThreadInv'
  BY <1>15, CurrentExists DEF TypeOK, ThreadInv, RowInv, Fresh, Waiting, Current, Approvals, Verdicts, Terminal, ReturnDecided, Goto
<1>16. ASSUME NEW t \in Tasks, NEW r \in Reasons, HarnessEnds(t, r) PROVE ThreadInv'
  BY <1>16, CurrentExists DEF TypeOK, ThreadInv, RowInv, Fresh, Waiting, Current, Approvals, Verdicts, Terminal, HarnessEnds, Goto
<1>17. ASSUME NEW u \in Users, UpdateRow(u) PROVE ThreadInv'
  BY <1>17, CurrentExists DEF TypeOK, ThreadInv, RowInv, Fresh, Waiting, Current, Approvals, Verdicts, Terminal, UpdateRow, Call, Return, Idle
<1>18. ASSUME NEW u \in Users, LookupEvent(u) PROVE ThreadInv'
  BY <1>18, CurrentExists DEF TypeOK, ThreadInv, RowInv, Fresh, Waiting, Current, Approvals, Verdicts, Terminal, LookupEvent, Call, Return, Idle
<1>19. ASSUME NEW u \in Users, SetEvent(u) PROVE ThreadInv'
  BY <1>19, CurrentExists DEF TypeOK, ThreadInv, RowInv, Fresh, Waiting, Current, Approvals, Verdicts, Terminal, SetEvent, Call, Return, Idle
<1>20. ASSUME NEW u \in Users, UpdateRaises(u) PROVE ThreadInv'
  BY <1>20, CurrentExists DEF TypeOK, ThreadInv, RowInv, Fresh, Waiting, Current, Approvals, Verdicts, Terminal, UpdateRaises, Call, Return, Idle
<1>21. ASSUME NEW u \in Users, NEW b \in Approvals, NEW v \in Verdicts, StartDecide(u, b, v)
      PROVE  ThreadInv'
  BY <1>21, CurrentExists DEF TypeOK, ThreadInv, RowInv, Fresh, Waiting, Current, Approvals, Verdicts, Terminal, StartDecide, Idle
<1>22. CASE Crash
  BY <1>22, CurrentExists DEF TypeOK, ThreadInv, RowInv, Fresh, Waiting, Current, Approvals, Verdicts, Terminal, Crash, Idle
<1>23. ASSUME NEW t \in Tasks, ResolverRaises(t) PROVE ThreadInv'
  BY <1>23 DEF TypeOK, ThreadInv, Waiting, Current, Terminal, ResolverRaises
<1> QED
  BY <1>1, <1>2, <1>3, <1>4, <1>5, <1>6, <1>7, <1>8, <1>9, <1>10, <1>11, <1>12, <1>13, <1>14, <1>15, <1>16, <1>17, <1>18, <1>19, <1>20, <1>21, <1>22, <1>23 DEF Next, ThreadStep, CallStep, Environment

\* The invariant of the calls.
LEMMA CallStepKept ==
    ASSUME TypeOK, ThreadInv, RowInv, CallInv, Next
    PROVE  CallInv'
<1> USE ActorsAssumption, ServiceAssumption
<1>1. ASSUME NEW t \in Tasks, CreateTask(t) PROVE CallInv'
  BY <1>1, CurrentExists DEF TypeOK, CallInv, RowInv, Fresh, Current, Verdicts, Approvals, CreateTask, Goto
<1>2. ASSUME NEW t \in Tasks, StartRun(t) PROVE CallInv'
  BY <1>2, CurrentExists DEF TypeOK, CallInv, RowInv, Fresh, Current, Verdicts, Approvals, StartRun, Goto
<1>3. ASSUME NEW t \in Tasks, ThreadDies(t) PROVE CallInv'
  BY <1>3, CurrentExists DEF TypeOK, CallInv, RowInv, Fresh, Current, Verdicts, Approvals, ThreadDies, Goto
<1>4. ASSUME NEW t \in Tasks, WriteTaskState(t) PROVE CallInv'
  BY <1>4, CurrentExists DEF TypeOK, CallInv, RowInv, Fresh, Current, Verdicts, Approvals, WriteTaskState, Goto
<1>5. ASSUME NEW t \in Tasks, Cancel(t) PROVE CallInv'
  BY <1>5, CurrentExists DEF TypeOK, CallInv, RowInv, Fresh, Current, Verdicts, Approvals, Cancel, Goto
<1>6. ASSUME NEW t \in Tasks, AskApproval(t) PROVE CallInv'
  BY <1>6, CurrentExists DEF TypeOK, CallInv, RowInv, Fresh, Current, Verdicts, Approvals, AskApproval, Goto
<1>7. ASSUME NEW t \in Tasks, RegisterEvent(t) PROVE CallInv'
  BY <1>7, CurrentExists DEF TypeOK, CallInv, RowInv, Fresh, Current, Verdicts, Approvals, RegisterEvent, Goto
<1>8. ASSUME NEW t \in Tasks, InsertRow(t) PROVE CallInv'
  BY <1>8, CurrentExists DEF TypeOK, CallInv, RowInv, Fresh, Current, Verdicts, Approvals, InsertRow, Goto
<1>9. ASSUME NEW t \in Tasks, InsertRaises(t) PROVE CallInv'
  BY <1>9, CurrentExists DEF TypeOK, CallInv, RowInv, Fresh, Current, Verdicts, Approvals, InsertRaises, Goto
<1>10. ASSUME NEW t \in Tasks, WaitReturns(t) PROVE CallInv'
  BY <1>10, CurrentExists DEF TypeOK, CallInv, RowInv, Fresh, Current, Verdicts, Approvals, WaitReturns, Goto
<1>11. ASSUME NEW t \in Tasks, WaitTimesOut(t) PROVE CallInv'
  BY <1>11, CurrentExists DEF TypeOK, CallInv, RowInv, Fresh, Current, Verdicts, Approvals, WaitTimesOut, Goto
<1>12. ASSUME NEW t \in Tasks, RejectOverdue(t) PROVE CallInv'
  BY <1>12, CurrentExists DEF TypeOK, CallInv, RowInv, Fresh, Current, Verdicts, Approvals, RejectOverdue, Goto
<1>13. ASSUME NEW t \in Tasks, ReturnOverdue(t) PROVE CallInv'
  BY <1>13, CurrentExists DEF TypeOK, CallInv, RowInv, Fresh, Current, Verdicts, Approvals, ReturnOverdue, Goto
<1>14. ASSUME NEW t \in Tasks, ForgetEvent(t) PROVE CallInv'
  BY <1>14, CurrentExists DEF TypeOK, CallInv, RowInv, Fresh, Current, Verdicts, Approvals, ForgetEvent, Goto
<1>15. ASSUME NEW t \in Tasks, ReturnDecided(t) PROVE CallInv'
  BY <1>15, CurrentExists DEF TypeOK, CallInv, RowInv, Fresh, Current, Verdicts, Approvals, ReturnDecided, Goto
<1>16. ASSUME NEW t \in Tasks, NEW r \in Reasons, HarnessEnds(t, r) PROVE CallInv'
  BY <1>16, CurrentExists DEF TypeOK, CallInv, RowInv, Fresh, Current, Verdicts, Approvals, HarnessEnds, Goto
<1>17. ASSUME NEW u \in Users, UpdateRow(u) PROVE CallInv'
  BY <1>17 DEF TypeOK, CallInv, Verdicts, UpdateRow, Call, Return, Idle
<1>18. ASSUME NEW u \in Users, LookupEvent(u) PROVE CallInv'
  BY <1>18 DEF TypeOK, CallInv, LookupEvent, Call, Return, Idle
<1>19. ASSUME NEW u \in Users, SetEvent(u) PROVE CallInv'
  BY <1>19 DEF TypeOK, CallInv, Verdicts, SetEvent, Call, Return, Idle
<1>20. ASSUME NEW u \in Users, UpdateRaises(u) PROVE CallInv'
  BY <1>20 DEF TypeOK, CallInv, UpdateRaises, Call, Return, Idle
<1>21. ASSUME NEW u \in Users, NEW b \in Approvals, NEW v \in Verdicts, StartDecide(u, b, v)
      PROVE  CallInv'
  BY <1>21, CurrentExists DEF TypeOK, CallInv, RowInv, Fresh, Current, Verdicts, Approvals, StartDecide, Idle
<1>22. CASE Crash
  BY <1>22, CurrentExists DEF TypeOK, CallInv, RowInv, Fresh, Current, Verdicts, Approvals, Crash, Idle
<1>23. ASSUME NEW t \in Tasks, ResolverRaises(t) PROVE CallInv'
  BY <1>23 DEF CallInv, ResolverRaises
<1> QED
  BY <1>1, <1>2, <1>3, <1>4, <1>5, <1>6, <1>7, <1>8, <1>9, <1>10, <1>11, <1>12, <1>13, <1>14, <1>15, <1>16, <1>17, <1>18, <1>19, <1>20, <1>21, <1>22, <1>23 DEF Next, ThreadStep, CallStep, Environment

\* A step that leaves the rows, votes, wakeups and answers alone.
LEMMA RowsKept ==
    ASSUME RowInv, UNCHANGED <<row, votes, fired, outcome>>, overdue \subseteq overdue',
           \A a \in Approvals :
               /\ Fresh(a)' => row[a] = "absent"
               /\ a \in overdue' => row[a] # "absent"
               /\ row[a] = "PENDING" => Pends(a)'
               /\ a \in events' => a \in events \/ outcome[a] = "none"
    PROVE  RowInv'
  BY DEF RowInv

\* The invariant of the rows.
LEMMA RowStepKept ==
    ASSUME TypeOK, ThreadInv, RowInv, CallInv, Next
    PROVE  RowInv'
<1> USE ActorsAssumption, ServiceAssumption
<1>1. ASSUME NEW t \in Tasks, CreateTask(t) PROVE RowInv'
  <2>1. \A s \in Tasks : thread'[s] = IF s = t THEN "start" ELSE thread[s]
    BY <1>1 DEF TypeOK, CreateTask, Goto
  <2>2. \A a \in Approvals : Fresh(a)' => Fresh(a)
    BY <1>1, <2>1 DEF Fresh, CreateTask, Goto, Approvals
  <2>3. \A a \in Approvals : row[a] = "PENDING" => a[1] # t
    BY <1>1 DEF RowInv, Pends, Abandoned, CreateTask, Goto
  <2>6. \A a \in Approvals : row[a] = "PENDING" => Pends(a)'
    BY <1>1, <2>1, <2>3 DEF RowInv, Pends, Abandoned, CreateTask, Approvals
  <2> QED
    BY <1>1, <2>2, <2>6, RowsKept DEF RowInv, Pends, Abandoned, CreateTask
<1>2. ASSUME NEW t \in Tasks, StartRun(t) PROVE RowInv'
  <2>1. \A s \in Tasks : thread'[s] = IF s = t THEN "run" ELSE thread[s]
    BY <1>2 DEF TypeOK, StartRun, Goto
  <2>2. \A a \in Approvals : Fresh(a)' => Fresh(a)
    BY <1>2, <2>1 DEF Fresh, StartRun, Goto, Approvals
  <2>3. \A a \in Approvals : row[a] = "PENDING" => a[1] # t
    BY <1>2 DEF RowInv, Pends, Abandoned, StartRun, Goto
  <2>6. \A a \in Approvals : row[a] = "PENDING" => Pends(a)'
    BY <1>2, <2>1, <2>3 DEF RowInv, Pends, Abandoned, StartRun, Approvals
  <2> QED
    BY <1>2, <2>2, <2>6, RowsKept DEF RowInv, Pends, Abandoned, StartRun
<1>3. ASSUME NEW t \in Tasks, ThreadDies(t) PROVE RowInv'
  <2>1. \A s \in Tasks : thread'[s] = IF s = t THEN "dead" ELSE thread[s]
    BY <1>3 DEF TypeOK, ThreadDies, Goto
  <2>2. \A a \in Approvals : Fresh(a)' => Fresh(a)
    BY <1>3, <2>1 DEF Fresh, ThreadDies, Goto, Approvals
  <2>6. \A a \in Approvals : row[a] = "PENDING" => Pends(a)'
    BY <1>3, <2>1 DEF RowInv, Pends, Abandoned, ThreadDies, Goto, Approvals
  <2> QED
    BY <1>3, <2>2, <2>6, RowsKept DEF RowInv, Pends, Abandoned, ThreadDies
<1>4. ASSUME NEW t \in Tasks, WriteTaskState(t) PROVE RowInv'
  <2>1. \A s \in Tasks : thread'[s] = IF s = t THEN "done" ELSE thread[s]
    BY <1>4 DEF TypeOK, WriteTaskState, Goto
  <2>2. \A a \in Approvals : Fresh(a)' => Fresh(a)
    BY <1>4, <2>1 DEF Fresh, WriteTaskState, Goto, Approvals
  <2>6. \A a \in Approvals : row[a] = "PENDING" => Pends(a)'
    BY <1>4, <2>1 DEF RowInv, Pends, Abandoned, WriteTaskState, Goto, Approvals
  <2> QED
    BY <1>4, <2>2, <2>6, RowsKept DEF RowInv, Pends, Abandoned, WriteTaskState
<1>5. ASSUME NEW t \in Tasks, Cancel(t) PROVE RowInv'
  BY <1>5, CurrentExists DEF TypeOK, ThreadInv, RowInv, Pends, Abandoned, CallInv, Fresh, Waiting, Current, Verdicts, Approvals, Cancel, Goto
<1>6. ASSUME NEW t \in Tasks, AskApproval(t) PROVE RowInv'
  <2>1. \A s \in Tasks : thread'[s] = IF s = t THEN "register" ELSE thread[s]
    BY <1>6 DEF TypeOK, AskApproval, Goto
  <2>2. \A s \in Tasks : asked'[s] = IF s = t THEN asked[t] + 1 ELSE asked[s]
    BY <1>6 DEF TypeOK, AskApproval
  <2>3. \A a \in Approvals : Fresh(a)' => Fresh(a)
    BY <1>6, <2>1, <2>2 DEF TypeOK, Fresh, AskApproval, Goto, Approvals
  <2>4. \A a \in Approvals : row[a] = "PENDING" => a[1] # t
    BY <1>6 DEF RowInv, Pends, Abandoned, AskApproval, Goto
  <2>5. \A a \in Approvals : row[a] = "PENDING" => Pends(a)'
    BY <1>6, <2>1, <2>2, <2>4 DEF RowInv, Pends, Abandoned, AskApproval, Approvals
  <2> QED
    BY <1>6, <2>3, <2>5, RowsKept DEF RowInv, Pends, Abandoned, AskApproval
<1>7. ASSUME NEW t \in Tasks, RegisterEvent(t) PROVE RowInv'
  <2>1. \A s \in Tasks : thread'[s] = IF s = t THEN "insert" ELSE thread[s]
    BY <1>7 DEF TypeOK, RegisterEvent, Goto
  <2>2. \A a \in Approvals : Fresh(a)' => Fresh(a)
    BY <1>7, <2>1 DEF Fresh, RegisterEvent, Goto, Approvals
  <2>3. \A a \in Approvals : row[a] = "PENDING" => a[1] # t
    BY <1>7 DEF RowInv, Pends, Abandoned, RegisterEvent, Goto
  <2>4. Current(t) \in Approvals /\ outcome[Current(t)] = "none"
    <3>1. Current(t) \in Approvals
      BY <1>7, CurrentExists DEF RegisterEvent, Goto
    <3>2. Fresh(Current(t))
      BY <1>7 DEF Fresh, Current, RegisterEvent, Goto
    <3> QED
      BY <3>1, <3>2 DEF RowInv, Pends, Abandoned, Verdicts
  <2>6. \A a \in Approvals : row[a] = "PENDING" => Pends(a)'
    BY <1>7, <2>1, <2>3 DEF RowInv, Pends, Abandoned, RegisterEvent, Approvals
  <2> QED
    BY <1>7, <2>2, <2>4, <2>6, RowsKept DEF RowInv, Pends, Abandoned, RegisterEvent
<1>8. ASSUME NEW t \in Tasks, InsertRow(t) PROVE RowInv'
  BY <1>8, CurrentExists DEF TypeOK, ThreadInv, RowInv, Pends, Abandoned, CallInv, Fresh, Waiting, Current, Verdicts, Approvals, InsertRow, Goto
<1>9. ASSUME NEW t \in Tasks, InsertRaises(t) PROVE RowInv'
  <2>1. \A s \in Tasks : thread'[s] = IF s = t THEN "finish" ELSE thread[s]
    BY <1>9 DEF TypeOK, InsertRaises, Goto
  <2>2. \A a \in Approvals : Fresh(a)' => Fresh(a)
    BY <1>9, <2>1 DEF Fresh, InsertRaises, Goto, Approvals
  <2>3. \A a \in Approvals : row[a] = "PENDING" => a[1] # t
    BY <1>9 DEF RowInv, Pends, Abandoned, InsertRaises, Goto
  <2>6. \A a \in Approvals : row[a] = "PENDING" => Pends(a)'
    BY <1>9, <2>1, <2>3 DEF RowInv, Pends, Abandoned, InsertRaises, Approvals
  <2> QED
    BY <1>9, <2>2, <2>6, RowsKept DEF RowInv, Pends, Abandoned, InsertRaises
<1>10. ASSUME NEW t \in Tasks, WaitReturns(t) PROVE RowInv'
  <2>1. \A s \in Tasks : thread'[s] = IF s = t THEN "decided" ELSE thread[s]
    BY <1>10 DEF TypeOK, WaitReturns, Goto
  <2>2. \A a \in Approvals : Fresh(a)' => Fresh(a)
    BY <1>10, <2>1 DEF Fresh, WaitReturns, Goto, Approvals
  <2>3. \A a \in Approvals : row[a] = "PENDING" => a[1] # t
    <3> SUFFICES ASSUME NEW a \in Approvals, row[a] = "PENDING", a[1] = t PROVE FALSE
      OBVIOUS
    <3>1. a = Current(t)
      BY DEF RowInv, Pends, Abandoned, Current, Approvals
    <3> QED
      BY <1>10, <3>1 DEF RowInv, Pends, Abandoned, WaitReturns, Verdicts
  <2>6. \A a \in Approvals : row[a] = "PENDING" => Pends(a)'
    BY <1>10, <2>1, <2>3 DEF RowInv, Pends, Abandoned, WaitReturns, Approvals
  <2> QED
    BY <1>10, <2>2, <2>6, RowsKept DEF RowInv, Pends, Abandoned, WaitReturns
<1>11. ASSUME NEW t \in Tasks, WaitTimesOut(t) PROVE RowInv'
  <2>1. \A s \in Tasks : thread'[s] = IF s = t THEN "timeout" ELSE thread[s]
    BY <1>11 DEF TypeOK, WaitTimesOut, Goto
  <2>2. \A a \in Approvals : Fresh(a)' => Fresh(a)
    BY <1>11, <2>1 DEF Fresh, WaitTimesOut, Goto, Approvals
  <2>3. Current(t) \in Approvals /\ row[Current(t)] # "absent"
    BY <1>11, CurrentExists DEF ThreadInv, WaitTimesOut, Goto, Waiting
  <2>6. \A a \in Approvals : row[a] = "PENDING" => Pends(a)'
    BY <1>11, <2>1, <2>3 DEF RowInv, Pends, Abandoned, WaitTimesOut, Approvals
  <2> QED
    BY <1>11, <2>2, <2>3, <2>6, RowsKept DEF RowInv, Pends, Abandoned, WaitTimesOut
<1>12. ASSUME NEW t \in Tasks, RejectOverdue(t) PROVE RowInv'
  BY <1>12, CurrentExists DEF TypeOK, ThreadInv, RowInv, Pends, Abandoned, CallInv, Fresh, Waiting, Current, Verdicts, Approvals, RejectOverdue, Goto
<1>13. ASSUME NEW t \in Tasks, ReturnOverdue(t) PROVE RowInv'
  BY <1>13, CurrentExists DEF TypeOK, ThreadInv, RowInv, Pends, Abandoned, CallInv, Fresh, Waiting, Current, Verdicts, Approvals, ReturnOverdue, Goto
<1>14. ASSUME NEW t \in Tasks, ForgetEvent(t) PROVE RowInv'
  <2>1. \A s \in Tasks : thread'[s] = IF s = t THEN "reread" ELSE thread[s]
    BY <1>14 DEF TypeOK, ForgetEvent, Goto
  <2>2. \A a \in Approvals : Fresh(a)' => Fresh(a)
    BY <1>14, <2>1 DEF Fresh, ForgetEvent, Goto, Approvals
  <2>3. \A a \in Approvals : row[a] = "PENDING" => a[1] # t
    BY <1>14 DEF RowInv, Pends, Abandoned, ForgetEvent, Goto
  <2>6. \A a \in Approvals : row[a] = "PENDING" => Pends(a)'
    <3>1. UNCHANGED <<asked, reason, overdue>> /\ \A s \in Tasks \ {t} : thread'[s] = thread[s]
      BY <1>14, <2>1 DEF ForgetEvent
    <3> QED
      BY <3>1, <2>3 DEF RowInv, Pends, Abandoned, Approvals
  <2> QED
    BY <1>14, <2>2, <2>6, RowsKept DEF RowInv, Pends, Abandoned, ForgetEvent
<1>15. ASSUME NEW t \in Tasks, ReturnDecided(t) PROVE RowInv'
  <2>1. Current(t) \in Approvals /\ row[Current(t)] \in Verdicts /\ Current(t) \notin events
    BY <1>15, CurrentExists DEF ThreadInv, ReturnDecided, Goto, Waiting
  <2>2. \A s \in Tasks : thread'[s] = IF s = t THEN "run" ELSE thread[s]
    BY <1>15 DEF TypeOK, ReturnDecided, Goto
  <2>3. \A a \in Approvals : Fresh(a)' => Fresh(a)
    BY <1>15, <2>2 DEF Fresh, ReturnDecided, Approvals
  <2>4. \A a \in Approvals : row[a] = "PENDING" => a[1] # t
    BY <1>15 DEF RowInv, Pends, Abandoned, ReturnDecided, Goto
  <2>5. \A a \in Approvals : row[a] = "PENDING" => Pends(a)'
    BY <1>15, <2>2, <2>4 DEF RowInv, Pends, Abandoned, ReturnDecided, Approvals
  <2>6. \A a \in Approvals : outcome'[a] # "none" => outcome[a] # "none" \/ a = Current(t)
    BY <1>15, <2>1 DEF TypeOK, ReturnDecided
  <2> QED
    BY <1>15, <2>1, <2>3, <2>5, <2>6 DEF RowInv, Pends, Abandoned, ReturnDecided
<1>16. ASSUME NEW t \in Tasks, NEW r \in Reasons, HarnessEnds(t, r) PROVE RowInv'
  <2>1. \A s \in Tasks : thread'[s] = IF s = t THEN "finish" ELSE thread[s]
    BY <1>16 DEF TypeOK, HarnessEnds, Goto
  <2>2. \A a \in Approvals : Fresh(a)' => Fresh(a)
    BY <1>16, <2>1 DEF Fresh, HarnessEnds, Goto, Approvals
  <2>3. \A a \in Approvals : row[a] = "PENDING" => a[1] # t
    BY <1>16 DEF RowInv, Pends, Abandoned, HarnessEnds, Goto
  <2>6. \A a \in Approvals : row[a] = "PENDING" => Pends(a)'
    BY <1>16, <2>1, <2>3 DEF RowInv, Pends, Abandoned, HarnessEnds, Approvals
  <2> QED
    BY <1>16, <2>2, <2>6, RowsKept DEF RowInv, Pends, Abandoned, HarnessEnds
<1>17. ASSUME NEW u \in Users, UpdateRow(u) PROVE RowInv'
  BY <1>17, CurrentExists DEF TypeOK, ThreadInv, RowInv, Pends, Abandoned, CallInv, Fresh, Waiting, Current, Verdicts, Approvals, UpdateRow, Call, Return, Idle
<1>18. ASSUME NEW u \in Users, LookupEvent(u) PROVE RowInv'
  BY <1>18, CurrentExists DEF TypeOK, ThreadInv, RowInv, Pends, Abandoned, CallInv, Fresh, Waiting, Current, Verdicts, Approvals, LookupEvent, Call, Return, Idle
<1>19. ASSUME NEW u \in Users, SetEvent(u) PROVE RowInv'
  BY <1>19, CurrentExists DEF TypeOK, ThreadInv, RowInv, Pends, Abandoned, CallInv, Fresh, Waiting, Current, Verdicts, Approvals, SetEvent, Call, Return, Idle
<1>20. ASSUME NEW u \in Users, UpdateRaises(u) PROVE RowInv'
  BY <1>20, CurrentExists DEF TypeOK, ThreadInv, RowInv, Pends, Abandoned, CallInv, Fresh, Waiting, Current, Verdicts, Approvals, UpdateRaises, Call, Return, Idle
<1>21. ASSUME NEW u \in Users, NEW b \in Approvals, NEW v \in Verdicts, StartDecide(u, b, v)
      PROVE  RowInv'
  BY <1>21, CurrentExists DEF TypeOK, ThreadInv, RowInv, Pends, Abandoned, CallInv, Fresh, Waiting, Current, Verdicts, Approvals, StartDecide, Idle
<1>22. CASE Crash
  BY <1>22, CurrentExists DEF TypeOK, ThreadInv, RowInv, Pends, Abandoned, CallInv, Fresh, Waiting, Current, Verdicts, Approvals, Crash, Idle
<1>23. ASSUME NEW t \in Tasks, ResolverRaises(t) PROVE RowInv'
  <2>1. \A s \in Tasks : thread'[s] = IF s = t THEN "finish" ELSE thread[s]
    BY <1>23 DEF TypeOK, ResolverRaises
  <2>2. \A s \in Tasks : reason'[s] = IF s = t THEN "INTERNAL_ERROR" ELSE reason[s]
    BY <1>23 DEF TypeOK, ResolverRaises
  <2>3. \A a \in Approvals : Fresh(a)' => Fresh(a)
    BY <1>23, <2>1 DEF Fresh, ResolverRaises, Approvals
  <2>4. ASSUME NEW a \in Approvals, row[a] = "PENDING" PROVE Pends(a)'
    <3>1. Pends(a)
      BY <2>4 DEF RowInv
    <3>2. CASE a[1] = t
      <4>1. a = Current(t)
        BY <3>1, <3>2 DEF Pends, Current, Approvals
      <4>2. a \in overdue
        BY <1>23, <2>4, <4>1 DEF ThreadInv, ResolverRaises, Verdicts
      <4> QED
        BY <1>23, <2>1, <2>2, <3>1, <3>2, <4>2 DEF Pends, Abandoned, ResolverRaises
    <3>3. CASE a[1] # t
      BY <1>23, <2>1, <2>2, <3>1, <3>3 DEF Pends, Abandoned, ResolverRaises, Approvals
    <3> QED
      BY <3>2, <3>3
  <2> QED
    BY <1>23, <2>3, <2>4, RowsKept DEF RowInv, ResolverRaises
<1> QED
  BY <1>1, <1>2, <1>3, <1>4, <1>5, <1>6, <1>7, <1>8, <1>9, <1>10, <1>11, <1>12, <1>13, <1>14, <1>15, <1>16, <1>17, <1>18, <1>19, <1>20, <1>21, <1>22, <1>23 DEF Next, ThreadStep, CallStep, Environment

\* Nobody registers an Event, and those that stay registered may.
LEMMA RegisteredKept ==
    ASSUME EventInv, events' \subseteq events,
           \A a \in events' : Registered(a) => Registered(a)'
    PROVE  EventInv'
  BY DEF EventInv

\* The invariant of the Events.
LEMMA EventStepKept ==
    ASSUME TypeOK, ThreadInv, RowInv, EventInv, CallInv, Next
    PROVE  EventInv'
<1> USE ActorsAssumption
<1>1. ASSUME NEW t \in Tasks, CreateTask(t) PROVE EventInv'
  <2>1. \A s \in Tasks : thread'[s] = IF s = t THEN "start" ELSE thread[s]
    BY <1>1 DEF TypeOK, CreateTask, Goto
  <2> QED
    BY <1>1, <2>1, RegisteredKept DEF TypeOK, Registered, Abandoned, Approvals, CreateTask, Goto
<1>2. ASSUME NEW t \in Tasks, StartRun(t) PROVE EventInv'
  <2>1. \A s \in Tasks : thread'[s] = IF s = t THEN "run" ELSE thread[s]
    BY <1>2 DEF TypeOK, StartRun, Goto
  <2> QED
    BY <1>2, <2>1, RegisteredKept DEF TypeOK, Registered, Abandoned, Approvals, StartRun, Goto
<1>3. ASSUME NEW t \in Tasks, ThreadDies(t) PROVE EventInv'
  <2>1. \A s \in Tasks : thread'[s] = IF s = t THEN "dead" ELSE thread[s]
    BY <1>3 DEF TypeOK, ThreadDies, Goto
  <2> QED
    BY <1>3, <2>1, RegisteredKept DEF TypeOK, Registered, Abandoned, Approvals, ThreadDies, Goto
<1>4. ASSUME NEW t \in Tasks, WriteTaskState(t) PROVE EventInv'
  <2>1. \A s \in Tasks : thread'[s] = IF s = t THEN "done" ELSE thread[s]
    BY <1>4 DEF TypeOK, WriteTaskState, Goto
  <2> QED
    BY <1>4, <2>1, RegisteredKept DEF TypeOK, Registered, Abandoned, Approvals, WriteTaskState, Goto
<1>5. ASSUME NEW t \in Tasks, Cancel(t) PROVE EventInv'
  BY <1>5, RegisteredKept DEF Registered, Abandoned, Cancel
<1>6. ASSUME NEW t \in Tasks, AskApproval(t) PROVE EventInv'
  <2>1. \A s \in Tasks : s # t => thread'[s] = thread[s] /\ asked'[s] = asked[s]
    BY <1>6 DEF TypeOK, AskApproval, Goto
  <2>2. \A a \in events : a[1] # t
    BY <1>6 DEF EventInv, Registered, Abandoned, AskApproval, Goto
  <2> QED
    BY <1>6, <2>1, <2>2, RegisteredKept DEF TypeOK, Registered, Abandoned, Approvals, AskApproval
<1>7. ASSUME NEW t \in Tasks, RegisterEvent(t) PROVE EventInv'
  <2>1. \A s \in Tasks : thread'[s] = IF s = t THEN "insert" ELSE thread[s]
    BY <1>7 DEF TypeOK, RegisterEvent, Goto
  <2>2. \A a \in events : a[1] # t
    BY <1>7 DEF EventInv, Registered, Abandoned, RegisterEvent, Goto
  <2>3. ASSUME NEW a \in events PROVE Registered(a)'
    BY <1>7, <2>1, <2>2 DEF TypeOK, EventInv, Registered, Abandoned, Approvals, RegisterEvent
  <2>4. ASSUME NEW a, a = Current(t) PROVE Registered(a)'
    BY <1>7, <2>1, <2>4 DEF Registered, Current, RegisterEvent
  <2> QED
    BY <1>7, <2>3, <2>4 DEF EventInv, RegisterEvent
<1>8. ASSUME NEW t \in Tasks, InsertRow(t) PROVE EventInv'
  <2>1. \A s \in Tasks : thread'[s] = IF s = t THEN "wait" ELSE thread[s]
    BY <1>8 DEF TypeOK, InsertRow, Goto
  <2>2. \A a \in Approvals : a[1] # t => row'[a] = row[a]
    BY <1>8 DEF TypeOK, InsertRow, Current
  <2> QED
    BY <1>8, <2>1, <2>2, RegisteredKept DEF TypeOK, Registered, Abandoned, Approvals, InsertRow, Goto
<1>9. ASSUME NEW t \in Tasks, InsertRaises(t) PROVE EventInv'
  <2>1. \A s \in Tasks : thread'[s] = IF s = t THEN "finish" ELSE thread[s]
    BY <1>9 DEF TypeOK, InsertRaises, Goto
  <2>2. \A s \in Tasks : reason'[s] = IF s = t THEN "INTERNAL_ERROR" ELSE reason[s]
    BY <1>9 DEF TypeOK, InsertRaises
  <2>3. row[Current(t)] = "absent"
    <3>1. Fresh(Current(t)) /\ Current(t) \in Approvals
      BY <1>9, CurrentExists DEF Fresh, Current, InsertRaises, Goto
    <3> QED
      BY <3>1 DEF RowInv
  <2>4. ASSUME NEW a \in events, Registered(a) PROVE Registered(a)'
    <3>1. CASE a[1] = t
      <4>1. a = Current(t)
        BY <2>4, <3>1 DEF Registered, Current, TypeOK, Approvals
      <4> QED
        BY <1>9, <2>1, <2>2, <2>3, <2>4, <3>1, <4>1 DEF Registered, Abandoned, InsertRaises
    <3>2. CASE a[1] # t
      BY <1>9, <2>1, <2>2, <2>4, <3>2 DEF TypeOK, Registered, Abandoned, Approvals, InsertRaises
    <3> QED
      BY <3>1, <3>2
  <2> QED
    BY <1>9, <2>4, RegisteredKept DEF InsertRaises
<1>10. ASSUME NEW t \in Tasks, WaitReturns(t) PROVE EventInv'
  <2>1. \A s \in Tasks : thread'[s] = IF s = t THEN "decided" ELSE thread[s]
    BY <1>10 DEF TypeOK, WaitReturns, Goto
  <2> QED
    BY <1>10, <2>1, RegisteredKept DEF TypeOK, Registered, Abandoned, Approvals, WaitReturns, Goto
<1>11. ASSUME NEW t \in Tasks, WaitTimesOut(t) PROVE EventInv'
  <2>1. \A s \in Tasks : thread'[s] = IF s = t THEN "timeout" ELSE thread[s]
    BY <1>11 DEF TypeOK, WaitTimesOut, Goto
  <2> QED
    BY <1>11, <2>1, RegisteredKept DEF TypeOK, Registered, Abandoned, Approvals, WaitTimesOut, Goto
<1>12. ASSUME NEW t \in Tasks, RejectOverdue(t) PROVE EventInv'
  <2>1. \A s \in Tasks : thread'[s] = IF s = t THEN "popTimeout" ELSE thread[s]
    BY <1>12 DEF TypeOK, RejectOverdue, Goto
  <2>2. \A a \in Approvals : a[1] # t => row'[a] = row[a]
    BY <1>12 DEF TypeOK, RejectOverdue, Current
  <2> QED
    BY <1>12, <2>1, <2>2, RegisteredKept DEF TypeOK, Registered, Abandoned, Approvals, RejectOverdue, Goto
<1>13. ASSUME NEW t \in Tasks, ReturnOverdue(t) PROVE EventInv'
  <2>1. \A s \in Tasks : thread'[s] = IF s = t THEN "run" ELSE thread[s]
    BY <1>13 DEF TypeOK, ReturnOverdue, Goto
  <2>2. \A a \in events' : a[1] # t
    BY <1>13 DEF TypeOK, EventInv, Registered, Current, Approvals, ReturnOverdue
  <2> QED
    BY <1>13, <2>1, <2>2, RegisteredKept DEF TypeOK, Registered, Abandoned, Approvals, ReturnOverdue
<1>14. ASSUME NEW t \in Tasks, ForgetEvent(t) PROVE EventInv'
  <2>1. \A s \in Tasks : thread'[s] = IF s = t THEN "reread" ELSE thread[s]
    BY <1>14 DEF TypeOK, ForgetEvent, Goto
  <2>2. \A a \in events' : a[1] # t
    BY <1>14 DEF TypeOK, EventInv, Registered, Current, Approvals, ForgetEvent
  <2> QED
    BY <1>14, <2>1, <2>2, RegisteredKept DEF TypeOK, Registered, Abandoned, Approvals, ForgetEvent
<1>15. ASSUME NEW t \in Tasks, ReturnDecided(t) PROVE EventInv'
  <2>1. \A s \in Tasks : thread'[s] = IF s = t THEN "run" ELSE thread[s]
    BY <1>15 DEF TypeOK, ReturnDecided, Goto
  <2> QED
    BY <1>15, <2>1, RegisteredKept DEF TypeOK, Registered, Abandoned, Approvals, ReturnDecided, Goto
<1>16. ASSUME NEW t \in Tasks, NEW r \in Reasons, HarnessEnds(t, r) PROVE EventInv'
  <2>1. \A s \in Tasks : thread'[s] = IF s = t THEN "finish" ELSE thread[s]
    BY <1>16 DEF TypeOK, HarnessEnds, Goto
  <2> QED
    BY <1>16, <2>1, RegisteredKept DEF TypeOK, Registered, Abandoned, Approvals, HarnessEnds, Goto
<1>17. ASSUME NEW u \in Users, UpdateRow(u) PROVE EventInv'
  <2>1. \A a \in Approvals : row[a] = "absent" => row'[a] = "absent"
    BY <1>17 DEF TypeOK, CallInv, UpdateRow
  <2> QED
    BY <1>17, <2>1, RegisteredKept DEF TypeOK, Registered, Abandoned, UpdateRow
<1>18. ASSUME NEW u \in Users, LookupEvent(u) \/ SetEvent(u) \/ UpdateRaises(u) PROVE EventInv'
  BY <1>18, RegisteredKept DEF Registered, Abandoned, LookupEvent, SetEvent, UpdateRaises
<1>21. ASSUME NEW u \in Users, NEW b \in Approvals, NEW v \in Verdicts, StartDecide(u, b, v)
      PROVE  EventInv'
  BY <1>21, RegisteredKept DEF Registered, Abandoned, StartDecide
<1>22. CASE Crash
  BY <1>22 DEF EventInv, Crash
<1>23. ASSUME NEW t \in Tasks, ResolverRaises(t) PROVE EventInv'
  <2>1. \A s \in Tasks : thread'[s] = IF s = t THEN "finish" ELSE thread[s]
    BY <1>23 DEF TypeOK, ResolverRaises
  <2>2. \A s \in Tasks : reason'[s] = IF s = t THEN "INTERNAL_ERROR" ELSE reason[s]
    BY <1>23 DEF TypeOK, ResolverRaises
  <2>3. ASSUME NEW a \in events, Registered(a) PROVE Registered(a)'
    <3>1. CASE a[1] = t
      <4>1. a = Current(t) /\ thread[t] = "timeout"
        BY <1>23, <2>3, <3>1 DEF Registered, Abandoned, Current, TypeOK, Approvals, ResolverRaises
      <4>2. a \in overdue
        BY <4>1 DEF ThreadInv
      <4> QED
        BY <1>23, <2>1, <2>2, <2>3, <3>1, <4>2 DEF Registered, Abandoned, ResolverRaises
    <3>2. CASE a[1] # t
      BY <1>23, <2>1, <2>2, <2>3, <3>2 DEF TypeOK, Registered, Abandoned, Approvals, ResolverRaises
    <3> QED
      BY <3>1, <3>2
  <2> QED
    BY <1>23, <2>3, RegisteredKept DEF ResolverRaises
<1> QED
  BY <1>1, <1>2, <1>3, <1>4, <1>5, <1>6, <1>7, <1>8, <1>9, <1>10, <1>11, <1>12, <1>13, <1>14, <1>15, <1>16, <1>17, <1>18, <1>21, <1>22, <1>23 DEF Next, ThreadStep, CallStep, Environment

\* A step that concerns neither the calls nor the Events, and after which nobody waits who
\* did not wait for the same row before, loses no wakeup.
LEMMA SameWakeup ==
    ASSUME NoLostWakeup, UNCHANGED <<caller, fired>>,
           \A s \in Tasks : thread'[s] = "wait" /\ row'[Current(s)'] # "PENDING" =>
               thread[s] = "wait" /\ Current(s)' = Current(s) /\ row[Current(s)] # "PENDING"
    PROVE  NoLostWakeup'
<1>1. \A a : InFlight(a) => InFlight(a)'
  BY DEF InFlight
<1> QED
  BY <1>1 DEF NoLostWakeup

\* No wakeup is lost by a step.
LEMMA WakeupStepKept ==
    ASSUME TypeOK, ThreadInv, RowInv, CallInv, NoLostWakeup, Next
    PROVE  NoLostWakeup'
<1> USE ActorsAssumption, ServiceAssumption
<1>1. ASSUME NEW t \in Tasks, CreateTask(t) PROVE NoLostWakeup'
  BY <1>1, SameWakeup DEF TypeOK, Current, CreateTask, Goto
<1>2. ASSUME NEW t \in Tasks, StartRun(t) PROVE NoLostWakeup'
  BY <1>2, SameWakeup DEF TypeOK, Current, StartRun, Goto
<1>3. ASSUME NEW t \in Tasks, ThreadDies(t) PROVE NoLostWakeup'
  BY <1>3, SameWakeup DEF TypeOK, Current, ThreadDies, Goto
<1>4. ASSUME NEW t \in Tasks, WriteTaskState(t) PROVE NoLostWakeup'
  BY <1>4, SameWakeup DEF TypeOK, Current, WriteTaskState, Goto
<1>5. ASSUME NEW t \in Tasks, Cancel(t) PROVE NoLostWakeup'
  BY <1>5, SameWakeup DEF TypeOK, Current, Cancel, Goto
<1>6. ASSUME NEW t \in Tasks, AskApproval(t) PROVE NoLostWakeup'
  BY <1>6, SameWakeup DEF TypeOK, Current, AskApproval, Goto
<1>7. ASSUME NEW t \in Tasks, RegisterEvent(t) PROVE NoLostWakeup'
  BY <1>7, SameWakeup DEF TypeOK, Current, RegisterEvent, Goto
<1>8. ASSUME NEW t \in Tasks, InsertRow(t) PROVE NoLostWakeup'
  <2>1. Current(t) \in Approvals
    BY <1>8, CurrentExists DEF InsertRow, Goto
  <2>2. row'[Current(t)] = "PENDING"
    BY <1>8, <2>1 DEF TypeOK, InsertRow
  <2>3. ASSUME NEW s \in Tasks, s # t PROVE thread'[s] = thread[s] /\ row'[Current(s)] = row[Current(s)]
    BY <1>8, <2>3 DEF TypeOK, InsertRow, Goto, Current
  <2> QED
    BY <1>8, <2>2, <2>3, SameWakeup DEF Current, InsertRow
<1>9. ASSUME NEW t \in Tasks, InsertRaises(t) PROVE NoLostWakeup'
  BY <1>9, SameWakeup DEF TypeOK, Current, InsertRaises, Goto
<1>10. ASSUME NEW t \in Tasks, WaitReturns(t) PROVE NoLostWakeup'
  BY <1>10, SameWakeup DEF TypeOK, Current, WaitReturns, Goto
<1>11. ASSUME NEW t \in Tasks, WaitTimesOut(t) PROVE NoLostWakeup'
  BY <1>11, SameWakeup DEF TypeOK, Current, WaitTimesOut, Goto
<1>12. ASSUME NEW t \in Tasks, RejectOverdue(t) PROVE NoLostWakeup'
  BY <1>12, SameWakeup DEF TypeOK, Current, RejectOverdue, Goto
<1>13. ASSUME NEW t \in Tasks, ReturnOverdue(t) PROVE NoLostWakeup'
  BY <1>13, SameWakeup DEF TypeOK, Current, ReturnOverdue, Goto
<1>14. ASSUME NEW t \in Tasks, ForgetEvent(t) PROVE NoLostWakeup'
  BY <1>14, SameWakeup DEF TypeOK, Current, ForgetEvent, Goto
<1>15. ASSUME NEW t \in Tasks, ReturnDecided(t) PROVE NoLostWakeup'
  BY <1>15, SameWakeup DEF TypeOK, Current, ReturnDecided, Goto
<1>16. ASSUME NEW t \in Tasks, NEW r \in Reasons, HarnessEnds(t, r) PROVE NoLostWakeup'
  BY <1>16, SameWakeup DEF TypeOK, Current, HarnessEnds, Goto
<1>17. ASSUME NEW u \in Users, UpdateRow(u) PROVE NoLostWakeup'
  <2>1. \A v \in Users : caller'[v] = IF v = u THEN [caller[u] EXCEPT !.at = "lookup"] ELSE caller[v]
    BY <1>17 DEF TypeOK, UpdateRow, Call
  <2>2. caller'[u].id = caller[u].id /\ caller'[u].at = "lookup"
    BY <1>17, <2>1 DEF TypeOK, UpdateRow, Idle
  <2>3. \A a : InFlight(a) => InFlight(a)'
    BY <1>17, <2>1 DEF InFlight, UpdateRow
  <2>4. InFlight(caller[u].id)'
    BY <2>2 DEF InFlight
  <2>5. \A a \in Approvals : a # caller[u].id => row'[a] = row[a]
    BY <1>17 DEF TypeOK, UpdateRow
  <2> QED
    <3> SUFFICES ASSUME NEW s \in Tasks, thread'[s] = "wait", row'[Current(s)'] # "PENDING"
                 PROVE  Current(s)' \in fired' \/ InFlight(Current(s))'
      BY DEF NoLostWakeup, Current
    <3>1. thread[s] = "wait" /\ Current(s)' = Current(s) /\ fired' = fired
      BY <1>17 DEF UpdateRow, Current
    <3>2. Current(s) \in Approvals
      BY <3>1, CurrentExists DEF Waiting
    <3>3. CASE Current(s) = caller[u].id
      BY <2>2, <3>1, <3>3, <1>17 DEF InFlight, UpdateRow
    <3>4. CASE Current(s) # caller[u].id
      <4>1. row[Current(s)] # "PENDING"
        BY <2>5, <3>1, <3>2, <3>4
      <4>2. Current(s) \in fired \/ \E v \in Users : caller[v].id = Current(s) /\ caller[v].at \in {"lookup", "set"}
        BY <3>1, <4>1 DEF NoLostWakeup, InFlight
      <4>3. \A v \in Users : caller[v].at \in {"lookup", "set"} => caller'[v] = caller[v]
        BY <1>17, <2>1 DEF UpdateRow
      <4> QED
        BY <3>1, <4>2, <4>3 DEF InFlight
    <3> QED
      BY <3>3, <3>4
<1>18. ASSUME NEW u \in Users, LookupEvent(u) PROVE NoLostWakeup'
  <2>1. ASSUME NEW s \in Tasks, thread[s] = "wait", InFlight(Current(s))
        PROVE  InFlight(Current(s))'
    <3>1. Current(s) \in events
      BY <2>1 DEF ThreadInv
    <3>2. PICK v \in Users : caller[v].id = Current(s) /\ caller[v].at \in {"lookup", "set"}
      BY <2>1 DEF InFlight
    <3>3. CASE v = u
      <4>1. caller' = [caller EXCEPT ![u] = [caller[u] EXCEPT !.at = "set"]]
        BY <1>18, <3>1, <3>2, <3>3 DEF LookupEvent, Call
      <4>2. caller[u] \in [at : {"update", "lookup", "set"}, id : Approvals, verdict : Verdicts]
        BY <1>18 DEF TypeOK, LookupEvent, Idle
      <4>3. caller'[u].id = caller[u].id /\ caller'[u].at = "set"
        BY <4>1, <4>2 DEF TypeOK
      <4> QED
        BY <1>18, <3>2, <3>3, <4>3 DEF InFlight, Current, LookupEvent
    <3>4. CASE v # u
      BY <1>18, <3>2, <3>4 DEF TypeOK, InFlight, Current, LookupEvent, Call, Return
    <3> QED
      BY <3>3, <3>4
  <2> QED
    BY <1>18, <2>1 DEF NoLostWakeup, LookupEvent, Current
<1>19. ASSUME NEW u \in Users, SetEvent(u) PROVE NoLostWakeup'
  <2>1. \A a : InFlight(a) => InFlight(a)' \/ a = caller[u].id
    BY <1>19 DEF TypeOK, InFlight, SetEvent, Return
  <2> QED
    BY <1>19, <2>1 DEF NoLostWakeup, SetEvent, Current
<1>20. ASSUME NEW u \in Users, UpdateRaises(u) PROVE NoLostWakeup'
  <2>1. \A a : InFlight(a) => InFlight(a)'
    BY <1>20 DEF TypeOK, InFlight, UpdateRaises, Return
  <2> QED
    BY <1>20, <2>1 DEF NoLostWakeup, UpdateRaises, Current
<1>21. ASSUME NEW u \in Users, NEW b \in Approvals, NEW v \in Verdicts, StartDecide(u, b, v)
      PROVE  NoLostWakeup'
  <2>1. \A a : InFlight(a) => InFlight(a)'
    BY <1>21 DEF TypeOK, InFlight, StartDecide, Idle
  <2> QED
    BY <1>21, <2>1 DEF NoLostWakeup, StartDecide, Current
<1>22. CASE Crash
  BY <1>22 DEF TypeOK, NoLostWakeup, Crash
<1>23. ASSUME NEW t \in Tasks, ResolverRaises(t) PROVE NoLostWakeup'
  BY <1>23, SameWakeup DEF TypeOK, Current, ResolverRaises
<1> QED
  BY <1>1, <1>2, <1>3, <1>4, <1>5, <1>6, <1>7, <1>8, <1>9, <1>10, <1>11, <1>12, <1>13, <1>14, <1>15, <1>16, <1>17, <1>18, <1>19, <1>20, <1>21, <1>22, <1>23 DEF Next, ThreadStep, CallStep, Environment

\* Every answer has a cause.
LEMMA CauseStepKept ==
    ASSUME TypeOK, ThreadInv, RowInv, CallInv, OutcomeHasACause, Next
    PROVE  OutcomeHasACause'
<1> USE ActorsAssumption, ServiceAssumption
<1>1. ASSUME NEW t \in Tasks, CreateTask(t) PROVE OutcomeHasACause'
  BY <1>1 DEF OutcomeHasACause, CreateTask
<1>2. ASSUME NEW t \in Tasks, StartRun(t) PROVE OutcomeHasACause'
  BY <1>2 DEF OutcomeHasACause, StartRun
<1>3. ASSUME NEW t \in Tasks, ThreadDies(t) PROVE OutcomeHasACause'
  BY <1>3 DEF OutcomeHasACause, ThreadDies
<1>4. ASSUME NEW t \in Tasks, WriteTaskState(t) PROVE OutcomeHasACause'
  BY <1>4 DEF OutcomeHasACause, WriteTaskState
<1>5. ASSUME NEW t \in Tasks, Cancel(t) PROVE OutcomeHasACause'
  BY <1>5 DEF OutcomeHasACause, Cancel
<1>6. ASSUME NEW t \in Tasks, AskApproval(t) PROVE OutcomeHasACause'
  BY <1>6 DEF OutcomeHasACause, AskApproval
<1>7. ASSUME NEW t \in Tasks, RegisterEvent(t) PROVE OutcomeHasACause'
  BY <1>7 DEF OutcomeHasACause, RegisterEvent
<1>8. ASSUME NEW t \in Tasks, InsertRow(t) PROVE OutcomeHasACause'
  BY <1>8 DEF OutcomeHasACause, InsertRow
<1>9. ASSUME NEW t \in Tasks, InsertRaises(t) PROVE OutcomeHasACause'
  BY <1>9 DEF OutcomeHasACause, InsertRaises
<1>10. ASSUME NEW t \in Tasks, WaitReturns(t) PROVE OutcomeHasACause'
  BY <1>10 DEF OutcomeHasACause, WaitReturns
<1>11. ASSUME NEW t \in Tasks, WaitTimesOut(t) PROVE OutcomeHasACause'
  BY <1>11, CurrentExists DEF TypeOK, ThreadInv, RowInv, OutcomeHasACause, Waiting, Current, Approvals, Verdicts, WaitTimesOut, Goto
<1>12. ASSUME NEW t \in Tasks, RejectOverdue(t) PROVE OutcomeHasACause'
  BY <1>12 DEF OutcomeHasACause, RejectOverdue
<1>13. ASSUME NEW t \in Tasks, ReturnOverdue(t) PROVE OutcomeHasACause'
  BY <1>13, CurrentExists DEF TypeOK, ThreadInv, RowInv, OutcomeHasACause, Waiting, Current, Approvals, Verdicts, ReturnOverdue, Goto
<1>14. ASSUME NEW t \in Tasks, ForgetEvent(t) PROVE OutcomeHasACause'
  BY <1>14 DEF OutcomeHasACause, ForgetEvent
<1>15. ASSUME NEW t \in Tasks, ReturnDecided(t) PROVE OutcomeHasACause'
  <2>1. Current(t) \in Approvals /\ row[Current(t)] \in Verdicts
    BY <1>15, CurrentExists DEF ThreadInv, ReturnDecided, Goto, Waiting
  <2>2. \A a \in Approvals : outcome'[a] = IF a = Current(t) THEN row[a] ELSE outcome[a]
    BY <1>15, <2>1 DEF TypeOK, ReturnDecided, Verdicts
  <2>3. UNCHANGED <<votes, overdue>>
    BY <1>15 DEF ReturnDecided
  <2> QED
    BY <2>2, <2>3 DEF RowInv, OutcomeHasACause
<1>16. ASSUME NEW t \in Tasks, NEW r \in Reasons, HarnessEnds(t, r) PROVE OutcomeHasACause'
  BY <1>16 DEF OutcomeHasACause, HarnessEnds
<1>17. ASSUME NEW u \in Users, UpdateRow(u) PROVE OutcomeHasACause'
  BY <1>17, CurrentExists DEF TypeOK, ThreadInv, RowInv, OutcomeHasACause, Waiting, Current, Approvals, Verdicts, UpdateRow, Call, Return, Idle
<1>18. ASSUME NEW u \in Users, LookupEvent(u) PROVE OutcomeHasACause'
  BY <1>18, CurrentExists DEF TypeOK, ThreadInv, RowInv, OutcomeHasACause, Waiting, Current, Approvals, Verdicts, LookupEvent, Call, Return, Idle
<1>19. ASSUME NEW u \in Users, SetEvent(u) PROVE OutcomeHasACause'
  BY <1>19, CurrentExists DEF TypeOK, ThreadInv, RowInv, OutcomeHasACause, Waiting, Current, Approvals, Verdicts, SetEvent, Call, Return, Idle
<1>20. ASSUME NEW u \in Users, UpdateRaises(u) PROVE OutcomeHasACause'
  BY <1>20, CurrentExists DEF TypeOK, ThreadInv, RowInv, OutcomeHasACause, Waiting, Current, Approvals, Verdicts, UpdateRaises, Call, Return, Idle
<1>21. ASSUME NEW u \in Users, NEW b \in Approvals, NEW v \in Verdicts, StartDecide(u, b, v)
      PROVE  OutcomeHasACause'
  BY <1>21, CurrentExists DEF TypeOK, ThreadInv, RowInv, OutcomeHasACause, Waiting, Current, Approvals, Verdicts, StartDecide, Idle
<1>22. CASE Crash
  BY <1>22, CurrentExists DEF TypeOK, ThreadInv, RowInv, OutcomeHasACause, Waiting, Current, Approvals, Verdicts, Crash, Idle
<1>23. ASSUME NEW t \in Tasks, ResolverRaises(t) PROVE OutcomeHasACause'
  BY <1>23 DEF OutcomeHasACause, ResolverRaises
<1> QED
  BY <1>1, <1>2, <1>3, <1>4, <1>5, <1>6, <1>7, <1>8, <1>9, <1>10, <1>11, <1>12, <1>13, <1>14, <1>15, <1>16, <1>17, <1>18, <1>19, <1>20, <1>21, <1>22, <1>23 DEF Next, ThreadStep, CallStep, Environment

(***************************************************************************)
(* The theorems                                                            *)
(***************************************************************************)
LEMMA InvariantInit == Init => IInv
<1> SUFFICES ASSUME Init PROVE IInv
  OBVIOUS
<1>1. TypeOK
  BY TypeInit
<1>2. ThreadInv /\ NoLostWakeup
  BY DEF Init, ThreadInv, NoLostWakeup, Waiting, Terminal
<1>3. CallInv /\ EventInv
  BY DEF Init, CallInv, EventInv, Idle
<1>4. RowInv /\ OutcomeHasACause
  BY DEF Init, RowInv, OutcomeHasACause
<1> QED
  BY <1>1, <1>2, <1>3, <1>4 DEF IInv

LEMMA InvariantStep ==
    ASSUME IInv, [Next]_vars
    PROVE  IInv'
<1>1. CASE Next
  BY <1>1, TypeStep, ThreadStepKept, RowStepKept, EventStepKept, CallStepKept,
     WakeupStepKept, CauseStepKept DEF IInv
<1>2. CASE UNCHANGED vars
  <2>1. TypeOK' /\ CallInv'
    BY <1>2 DEF IInv, vars, TypeOK, CallInv
  <2>2. ThreadInv' /\ NoLostWakeup'
    BY <1>2 DEF IInv, vars, ThreadInv, NoLostWakeup, InFlight, Current
  <2>3. RowInv' /\ OutcomeHasACause'
    BY <1>2 DEF IInv, vars, RowInv, Fresh, Pends, Abandoned, OutcomeHasACause
  <2>4. EventInv'
    BY <1>2 DEF IInv, vars, EventInv, Registered, Abandoned
  <2> QED
    BY <2>1, <2>2, <2>3, <2>4 DEF IInv
<1> QED
  BY <1>1, <1>2

LEMMA Invariant == Spec => []IInv
<1>1. Init => IInv
  BY InvariantInit
<1>2. IInv /\ [Next]_vars => IInv'
  BY InvariantStep
<1> QED
  BY <1>1, <1>2, PTL DEF Spec

\* Every reachable state of the service is well typed, and the lock is held exactly by the
\* thread or call inside its critical section.
THEOREM ServiceTypeCorrect == Spec => []TypeOK
<1>1. IInv => TypeOK
  BY DEF IInv
<1> QED
  BY <1>1, Invariant, PTL

\* A resolver that waits for a decided row has been, or is being, woken: registering before
\* the insert, and deciding under the same lock, loses no wakeup.
THEOREM NoWakeupIsLost == Spec => []NoLostWakeup
<1>1. IInv => NoLostWakeup
  BY DEF IInv
<1> QED
  BY <1>1, Invariant, PTL

\* The resolver answers only what a user decided, or rejects what timed out.
THEOREM OutcomesHaveCauses == Spec => []OutcomeHasACause
<1>1. IInv => OutcomeHasACause
  BY DEF IInv
<1> QED
  BY <1>1, Invariant, PTL

\* An answered approval is settled in its table and forgotten in memory, and what a task that
\* has ended leaves of an approval is of its last one, whose resolver raised; then the task
\* is FAILED.
THEOREM AnswersAreSettled == Spec => []ResolvedIsSettled
<1>1. IInv => ResolvedIsSettled
  <2> SUFFICES ASSUME IInv, NEW a \in Approvals
               PROVE  /\ outcome[a] # "none" => ~Leftover(a)
                      /\ task[a[1]] \in Terminal /\ Leftover(a)
                             => /\ a = Current(a[1])
                                /\ task[a[1]] = "FAILED" /\ reason[a[1]] = "INTERNAL_ERROR"
                                /\ row[a] # "absent" => a \in overdue
    BY DEF ResolvedIsSettled
  <2>1. a[1] \in Tasks
    BY DEF Approvals
  <2>2. outcome[a] # "none" => ~Leftover(a)
    BY DEF IInv, RowInv, Verdicts, Leftover
  <2>3. ASSUME task[a[1]] \in Terminal, Leftover(a)
        PROVE  /\ a = Current(a[1])
               /\ task[a[1]] = "FAILED" /\ reason[a[1]] = "INTERNAL_ERROR"
               /\ row[a] # "absent" => a \in overdue
    <3>1. thread[a[1]] = "done" /\ task[a[1]] = TerminationToState(reason[a[1]])
      BY <2>1, <2>3 DEF IInv, ThreadInv
    <3>2. Pends(a) \/ Registered(a)
      BY <2>3 DEF IInv, RowInv, EventInv, Leftover
    <3>3. a[2] = asked[a[1]] /\ reason[a[1]] = "INTERNAL_ERROR"
      BY <3>1, <3>2 DEF Pends, Registered, Abandoned
    <3>6. row[a] # "absent" => a \in overdue
      BY <3>1, <3>2 DEF Pends, Registered
    <3>4. a = Current(a[1])
      BY <3>3 DEF Current, Approvals
    <3>5. task[a[1]] = "FAILED"
      BY <3>1, <3>3 DEF TerminationToState
    <3> QED
      BY <3>3, <3>4, <3>5, <3>6
  <2> QED
    BY <2>2, <2>3
<1> QED
  BY <1>1, Invariant, PTL

(***************************************************************************)
(* The handshake implements the approval gate                              *)
(***************************************************************************)
\* A step that changes neither answers nor votes nor deadlines, stores no row and lets no
\* resolver begin or cease to wait is a stutter of the gate.
LEMMA StatusKept ==
    ASSUME UNCHANGED <<outcome, votes, overdue>>,
           \A a \in Approvals : row'[a] = "absent" <=> row[a] = "absent",
           \A t \in Tasks : /\ thread'[t] \in Waiting <=> thread[t] \in Waiting
                            /\ thread[t] \in Waiting => asked'[t] = asked[t]
    PROVE  UNCHANGED Gate!gateVars
<1>1. \A a \in Approvals : Live(a)' <=> Live(a)
  BY DEF Live, Approvals
<1>2. gateStatus' = gateStatus
  BY <1>1 DEF gateStatus
<1>3. gateVotes' = gateVotes
  BY DEF gateVotes
<1> QED
  BY <1>2, <1>3 DEF Gate!gateVars

\* A thread step that is no step of the gate.
LEMMA QuietThreadStep ==
    ASSUME IInv, NEW t \in Tasks,
           \/ CreateTask(t) \/ StartRun(t) \/ ThreadDies(t) \/ WriteTaskState(t) \/ Cancel(t)
           \/ \E r \in Reasons : HarnessEnds(t, r)
           \/ AskApproval(t) \/ RegisterEvent(t) \/ InsertRaises(t)
           \/ WaitReturns(t) \/ RejectOverdue(t) \/ ForgetEvent(t)
    PROVE  UNCHANGED Gate!gateVars
<1>1. TypeOK
  BY DEF IInv
<1>2. CASE CreateTask(t)
  <2>1. \A s \in Tasks : thread'[s] = IF s = t THEN "start" ELSE thread[s]
    BY <1>1, <1>2 DEF TypeOK, CreateTask, Goto
  <2> QED
    BY <1>2, <2>1, StatusKept DEF CreateTask, Goto, Waiting
<1>3. CASE StartRun(t)
  <2>1. \A s \in Tasks : thread'[s] = IF s = t THEN "run" ELSE thread[s]
    BY <1>1, <1>3 DEF TypeOK, StartRun, Goto
  <2> QED
    BY <1>3, <2>1, StatusKept DEF StartRun, Goto, Waiting
<1>4. CASE ThreadDies(t)
  <2>1. \A s \in Tasks : thread'[s] = IF s = t THEN "dead" ELSE thread[s]
    BY <1>1, <1>4 DEF TypeOK, ThreadDies, Goto
  <2> QED
    BY <1>4, <2>1, StatusKept DEF ThreadDies, Goto, Waiting
<1>5. CASE WriteTaskState(t)
  <2>1. \A s \in Tasks : thread'[s] = IF s = t THEN "done" ELSE thread[s]
    BY <1>1, <1>5 DEF TypeOK, WriteTaskState, Goto
  <2> QED
    BY <1>5, <2>1, StatusKept DEF WriteTaskState, Goto, Waiting
<1>6. CASE \E r \in Reasons : HarnessEnds(t, r)
  <2>1. \A s \in Tasks : thread'[s] = IF s = t THEN "finish" ELSE thread[s]
    BY <1>1, <1>6 DEF TypeOK, HarnessEnds, Goto
  <2> QED
    BY <1>6, <2>1, StatusKept DEF HarnessEnds, Goto, Waiting
<1>7. CASE AskApproval(t)
  <2>1. \A s \in Tasks : thread'[s] = IF s = t THEN "register" ELSE thread[s]
    BY <1>1, <1>7 DEF TypeOK, AskApproval, Goto
  <2>2. \A s \in Tasks : s # t => asked'[s] = asked[s]
    BY <1>1, <1>7 DEF TypeOK, AskApproval
  <2> QED
    BY <1>7, <2>1, <2>2, StatusKept DEF AskApproval, Goto, Waiting
<1>8. CASE RegisterEvent(t)
  <2>1. \A s \in Tasks : thread'[s] = IF s = t THEN "insert" ELSE thread[s]
    BY <1>1, <1>8 DEF TypeOK, RegisterEvent, Goto
  <2> QED
    BY <1>8, <2>1, StatusKept DEF RegisterEvent, Goto, Waiting
<1>9. CASE InsertRaises(t)
  <2>1. \A s \in Tasks : thread'[s] = IF s = t THEN "finish" ELSE thread[s]
    BY <1>1, <1>9 DEF TypeOK, InsertRaises, Goto
  <2> QED
    BY <1>9, <2>1, StatusKept DEF InsertRaises, Goto, Waiting
<1>10. CASE WaitReturns(t)
  <2>1. \A s \in Tasks : thread'[s] = IF s = t THEN "decided" ELSE thread[s]
    BY <1>1, <1>10 DEF TypeOK, WaitReturns, Goto
  <2> QED
    BY <1>10, <2>1, StatusKept DEF WaitReturns, Goto, Waiting
<1>11. CASE ForgetEvent(t)
  <2>1. \A s \in Tasks : thread'[s] = IF s = t THEN "reread" ELSE thread[s]
    BY <1>1, <1>11 DEF TypeOK, ForgetEvent, Goto
  <2> QED
    BY <1>11, <2>1, StatusKept DEF ForgetEvent, Goto, Waiting
<1>12. CASE Cancel(t)
  BY <1>12, StatusKept DEF Cancel
<1>13. CASE RejectOverdue(t)
  <2>1. \A s \in Tasks : thread'[s] = IF s = t THEN "popTimeout" ELSE thread[s]
    BY <1>1, <1>13 DEF TypeOK, RejectOverdue, Goto
  <2>2. row[Current(t)] # "absent"
    BY <1>13 DEF IInv, ThreadInv, RejectOverdue, Goto, Waiting
  <2>3. \A a \in Approvals : row'[a] = "absent" <=> row[a] = "absent"
    BY <1>1, <1>13, <2>2 DEF TypeOK, RejectOverdue
  <2> QED
    BY <1>13, <2>1, <2>3, StatusKept DEF RejectOverdue, Goto, Waiting
<1> QED
  BY <1>2, <1>3, <1>4, <1>5, <1>6, <1>7, <1>8, <1>9, <1>10, <1>11, <1>12, <1>13

\* The first three of the four steps of a thread that are steps of the gate: the row of a
\* request is stored, its time runs out, ...
LEMMA InsertAsks ==
    ASSUME IInv, NEW t \in Tasks, InsertRow(t)
    PROVE  Gate!Ask(Current(t)) /\ Current(t) \in Approvals
<1> DEFINE c == Current(t)
<1>1. TypeOK /\ c \in Approvals
  BY CurrentExists DEF IInv, InsertRow, Goto
<1>2. row[c] = "absent" /\ outcome[c] = "none" /\ c \notin overdue
  <2>1. Fresh(c)
    BY DEF Fresh, Current, InsertRow, Goto
  <2> QED
    BY <1>1, <2>1 DEF IInv, RowInv, Verdicts
<1>3. gateStatus[c] = "none"
  BY <1>1, <1>2 DEF gateStatus
<1>4. \A s \in Tasks : thread'[s] = IF s = t THEN "wait" ELSE thread[s]
  BY <1>1 DEF TypeOK, InsertRow, Goto
<1>5. \A a \in Approvals : row'[a] = IF a = c THEN "PENDING" ELSE row[a]
  BY <1>1 DEF TypeOK, InsertRow
<1>6. \A a \in Approvals : a # c => (Live(a)' <=> Live(a))
  BY <1>4 DEF Live, Approvals, Current, InsertRow, Goto, Waiting
<1>7. \A a \in Approvals : a = c => Live(a)'
  BY <1>2, <1>4 DEF Live, Current, InsertRow, Waiting
<1>8. gateStatus' = [gateStatus EXCEPT ![c] = "open"]
  <2>1. \A a \in Approvals : gateStatus'[a] = IF a = c THEN "open" ELSE gateStatus[a]
    BY <1>2, <1>5, <1>6, <1>7 DEF gateStatus, InsertRow
  <2> QED
    BY <2>1 DEF gateStatus
<1>9. gateVotes' = gateVotes
  BY DEF gateVotes, InsertRow
<1> QED
  BY <1>1, <1>3, <1>8, <1>9 DEF Gate!Ask

LEMMA TimeoutExpires ==
    ASSUME IInv, NEW t \in Tasks, WaitTimesOut(t)
    PROVE  Gate!Expire(Current(t)) /\ Current(t) \in Approvals
<1> DEFINE c == Current(t)
<1>1. TypeOK /\ c \in Approvals
  BY CurrentExists DEF IInv, WaitTimesOut, Goto, Waiting
<1>2. row[c] # "absent" /\ outcome[c] = "none" /\ c \notin overdue
  BY DEF IInv, ThreadInv, WaitTimesOut, Goto, Waiting
<1>3. \A s \in Tasks : thread'[s] = IF s = t THEN "timeout" ELSE thread[s]
  BY <1>1 DEF TypeOK, WaitTimesOut, Goto
<1>4. \A a \in Approvals : Live(a)' <=> Live(a)
  BY <1>3 DEF Live, Approvals, WaitTimesOut, Goto, Waiting
<1>5. Live(c)
  BY <1>2 DEF Live, Current, WaitTimesOut, Goto, Waiting
<1>6. gateStatus[c] = "open"
  BY <1>1, <1>2, <1>5 DEF gateStatus
<1>7. gateStatus' = [gateStatus EXCEPT ![c] = "overdue"]
  <2>1. \A a \in Approvals : gateStatus'[a] = IF a = c THEN "overdue" ELSE gateStatus[a]
    BY <1>2, <1>4, <1>5 DEF gateStatus, WaitTimesOut
  <2> QED
    BY <2>1 DEF gateStatus
<1>8. gateVotes' = gateVotes
  BY DEF gateVotes, WaitTimesOut
<1> QED
  BY <1>1, <1>6, <1>7, <1>8 DEF Gate!Expire

\* ... and the resolver answers it: a request that is overdue, or one that was decided.
LEMMA AnswerMoves ==
    ASSUME IInv, NEW t \in Tasks, NEW v \in Verdicts, thread[t] \in {"popTimeout", "reread"},
           thread' = [thread EXCEPT ![t] = "run"], outcome' = [outcome EXCEPT ![Current(t)] = v],
           UNCHANGED <<row, asked, votes, overdue>>
    PROVE  /\ Current(t) \in Approvals
           /\ gateStatus[Current(t)] = IF Current(t) \in overdue THEN "overdue" ELSE "open"
           /\ gateStatus' = [gateStatus EXCEPT ![Current(t)] = Lower(v)]
           /\ gateVotes' = gateVotes
<1> DEFINE c == Current(t)
<1>1. TypeOK /\ c \in Approvals
  BY CurrentExists DEF IInv, Waiting
<1>2. row[c] # "absent" /\ outcome[c] = "none"
  BY DEF IInv, ThreadInv, Waiting
<1>3. Live(c)
  BY <1>2 DEF Live, Current, Waiting
<1>4. gateStatus[c] = IF c \in overdue THEN "overdue" ELSE "open"
  BY <1>1, <1>2, <1>3 DEF gateStatus
<1>5. \A s \in Tasks : thread'[s] = IF s = t THEN "run" ELSE thread[s]
  BY <1>1 DEF TypeOK
<1>6. \A a \in Approvals : outcome'[a] = IF a = c THEN v ELSE outcome[a]
  BY <1>1 DEF TypeOK
<1>7. \A a \in Approvals : a # c => (Live(a)' <=> Live(a))
  BY <1>5, <1>6 DEF Live, Approvals, Current, Waiting
<1>8. gateStatus' = [gateStatus EXCEPT ![c] = Lower(v)]
  <2>1. v # "none"
    BY DEF Verdicts
  <2>2. \A a \in Approvals : gateStatus'[a] = IF a = c THEN Lower(v) ELSE gateStatus[a]
    BY <1>2, <1>6, <1>7, <2>1 DEF gateStatus
  <2>3. /\ gateStatus = [a \in Approvals |-> gateStatus[a]]
        /\ gateStatus' = [a \in Approvals |-> gateStatus'[a]]
    BY DEF gateStatus
  <2> HIDE DEF c
  <2> QED
    BY <2>2, <2>3
<1>9. gateVotes' = gateVotes
  BY DEF gateVotes
<1> QED
  BY <1>1, <1>4, <1>8, <1>9

LEMMA OverdueAnswers ==
    ASSUME IInv, NEW t \in Tasks, ReturnOverdue(t)
    PROVE  Gate!Answer(Current(t), "rejected") /\ Current(t) \in Approvals
<1>1. Current(t) \in overdue
  BY DEF IInv, ThreadInv, ReturnOverdue, Goto
<1>2. "REJECTED" \in Verdicts /\ Lower("REJECTED") = "rejected"
  BY DEF Verdicts, Lower
<1> QED
  BY <1>1, <1>2, AnswerMoves DEF ReturnOverdue, Goto, Gate!Answer

LEMMA DecidedAnswers ==
    ASSUME IInv, NEW t \in Tasks, ReturnDecided(t)
    PROVE  /\ \E verdict \in {"approved", "rejected"} : Gate!Answer(Current(t), verdict)
           /\ Current(t) \in Approvals
<1> DEFINE c == Current(t)
           v == IF row[c] = "APPROVED" THEN "APPROVED" ELSE "REJECTED"
<1>1. c \in Approvals /\ c \notin overdue /\ row[c] \in Verdicts
  BY CurrentExists DEF IInv, ThreadInv, ReturnDecided, Goto, Waiting
<1>2. v \in Verdicts /\ v \in votes[c]
  BY <1>1 DEF IInv, RowInv, Verdicts
<1>3. Lower(v) \in gateVotes[c] /\ Lower(v) \in {"approved", "rejected"}
  BY <1>1, <1>2 DEF gateVotes, Lower
<1>4. outcome' = [outcome EXCEPT ![c] = v]
  BY DEF ReturnDecided
<1> HIDE DEF v
<1>5. gateStatus[c] = "open" /\ gateStatus' = [gateStatus EXCEPT ![c] = Lower(v)] /\ gateVotes' = gateVotes
  BY <1>1, <1>2, <1>4, AnswerMoves DEF ReturnDecided, Goto
<1>6. Gate!Answer(c, Lower(v))
  BY <1>3, <1>5 DEF Gate!Answer
<1> QED
  BY <1>1, <1>3, <1>6

\* decide() writes a vote, on whatever has been asked.
LEMMA UpdateVotes ==
    ASSUME IInv, NEW u \in Users, UpdateRow(u)
    PROVE  \E r \in Approvals, verdict \in {"approved", "rejected"} : Gate!Vote(r, verdict)
<1> DEFINE c == caller[u].id
           v == caller[u].verdict
<1>1. c \in Approvals /\ v \in Verdicts /\ row[c] # "absent"
  BY DEF IInv, TypeOK, CallInv, UpdateRow, Idle
<1> HIDE DEF c, v
<1>2. \A a \in Approvals : row'[a] = IF a = c THEN v ELSE row[a]
  BY <1>1 DEF IInv, TypeOK, UpdateRow, c, v
<1>3. \A a \in Approvals : votes'[a] = IF a = c THEN votes[c] \cup {v} ELSE votes[a]
  BY <1>1 DEF IInv, TypeOK, UpdateRow, c, v
<1>4. \A a \in Approvals : Live(a)' <=> Live(a)
  BY DEF Live, UpdateRow
<1>5. gateStatus' = gateStatus
  <2>1. \A a \in Approvals : gateStatus'[a] = gateStatus[a]
    BY <1>1, <1>2, <1>4 DEF gateStatus, UpdateRow, Verdicts
  <2> QED
    BY <2>1 DEF gateStatus
<1>6. gateVotes' = [gateVotes EXCEPT ![c] = @ \cup {Lower(v)}]
  <2>1. {Lower(w) : w \in votes[c] \cup {v}} = {Lower(w) : w \in votes[c]} \cup {Lower(v)}
    OBVIOUS
  <2>2. \A a \in Approvals :
            gateVotes'[a] = IF a = c THEN gateVotes[c] \cup {Lower(v)} ELSE gateVotes[a]
    BY <1>3, <2>1 DEF gateVotes
  <2> QED
    BY <1>1, <2>2 DEF gateVotes
<1>7. gateStatus[c] # "none"
  BY <1>1 DEF gateStatus, Lower
<1>8. Lower(v) \in {"approved", "rejected"}
  BY DEF Lower
<1> QED
  BY <1>1, <1>5, <1>6, <1>7, <1>8 DEF Gate!Vote

\* The other steps of a call do not concern the gate.
LEMMA QuietCallStep ==
    ASSUME NEW u \in Users,
           \/ LookupEvent(u) \/ SetEvent(u) \/ UpdateRaises(u)
           \/ \E a \in Approvals, v \in Verdicts : StartDecide(u, a, v)
    PROVE  UNCHANGED Gate!gateVars
  BY StatusKept DEF LookupEvent, SetEvent, UpdateRaises, StartDecide

\* A crash abandons the requests that somebody waits for.
LEMMA CrashAbandons ==
    ASSUME IInv, Crash
    PROVE  \E rs \in SUBSET Approvals : Gate!Abandon(rs)
<1> DEFINE rs == {a \in Approvals : row[a] # "absent" /\ Live(a)}
<1>1. \A t \in Tasks : thread'[t] \notin Waiting
  BY DEF Crash, Waiting
<1>2. \A a \in Approvals : ~Live(a)'
  BY <1>1 DEF Live, Approvals
<1>3. \A r \in rs : Gate!Unanswered(r)
  BY DEF gateStatus, Live, Gate!Unanswered
<1>4. \A a \in Approvals : gateStatus'[a] = IF a \in rs THEN "abandoned" ELSE gateStatus[a]
  BY <1>2 DEF gateStatus, Crash, Live
<1>5. gateStatus' = [a \in Approvals |-> IF a \in rs THEN "abandoned" ELSE gateStatus[a]]
  <2> HIDE DEF rs
  <2> QED
    BY <1>4 DEF gateStatus
<1>6. gateVotes' = gateVotes
  BY DEF gateVotes, Crash
<1> QED
  BY <1>3, <1>5, <1>6 DEF Gate!Abandon

\* A resolver that raises abandons its request.
LEMMA RaisingAbandons ==
    ASSUME IInv, NEW t \in Tasks, ResolverRaises(t)
    PROVE  \E rs \in SUBSET Approvals : Gate!Abandon(rs)
<1> DEFINE c == Current(t)
<1>1. TypeOK /\ c \in Approvals
  BY CurrentExists DEF IInv, ResolverRaises, Waiting
<1>2. row[c] # "absent" /\ outcome[c] = "none" /\ Live(c)
  BY DEF IInv, ThreadInv, ResolverRaises, Waiting, Live, Current
<1>3. \A s \in Tasks : thread'[s] = IF s = t THEN "finish" ELSE thread[s]
  BY <1>1 DEF TypeOK, ResolverRaises
<1>4. \A a \in Approvals : Live(a)' <=> Live(a) /\ a # c
  BY <1>3 DEF Live, Approvals, Current, ResolverRaises, Waiting
<1>5. Gate!Unanswered(c)
  BY <1>1, <1>2 DEF gateStatus, Gate!Unanswered
<1>6. \A a \in Approvals : gateStatus'[a] = IF a \in {c} THEN "abandoned" ELSE gateStatus[a]
  BY <1>2, <1>4 DEF gateStatus, ResolverRaises
<1>7. gateStatus' = [a \in Approvals |-> IF a \in {c} THEN "abandoned" ELSE gateStatus[a]]
  <2> HIDE DEF c
  <2> QED
    BY <1>6 DEF gateStatus
<1>8. gateVotes' = gateVotes
  BY DEF gateVotes, ResolverRaises
<1>9. Gate!Abandon({c})
  BY <1>5, <1>7, <1>8 DEF Gate!Abandon
<1> QED
  BY <1>1, <1>9

LEMMA GateInitHolds == Init => Gate!GateInit
<1> SUFFICES ASSUME Init PROVE Gate!GateInit
  OBVIOUS
<1>1. \A a \in Approvals : gateStatus[a] = "none" /\ gateVotes[a] = {}
  BY DEF Init, gateStatus, gateVotes
<1> QED
  BY <1>1 DEF Gate!GateInit, gateStatus, gateVotes

LEMMA GateStepHolds ==
    ASSUME IInv, [Next]_vars
    PROVE  [Gate!GateNext]_(Gate!gateVars)
<1>1. CASE \E t \in Tasks : InsertRow(t)
  BY <1>1, InsertAsks DEF Gate!GateNext
<1>2. CASE \E t \in Tasks : WaitTimesOut(t)
  BY <1>2, TimeoutExpires DEF Gate!GateNext
<1>3. CASE \E t \in Tasks : ReturnOverdue(t)
  BY <1>3, OverdueAnswers DEF Gate!GateNext
<1>4. CASE \E t \in Tasks : ReturnDecided(t)
  BY <1>4, DecidedAnswers DEF Gate!GateNext
<1>5. CASE \E u \in Users : UpdateRow(u)
  BY <1>5, UpdateVotes DEF Gate!GateNext
<1>6. CASE Crash
  BY <1>6, CrashAbandons DEF Gate!GateNext
<1>7. CASE \E t \in Tasks :
              \/ CreateTask(t) \/ StartRun(t) \/ ThreadDies(t) \/ WriteTaskState(t) \/ Cancel(t)
              \/ \E r \in Reasons : HarnessEnds(t, r)
              \/ AskApproval(t) \/ RegisterEvent(t) \/ InsertRaises(t)
              \/ WaitReturns(t) \/ RejectOverdue(t) \/ ForgetEvent(t)
  BY <1>7, QuietThreadStep
<1>8. CASE \E u \in Users :
              \/ LookupEvent(u) \/ SetEvent(u) \/ UpdateRaises(u)
              \/ \E a \in Approvals, v \in Verdicts : StartDecide(u, a, v)
  BY <1>8, QuietCallStep
<1>9. CASE UNCHANGED vars
  BY <1>9, StatusKept DEF vars
<1>10. CASE \E t \in Tasks : ResolverRaises(t)
  BY <1>10, RaisingAbandons DEF Gate!GateNext
<1> QED
  BY <1>1, <1>2, <1>3, <1>4, <1>5, <1>6, <1>7, <1>8, <1>9, <1>10
     DEF Next, ThreadStep, CallStep, Environment

\* The handshake of Event, lock and row implements the abstract gate, for every set of tasks
\* and users: a request is answered at most once, with a vote cast before the answer or with
\* a rejection after its time ran out, and never after its process is gone.
THEOREM ImplementsGate == Spec => GateImplemented
<1>1. Init => Gate!GateInit
  BY GateInitHolds
<1>2. IInv /\ [Next]_vars => [Gate!GateNext]_(Gate!gateVars)
  BY GateStepHolds
<1> QED
  BY <1>1, <1>2, Invariant, PTL DEF Spec, GateImplemented, Gate!GateSpec
(***************************************************************************)
(* Tasks come to an end                                                    *)
(***************************************************************************)
\* How far a point of the thread is from its end when it asks for nothing more.
Rank(point) ==
    IF point \in {"done", "dead", "lost"} THEN 0
    ELSE IF point = "finish" THEN 1
    ELSE IF point = "run" THEN 2
    ELSE IF point \in {"start", "popTimeout", "reread"} THEN 3
    ELSE IF point \in {"none", "timeout", "decided"} THEN 4
    ELSE IF point = "wait" THEN 5
    ELSE IF point = "insert" THEN 6
    ELSE 7

\* Every approval the run can still ask for takes at most six steps more.
Work(t) == 6 * (MaxApprovals - asked[t]) + Rank(thread[t])

\* Every step of a thread uses some of its work up, and nobody gives it more.
WorkIsUsedUp ==
    [][\A t \in Tasks : Work(t)' <= Work(t) /\ (ThreadStep(t) => Work(t)' < Work(t))]_vars

\* A thread with no work left has written a terminal row, or died before it could.
WorkDoneIsSettled ==
    \A t \in Tasks :
        /\ Work(t) \in Nat
        /\ Work(t) = 0 => task[t] \in Terminal \/ thread[t] \in {"dead", "lost"}

\* The row of a task is written when it is created and when its thread ends, by nobody else.
RowFollowsThread ==
    \A t \in Tasks :
        /\ task[t] = "absent" <=> thread[t] = "none"
        /\ task[t] \in Terminal <=> thread[t] = "done"

\* A task row that says how the task ended says so for ever.
TaskRowIsFinal == [][\A t \in Tasks : task[t] \in Terminal => task'[t] = task[t]]_vars

\* The list of pending approvals shows at most one request of a task.
OnePendingPerTask ==
    \A a, b \in Approvals : row[a] = "PENDING" /\ row[b] = "PENDING" /\ a[1] = b[1] => a = b

\* What a step of the thread of one task does to its point and its count of approvals.
Moves(t) ==
    \/ /\ asked' = asked
       /\ \E to \in ThreadPoints :
             thread' = [thread EXCEPT ![t] = to] /\ Rank(to) < Rank(thread[t])
    \/ /\ asked[t] < MaxApprovals /\ asked' = [asked EXCEPT ![t] = @ + 1]
       /\ thread[t] = "run" /\ thread' = [thread EXCEPT ![t] = "register"]

LEMMA ThreadMoves ==
    ASSUME NEW t \in Tasks,
           ThreadStep(t) \/ CreateTask(t) \/ ThreadDies(t) \/ InsertRaises(t) \/ ResolverRaises(t)
    PROVE  Moves(t)
<1> USE DEF Goto, ThreadPoints
<1>1. CASE AskApproval(t)
  BY <1>1 DEF AskApproval, Moves
<1>2. CASE ThreadStep(t) /\ ~AskApproval(t)
  <2>1. asked' = asked
    BY <1>2 DEF ThreadStep, StartRun, WriteTaskState, HarnessEnds, RegisterEvent, InsertRow,
                WaitReturns, WaitTimesOut, RejectOverdue, ReturnOverdue, ForgetEvent,
                ReturnDecided
  <2>2. \E to \in ThreadPoints :
            thread' = [thread EXCEPT ![t] = to] /\ Rank(to) < Rank(thread[t])
    <3>1. CASE StartRun(t) \/ WriteTaskState(t) \/ \E r \in Reasons : HarnessEnds(t, r)
      BY <3>1 DEF StartRun, WriteTaskState, HarnessEnds, Rank
    <3>2. CASE RegisterEvent(t) \/ InsertRow(t) \/ WaitReturns(t) \/ WaitTimesOut(t)
      BY <3>2 DEF RegisterEvent, InsertRow, WaitReturns, WaitTimesOut, Rank
    <3>3. CASE RejectOverdue(t) \/ ReturnOverdue(t) \/ ForgetEvent(t) \/ ReturnDecided(t)
      BY <3>3 DEF RejectOverdue, ReturnOverdue, ForgetEvent, ReturnDecided, Rank
    <3> QED
      BY <1>2, <3>1, <3>2, <3>3 DEF ThreadStep
  <2> QED
    BY <2>1, <2>2 DEF Moves
<1>3. CASE CreateTask(t) \/ ThreadDies(t) \/ InsertRaises(t) \/ ResolverRaises(t)
  <2>1. asked' = asked
    BY <1>3 DEF CreateTask, ThreadDies, InsertRaises, ResolverRaises
  <2>2. \E to \in ThreadPoints :
            thread' = [thread EXCEPT ![t] = to] /\ Rank(to) < Rank(thread[t])
    BY <1>3 DEF CreateTask, ThreadDies, InsertRaises, ResolverRaises, Rank
  <2> QED
    BY <2>1, <2>2 DEF Moves
<1> QED
  BY <1>1, <1>2, <1>3

\* Every other step leaves the threads where they are, or ends them.
LEMMA OthersMoveNothing ==
    ASSUME [Next]_vars,
           \A t \in Tasks : ~(ThreadStep(t) \/ CreateTask(t) \/ ThreadDies(t) \/ InsertRaises(t) \/ ResolverRaises(t))
    PROVE  /\ asked' = asked
           /\ thread' = thread \/ Crash
<1>1. CASE \E t \in Tasks : Cancel(t)
  BY <1>1 DEF Cancel
<1>2. CASE \E u \in Users : CallStep(u)
  BY <1>2 DEF CallStep, UpdateRow, LookupEvent, SetEvent
<1>3. CASE \E u \in Users :
              UpdateRaises(u) \/ \E a \in Approvals, v \in Verdicts : StartDecide(u, a, v)
  BY <1>3 DEF UpdateRaises, StartDecide
<1>4. CASE Crash
  BY <1>4 DEF Crash
<1>5. CASE UNCHANGED vars
  BY <1>5 DEF vars
<1> QED
  BY <1>1, <1>2, <1>3, <1>4, <1>5 DEF Next, Environment

LEMMA RankType == ASSUME NEW point PROVE Rank(point) \in 0..7
  BY DEF Rank

\* A thread that does not ask does not gain work by a move of its own or of another.
LEMMA WorkStep ==
    ASSUME TypeOK, TypeOK', [Next]_vars, NEW t \in Tasks
    PROVE  Work(t)' <= Work(t) /\ (ThreadStep(t) => Work(t)' < Work(t))
<1>1. asked[t] \in Nat /\ MaxApprovals \in Nat /\ t \in DOMAIN thread /\ t \in DOMAIN asked
  BY ServiceAssumption DEF TypeOK
<1>2. Rank(thread[t]) \in 0..7 /\ Rank(thread'[t]) \in 0..7
  BY RankType
<1>3. Work(t) = 6 * (MaxApprovals - asked[t]) + Rank(thread[t])
  BY DEF Work
<1>4. Work(t)' = 6 * (MaxApprovals - asked'[t]) + Rank(thread'[t])
  BY DEF Work, Rank
<1>5. ASSUME Moves(t) PROVE Work(t)' < Work(t)
  <2>1. CASE asked' = asked /\ \E to \in ThreadPoints :
                 thread' = [thread EXCEPT ![t] = to] /\ Rank(to) < Rank(thread[t])
    <3>1. PICK to \in ThreadPoints :
              thread' = [thread EXCEPT ![t] = to] /\ Rank(to) < Rank(thread[t])
      BY <2>1
    <3>2. Rank(thread'[t]) < Rank(thread[t])
      BY <1>1, <3>1
    <3> QED
      BY <1>1, <1>2, <1>3, <1>4, <2>1, <3>2
  <2>2. CASE /\ asked' = [asked EXCEPT ![t] = @ + 1]
             /\ thread[t] = "run" /\ thread' = [thread EXCEPT ![t] = "register"]
    <3>1. asked'[t] = asked[t] + 1 /\ thread'[t] = "register"
      BY <1>1, <2>2
    <3>2. Rank(thread'[t]) = 7 /\ Rank(thread[t]) = 2
      BY <2>2, <3>1 DEF Rank
    <3> QED
      BY <1>1, <1>3, <1>4, <3>1, <3>2
  <2> QED
    BY <1>5, <2>1, <2>2 DEF Moves
<1>6. ASSUME NEW s \in Tasks, s # t, Moves(s) PROVE Work(t)' = Work(t)
  <2>1. asked'[t] = asked[t] /\ thread'[t] = thread[t]
    BY <1>1, <1>6 DEF Moves
  <2> QED
    BY <1>3, <1>4, <2>1
<1>7. ASSUME asked' = asked, thread' = thread \/ Crash PROVE Work(t)' <= Work(t)
  <2>1. Rank(thread'[t]) <= Rank(thread[t])
    <3>1. CASE thread' = thread
      BY <1>2, <3>1
    <3>2. CASE Crash
      <4>1. thread'[t] = thread[t] \/ thread'[t] = "lost"
        BY <3>2 DEF Crash
      <4>2. Rank("lost") = 0
        BY DEF Rank
      <4> QED
        BY <1>2, <4>1, <4>2
    <3> QED
      BY <1>7, <3>1, <3>2
  <2> QED
    BY <1>1, <1>2, <1>3, <1>4, <1>7, <2>1
<1>8. Work(t) \in Nat /\ Work(t)' \in Nat
  <2>1. asked[t] \in 0..MaxApprovals /\ asked'[t] \in 0..MaxApprovals
    BY DEF TypeOK
  <2> QED
    BY <1>1, <1>2, <1>3, <1>4, <2>1
<1>9. CASE \E s \in Tasks : ThreadStep(s) \/ CreateTask(s) \/ ThreadDies(s) \/ InsertRaises(s) \/ ResolverRaises(s)
  <2>1. PICK s \in Tasks :
            ThreadStep(s) \/ CreateTask(s) \/ ThreadDies(s) \/ InsertRaises(s) \/ ResolverRaises(s)
    BY <1>9
  <2>2. Moves(s)
    BY <2>1, ThreadMoves
  <2>3. Work(t)' <= Work(t)
    BY <1>5, <1>6, <1>8, <2>2
  <2>4. ThreadStep(t) => Work(t)' < Work(t)
    BY <1>5, ThreadMoves
  <2> QED
    BY <2>3, <2>4
<1>10. CASE \A s \in Tasks :
               ~(ThreadStep(s) \/ CreateTask(s) \/ ThreadDies(s) \/ InsertRaises(s) \/ ResolverRaises(s))
  BY <1>7, <1>10, OthersMoveNothing
<1> QED
  BY <1>9, <1>10

\* A row is RUNNING exactly while its thread lives or has died early.
LEMMA RowsFollow ==
    ASSUME TypeOK, RowFollowsThread, [Next]_vars
    PROVE  RowFollowsThread' /\ (\A t \in Tasks : task[t] \in Terminal => task'[t] = task[t])
<1> USE DEF RowFollowsThread, Terminal
<1>1. CASE \E t \in Tasks : CreateTask(t)
  BY <1>1 DEF CreateTask, Goto, TypeOK
<1>2. CASE \E t \in Tasks : WriteTaskState(t)
  <2>1. PICK t \in Tasks : WriteTaskState(t)
    BY <1>2
  <2>2. TerminationToState(reason[t]) \in Terminal
    BY DEF TerminationToState
  <2> QED
    BY <2>1, <2>2 DEF WriteTaskState, Goto, TypeOK
<1>3. CASE \E t \in Tasks :
              \/ StartRun(t) \/ AskApproval(t) \/ RegisterEvent(t) \/ InsertRow(t)
              \/ \E r \in Reasons : HarnessEnds(t, r)
  BY <1>3 DEF StartRun, AskApproval, RegisterEvent, InsertRow, HarnessEnds, Goto, TypeOK
<1>4. CASE \E t \in Tasks : WaitReturns(t) \/ WaitTimesOut(t) \/ RejectOverdue(t)
  BY <1>4 DEF WaitReturns, WaitTimesOut, RejectOverdue, Goto, TypeOK
<1>5. CASE \E t \in Tasks : ReturnOverdue(t) \/ ForgetEvent(t) \/ ReturnDecided(t)
  BY <1>5 DEF ReturnOverdue, ForgetEvent, ReturnDecided, Goto, TypeOK
<1>6. CASE \E t \in Tasks : ThreadDies(t) \/ InsertRaises(t) \/ ResolverRaises(t)
  BY <1>6 DEF ThreadDies, InsertRaises, ResolverRaises, Goto, TypeOK
<1>7. CASE \E t \in Tasks : Cancel(t)
  BY <1>7 DEF Cancel
<1>8. CASE \E u \in Users : CallStep(u)
  BY <1>8 DEF CallStep, UpdateRow, LookupEvent, SetEvent
<1>9. CASE \E u \in Users :
              UpdateRaises(u) \/ \E a \in Approvals, v \in Verdicts : StartDecide(u, a, v)
  BY <1>9 DEF UpdateRaises, StartDecide
<1>10. CASE Crash
  BY <1>10 DEF Crash, TypeOK
<1>11. CASE UNCHANGED vars
  BY <1>11 DEF vars
<1> QED
  BY <1>1, <1>2, <1>3, <1>4, <1>5, <1>6, <1>7, <1>8, <1>9, <1>10, <1>11
     DEF Next, ThreadStep, Environment

\* For every set of tasks and users: however the threads, the calls and the crashes
\* interleave, the thread of a task makes at most 6 * MaxApprovals + 4 steps, and when it can
\* make no more the row of the task says how it ended, unless the thread died early.
THEOREM ThreadsUseUpTheirWork == Spec => WorkIsUsedUp /\ []WorkDoneIsSettled
<1>1. IInv /\ IInv' /\ [Next]_vars
          => \A t \in Tasks : Work(t)' <= Work(t) /\ (ThreadStep(t) => Work(t)' < Work(t))
  BY WorkStep DEF IInv
<1>2. Init => RowFollowsThread
  BY DEF Init, RowFollowsThread, Terminal
<1>3. IInv /\ RowFollowsThread /\ [Next]_vars => RowFollowsThread'
  BY RowsFollow DEF IInv
<1>4. IInv /\ RowFollowsThread => WorkDoneIsSettled
  <2> SUFFICES ASSUME IInv, RowFollowsThread, NEW t \in Tasks
               PROVE  /\ Work(t) \in Nat
                      /\ Work(t) = 0 => task[t] \in Terminal \/ thread[t] \in {"dead", "lost"}
    BY DEF WorkDoneIsSettled
  <2>1. asked[t] \in 0..MaxApprovals /\ MaxApprovals \in Nat
    BY ServiceAssumption DEF IInv, TypeOK
  <2>2. Rank(thread[t]) \in 0..7
    BY RankType
  <2>3. Work(t) \in Nat /\ (Work(t) = 0 => Rank(thread[t]) = 0)
    BY <2>1, <2>2 DEF Work
  <2>4. Rank(thread[t]) = 0 => thread[t] \in {"done", "dead", "lost"}
    BY DEF Rank
  <2> QED
    BY <2>3, <2>4 DEF RowFollowsThread
<1> QED
  BY <1>1, <1>2, <1>3, <1>4, Invariant, PTL DEF Spec, WorkIsUsedUp

\* For every set of tasks and users: COMPLETED, FAILED and CANCELLED are final; a cancel, a
\* late decision, a timeout or a crash does not change the row of a task that has ended.
THEOREM TaskRowsAreFinal == Spec => TaskRowIsFinal
<1>1. Init => RowFollowsThread
  BY DEF Init, RowFollowsThread, Terminal
<1>2. IInv /\ RowFollowsThread /\ [Next]_vars
          => RowFollowsThread' /\ \A t \in Tasks : task[t] \in Terminal => task'[t] = task[t]
  BY RowsFollow DEF IInv
<1> QED
  BY <1>1, <1>2, Invariant, PTL DEF Spec, TaskRowIsFinal

\* For every set of tasks and users: a task has at most one approval that waits for its
\* decision, also after timeouts, late decisions and crashes.
THEOREM OneApprovalPends == Spec => []OnePendingPerTask
<1>1. IInv => OnePendingPerTask
  <2> SUFFICES ASSUME IInv, NEW a \in Approvals, NEW b \in Approvals,
                      row[a] = "PENDING", row[b] = "PENDING", a[1] = b[1]
               PROVE  a = b
    BY DEF OnePendingPerTask
  <2>1. a[2] = asked[a[1]] /\ b[2] = asked[b[1]]
    BY DEF IInv, RowInv, Pends
  <2> QED
    BY <2>1 DEF Approvals
<1> QED
  BY <1>1, Invariant, PTL
=============================================================================
