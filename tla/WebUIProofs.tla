----------------------------- MODULE WebUIProofs -----------------------------
(***************************************************************************)
(* Proofs about the task view of the page for every number of polls, of    *)
(* tasks, of events and of failed requests.                                *)
(***************************************************************************)
EXTENDS WebUI, FiniteSetTheorems, WellFoundedInduction, TLAPS

(***************************************************************************)
(* The newest of a set of events                                           *)
(***************************************************************************)
\* A set of events that is not empty has a newest one.
LEMMA NewestExists ==
    ASSUME NEW S \in SUBSET EventIds, S # {}
    PROVE  \E i \in S : \A j \in S : j <= i
<1> DEFINE T == {MaxEvents - i : i \in S}
<1>1. MaxEvents \in Nat /\ S \subseteq 1..MaxEvents
  BY PageAssumption DEF EventIds
<1>2. T \subseteq Nat /\ T # {}
  <2>1. \A i \in 1..MaxEvents : MaxEvents - i \in Nat
    BY <1>1
  <2> QED
    BY <1>1, <2>1
<1>3. PICK x \in T : \A y \in T : ~ (<<y, x>> \in OpToRel(<, Nat))
  BY <1>2, NatLessThanWellFounded, WFMin
<1>4. \A y \in T : ~(y < x)
  BY <1>2, <1>3 DEF OpToRel
<1>5. PICK i \in S : x = MaxEvents - i
  OBVIOUS
<1>6. ASSUME NEW j \in S PROVE j <= i
  <2>1. MaxEvents - j \in T
    OBVIOUS
  <2>2. ~(MaxEvents - j < MaxEvents - i)
    BY <1>4, <1>5, <2>1
  <2> QED
    BY <1>1, <2>2
<1> QED
  BY <1>6

\* NewestId finds it.
LEMMA NewestIs ==
    ASSUME NEW S \in SUBSET EventIds
    PROVE  /\ S = {} => NewestId(S) = 0
           /\ S # {} => NewestId(S) \in S /\ \A j \in S : j <= NewestId(S)
           /\ NewestId(S) \in EventIds \cup {0} /\ NewestId(S) \in Nat
           /\ \A j \in S : j <= NewestId(S)
<1>1. CASE S = {}
  BY <1>1 DEF NewestId
<1>2. CASE S # {}
  <2>1. NewestId(S) \in S /\ \A j \in S : j <= NewestId(S)
    BY <1>2, NewestExists DEF NewestId
  <2>2. EventIds \subseteq Nat
    BY PageAssumption DEF EventIds
  <2> QED
    BY <1>2, <2>1, <2>2
<1> QED
  BY <1>1, <1>2

\* Rendering more events raises the newest one to that of the answer, or leaves it.
LEMMA NewestOfBoth ==
    ASSUME NEW S \in SUBSET EventIds, NEW T \in SUBSET EventIds
    PROVE  NewestId(S \cup T) = IF NewestId(T) > NewestId(S) THEN NewestId(T) ELSE NewestId(S)
<1> DEFINE n == NewestId(S \cup T)
           s == NewestId(S)
           t == NewestId(T)
<1>1. /\ n \in Nat /\ (S \cup T # {} => n \in S \cup T) /\ (S \cup T = {} => n = 0)
      /\ \A j \in S \cup T : j <= n
  BY NewestIs
<1>2. s \in Nat /\ (S # {} => s \in S) /\ (S = {} => s = 0) /\ \A j \in S : j <= s
  BY NewestIs
<1>3. t \in Nat /\ (T # {} => t \in T) /\ (T = {} => t = 0) /\ \A j \in T : j <= t
  BY NewestIs
<1> HIDE DEF n, s, t
<1>4. s <= n /\ t <= n
  BY <1>1, <1>2, <1>3
<1>5. n <= s \/ n <= t
  BY <1>1, <1>2, <1>3
<1>6. n = IF t > s THEN t ELSE s
  BY <1>1, <1>2, <1>3, <1>4, <1>5
<1> QED
  BY <1>6 DEF n, s, t

(***************************************************************************)
(* The invariant                                                           *)
(***************************************************************************)
PollType == [at : {"idle", "events", "approvals", "task"}, task : Tasks \cup {NoTask}, since : Nat,
             served : BOOLEAN, events : SUBSET EventIds, pending : BOOLEAN,
             state : TERMINAL \cup {"absent", "RUNNING"}]

TypeInv ==
    /\ owner \in [EventIds -> Tasks \cup {NoTask}]
    /\ state \in [Tasks -> TERMINAL \cup {"absent", "RUNNING"}]
    /\ taskId \in Tasks \cup {NoTask}
    /\ shown \in SUBSET EventIds
    /\ intervals \in {0, 1}
    /\ panel \in BOOLEAN /\ deciding \in BOOLEAN
    /\ posting \in Posting
    /\ poll \in [Polls -> PollType]
    /\ failures \in 0..MaxFailures /\ submits \in Nat

\* Everything the page names has been created: its task, the tasks of its polls, the owners of
\* the events.
NamesInv ==
    /\ pending \subseteq Created /\ taskId \in Created \cup {NoTask}
    /\ intervals = 1 => taskId # NoTask
    /\ shown \subseteq Used
    /\ \A i \in Used : owner[i] \in Created
    /\ \A p \in Polls : /\ poll[p] # Idle => taskId # NoTask /\ poll[p].task \in Created
                        /\ poll[p].events \subseteq Used
    /\ posting.at = "served" => posting.task \in Created

\* Events and tasks are numbered without a gap, and every task was submitted.
CountInv ==
    /\ \E n \in 0..MaxEvents : Used = 1..n
    /\ \E m \in 0..MaxTasks : /\ Created = 1..m /\ m <= submits
                              /\ posting.at = "sent" => m < submits /\ m < MaxTasks

\* With one submission, the watermark has never been lowered: an answer that is on its way
\* has every event between the watermark it was asked with and its newest one.
AnswerHasNoGap(p) ==
    /\ poll[p].at = "events" => poll[p].since <= lastEventId
    /\ poll[p].at = "events" /\ poll[p].served =>
          \A i \in Used, j \in poll[p].events : poll[p].since < i /\ i <= j => i \in poll[p].events

GapInv == NoGapInEventList /\ (submits <= 1 => \A p \in Polls : AnswerHasNoGap(p))

IInv == TypeInv /\ NamesInv /\ CountInv /\ WatermarkIsNewestShown /\ GapInv

(***************************************************************************)
(* Types                                                                   *)
(***************************************************************************)
LEMMA IdleType == /\ Idle \in PollType /\ Idle.at = "idle" /\ Idle.events = {}
  BY DEF Idle, PollType

\* What a request is while it is on its way.
LEMMA RequestType ==
    ASSUME NEW at \in {"events", "approvals", "task"}, NEW t \in Tasks \cup {NoTask}, NEW n \in Nat
    PROVE  LET q == Request(at, t, n) IN
           q \in PollType /\ q.at = at /\ q.task = t /\ q.since = n /\ ~q.served /\ q.events = {}
  BY DEF Idle, PollType, Request

\* What it is once it is served.
LEMMA Served ==
    ASSUME TypeInv, NamesInv, NEW p \in Polls, Serve(p)
    PROVE  \E q \in PollType :
             /\ poll' = [poll EXCEPT ![p] = q]
             /\ q.at = poll[p].at /\ q.task = poll[p].task /\ q.since = poll[p].since /\ q.served
             /\ q.events = {i \in EventsSince(poll[p].task, poll[p].since) : poll[p].at = "events"}
             /\ poll[p] # Idle
<1> DEFINE t == poll[p].task
           E == {i \in EventsSince(t, poll[p].since) : poll[p].at = "events"}
           b == poll[p].at = "approvals" /\ t \in pending
           s == IF poll[p].at = "task" THEN state[t] ELSE "absent"
           q == [poll[p] EXCEPT !.served = TRUE, !.events = E, !.pending = b, !.state = s]
<1>1. poll[p] \in PollType
  BY DEF TypeInv
<1>2. poll' = [poll EXCEPT ![p] = q] /\ poll[p] # Idle
  BY DEF Serve, TypeInv
<1>3. t \in Tasks
  BY <1>2 DEF NamesInv, Created
<1>4. E \in SUBSET EventIds /\ b \in BOOLEAN /\ s \in TERMINAL \cup {"absent", "RUNNING"}
  BY <1>3 DEF EventsSince, TypeInv
<1> HIDE DEF E, b, s
<1>5. /\ q \in PollType /\ q.at = poll[p].at /\ q.task = poll[p].task /\ q.since = poll[p].since
      /\ q.served /\ q.events = E
  BY <1>1, <1>4 DEF PollType
<1> QED
  BY <1>2, <1>5 DEF E

\* Numbers without a gap are counted by the last of them.
LEMMA CountOf ==
    ASSUME NEW n \in Nat
    PROVE  Cardinality(1..n) = n
<1>1. 1 \in Int /\ n \in Int
  OBVIOUS
<1>2. Cardinality(1..n) = IF 1 > n THEN 0 ELSE n - 1 + 1
  BY <1>1, FS_Interval, Zenon
<1> QED
  BY <1>2

\* Every step keeps the types.
LEMMA TypeStep ==
    ASSUME TypeInv, NamesInv, CountInv, WatermarkIsNewestShown, Next
    PROVE  TypeInv'
<1> USE DEF server, page
<1>1. ASSUME NEW t \in Tasks, AppendEvent(t) PROVE TypeInv'
  <2>1. owner' \in [EventIds -> Tasks \cup {NoTask}]
    BY <1>1 DEF AppendEvent, TypeInv
  <2> QED
    BY <2>1, <1>1 DEF AppendEvent, TypeInv
<1>2. ASSUME NEW t \in Tasks, ChangeApproval(t) PROVE TypeInv'
  BY <1>2 DEF ChangeApproval, TypeInv, Posting
<1>3. ASSUME NEW t \in Tasks, EndTask(t) PROVE TypeInv'
  BY <1>3 DEF EndTask, TypeInv, TERMINAL
<1>4. ASSUME NEW p \in Polls, Serve(p) PROVE TypeInv'
  <2>1. poll' \in [Polls -> PollType]
    BY <1>4, Served DEF TypeInv
  <2> QED
    BY <2>1, <1>4 DEF Serve, TypeInv
<1>5. ASSUME NEW p \in Polls, ReceiveEvents(p) PROVE TypeInv'
  <2>1. taskId \in Tasks \cup {NoTask} /\ shown' \in SUBSET EventIds
    BY <1>5 DEF ReceiveEvents, PollType, TypeInv, NamesInv, Created
  <2>2. poll' = [poll EXCEPT ![p] = Request("approvals", taskId, 0)]
    BY <1>5 DEF ReceiveEvents, StartPoll
  <2>3. poll' \in [Polls -> PollType]
    BY <2>1, <2>2, RequestType, PageAssumption DEF TypeInv, EventIds
  <2> QED
    BY <2>1, <2>3, <1>5 DEF ReceiveEvents, TypeInv
<1>6. ASSUME NEW p \in Polls, ReceiveApprovals(p) PROVE TypeInv'
  <2>1. taskId \in Tasks \cup {NoTask} /\ panel' \in BOOLEAN
    BY <1>6 DEF ReceiveApprovals, PollType, TypeInv, NamesInv, Created
  <2>2. poll' = [poll EXCEPT ![p] = Request("task", taskId, 0)]
    BY <1>6 DEF ReceiveApprovals, StartPoll
  <2>3. poll' \in [Polls -> PollType]
    BY <2>1, <2>2, RequestType, PageAssumption DEF TypeInv, EventIds
  <2> QED
    BY <2>1, <2>3, <1>6 DEF ReceiveApprovals, TypeInv
<1>7. ASSUME NEW p \in Polls, ReceiveTask(p) PROVE TypeInv'
  <2>1. poll' \in [Polls -> PollType]
    BY <1>7, IdleType DEF ReceiveTask, TypeInv
  <2> QED
    BY <2>1, <1>7 DEF ReceiveTask, TypeInv
<1>8. ASSUME NEW p \in Polls, PollFails(p) PROVE TypeInv'
  <2>1. poll' \in [Polls -> PollType]
    BY <1>8, IdleType DEF PollFails, TypeInv
  <2> QED
    BY <2>1, <1>8, PageAssumption DEF PollFails, TypeInv
<1>9. ASSUME NEW p \in Polls, Tick(p) PROVE TypeInv'
  <2>1. taskId \in Tasks \cup {NoTask} /\ lastEventId \in Nat
    BY <1>9, NewestIs DEF Tick, WatermarkIsNewestShown, TypeInv, NamesInv, Created
  <2>2. poll' = [poll EXCEPT ![p] = Request("events", taskId, lastEventId)]
    BY <1>9 DEF Tick, StartPoll
  <2>3. poll' \in [Polls -> PollType]
    BY <2>1, <2>2, RequestType, PageAssumption DEF TypeInv, EventIds
  <2> QED
    BY <2>1, <2>3, <1>9 DEF Tick, TypeInv
<1>10. ASSUME NEW p \in Polls, ReceiveSubmit(p) PROVE TypeInv'
  <2>1. posting.task \in Tasks \cup {NoTask} /\ lastEventId \in Nat
    BY <1>10, NewestIs DEF ReceiveSubmit, Posting, WatermarkIsNewestShown, TypeInv, NamesInv, Created
  <2>2. poll' = [poll EXCEPT ![p] = Request("events", posting.task, lastEventId)]
    BY <1>10 DEF ReceiveSubmit, StartPoll
  <2>3. poll' \in [Polls -> PollType]
    BY <2>1, <2>2, RequestType, PageAssumption DEF TypeInv, EventIds
  <2> QED
    BY <2>1, <2>3, <1>10 DEF ReceiveSubmit, Posting, TypeInv
<1>11. ASSUME NEW p \in Polls, ReceiveDecision(p) PROVE TypeInv'
  <2>1. taskId \in Tasks \cup {NoTask} /\ lastEventId \in Nat
    BY <1>11, NewestIs DEF ReceiveDecision, WatermarkIsNewestShown, TypeInv, NamesInv, Created
  <2>2. poll' = [poll EXCEPT ![p] = Request("events", taskId, lastEventId)]
    BY <1>11 DEF ReceiveDecision, StartPoll
  <2>3. poll' \in [Polls -> PollType]
    BY <2>1, <2>2, RequestType, PageAssumption DEF TypeInv, EventIds
  <2> QED
    BY <2>1, <2>3, <1>11 DEF ReceiveDecision, TypeInv
<1>12. ASSUME Submit PROVE TypeInv'
  <2>1. posting' \in Posting
    BY <1>12 DEF Submit, Posting
  <2>2. submits' \in Nat
    BY <1>12 DEF Submit, TypeInv
  <2>3. shown' \in SUBSET EventIds /\ panel' \in BOOLEAN
    BY <1>12 DEF Submit
  <2>4. UNCHANGED <<owner, state, taskId, intervals, deciding, poll, failures>>
    BY <1>12 DEF Submit
  <2> QED
    BY <2>1, <2>2, <2>3, <2>4 DEF TypeInv
<1>13. ASSUME ServeSubmit PROVE TypeInv'
  <2>1. PICK m \in 0..MaxTasks : Created = 1..m /\ m < MaxTasks
    BY <1>13 DEF ServeSubmit, CountInv
  <2>2. Cardinality(Created) + 1 = m + 1 /\ m + 1 \in Tasks
    BY <2>1, CountOf, PageAssumption DEF Tasks
  <2> QED
    BY <2>2, <1>13 DEF ServeSubmit, TypeInv, Posting
<1>14. ASSUME SubmitFails PROVE TypeInv'
  BY <1>14, PageAssumption DEF SubmitFails, TypeInv, Posting
<1>15. ASSUME ClickDecision PROVE TypeInv'
  BY <1>15 DEF ClickDecision, TypeInv, Posting
<1> QED
  BY <1>1, <1>2, <1>3, <1>4, <1>5, <1>6, <1>7, <1>8, <1>9, <1>10,
     <1>11, <1>12, <1>13, <1>14, <1>15
     DEF Next, User, Server, Answers, PollStep

(***************************************************************************)
(* What the steps do to the tables and to the polls                        *)
(***************************************************************************)
\* The tables keep their events and tasks and number the next one.
LEMMA Appended ==
    ASSUME TypeInv, CountInv, NEW t \in Tasks, AppendEvent(t)
    PROVE  \E n \in 0..MaxEvents :
             /\ Used = 1..n /\ n + 1 \in EventIds /\ Used' = 1..(n + 1)
             /\ owner' = [owner EXCEPT ![n + 1] = t] /\ t \in Created
<1>1. PICK n \in 0..MaxEvents : Used = 1..n
  BY DEF CountInv
<1>2. n \in Nat /\ Cardinality(Used) = n
  BY <1>1, CountOf, PageAssumption
<1>3. n + 1 \in EventIds /\ owner' = [owner EXCEPT ![n + 1] = t]
  BY <1>2, PageAssumption DEF AppendEvent, EventIds
<1>4. t # NoTask /\ t \in Created
  BY PageAssumption DEF Tasks, NoTask, Created, AppendEvent
<1>5. \A i \in EventIds : owner'[i] # NoTask <=> i \in Used \/ i = n + 1
  BY <1>3, <1>4 DEF TypeInv, Used
<1>6. Used' = {i \in EventIds : i \in 1..n \/ i = n + 1}
  BY <1>1, <1>5 DEF Used
<1>7. EventIds = 1..MaxEvents
  BY DEF EventIds
<1>8. Used' = 1..(n + 1)
  BY <1>2, <1>3, <1>6, <1>7, PageAssumption
<1> QED
  BY <1>1, <1>3, <1>4, <1>8

LEMMA SubmitServed ==
    ASSUME TypeInv, CountInv, ServeSubmit
    PROVE  \E m \in 0..MaxTasks :
             /\ Created = 1..m /\ m < submits /\ m + 1 \in Tasks /\ Created' = 1..(m + 1)
             /\ posting' = [at |-> "served", task |-> m + 1]
<1>1. PICK m \in 0..MaxTasks : Created = 1..m /\ m < submits /\ m < MaxTasks
  BY DEF CountInv, ServeSubmit
<1>2. m \in Nat
  BY <1>1, PageAssumption
<1>3. Cardinality(Created) = m
  BY <1>1, <1>2, CountOf
<1>4. m + 1 \in Tasks /\ state' = [state EXCEPT ![m + 1] = "RUNNING"]
  <2>1. m + 1 \in Tasks
    BY <1>1, <1>2, PageAssumption DEF Tasks
  <2>2. state' = [state EXCEPT ![m + 1] = "RUNNING"]
    BY <1>3 DEF ServeSubmit
  <2> QED
    BY <2>1, <2>2
<1>5. \A t \in Tasks : state'[t] # "absent" <=> t \in Created \/ t = m + 1
  BY <1>4 DEF TypeInv, Created
<1>6. Created' = {t \in Tasks : t \in 1..m \/ t = m + 1}
  BY <1>1, <1>5 DEF Created
<1>7. Created' = 1..(m + 1)
  BY <1>2, <1>4, <1>6, PageAssumption DEF Tasks
<1>8. posting' = [at |-> "served", task |-> m + 1]
  BY <1>3 DEF ServeSubmit
<1> QED
  BY <1>1, <1>4, <1>7, <1>8

\* A poll on its way is not idle, and the page shows a task.
LEMMA OnItsWay ==
    ASSUME TypeInv, NamesInv, NEW p \in Polls, poll[p].served
    PROVE  taskId \in Created /\ taskId # NoTask
<1>1. poll[p] # Idle
  BY DEF Idle
<1> QED
  BY <1>1 DEF NamesInv

\* The watermark is above every event shown and is one of them, or 0.
LEMMA WatermarkIs ==
    ASSUME TypeInv, NamesInv, WatermarkIsNewestShown
    PROVE  /\ lastEventId \in Nat /\ lastEventId \in EventIds \cup {0}
           /\ lastEventId \in Used \cup {0}
  BY NewestIs DEF WatermarkIsNewestShown, TypeInv, NamesInv

\* What NamesInv asks of a poll.
Named(q) == /\ q # Idle => taskId # NoTask /\ q.task \in Created
            /\ q.events \subseteq Used

\* Setting one poll keeps NamesInv when the rest of what it names is kept.
LEMMA NamesKept ==
    ASSUME TypeInv, NamesInv, NEW p \in Polls, NEW q,
           poll' = [poll EXCEPT ![p] = q], UNCHANGED <<owner, state>>,
           q # Idle => taskId' # NoTask /\ q.task \in Created, q.events \subseteq Used,
           taskId' = taskId \/ taskId' \in Created \ {NoTask}
    PROVE  \A r \in Polls : Named(poll[r])'
<1>1. Used' = Used /\ Created' = Created
  BY DEF Used, Created
<1>2. \A r \in Polls : poll'[r] = IF r = p THEN q ELSE poll[r]
  BY DEF TypeInv
<1>3. \A r \in Polls : /\ poll[r] # Idle => taskId # NoTask /\ poll[r].task \in Created
                       /\ poll[r].events \subseteq Used
  BY DEF NamesInv
<1>4. ASSUME NEW r \in Polls
      PROVE  /\ poll'[r] # Idle => taskId' # NoTask /\ poll'[r].task \in Created'
             /\ poll'[r].events \subseteq Used'
  BY <1>1, <1>2, <1>3
<1> QED
  BY <1>4 DEF Named

\* Every step names what has been created.
LEMMA NamesStep ==
    ASSUME TypeInv, NamesInv, CountInv, WatermarkIsNewestShown, Next
    PROVE  NamesInv'
<1> USE DEF server, page
<1>1. ASSUME NEW t \in Tasks, AppendEvent(t) PROVE NamesInv'
  <2>1. PICK n \in 0..MaxEvents :
               /\ Used = 1..n /\ n + 1 \in EventIds /\ Used' = 1..(n + 1)
               /\ owner' = [owner EXCEPT ![n + 1] = t] /\ t \in Created
    BY <1>1, Appended
  <2>2. Used \subseteq Used' /\ \A i \in Used' : i \in Used \/ i = n + 1
    BY <2>1
  <2>3. \A i \in Used' : owner'[i] = t \/ (i \in Used /\ owner'[i] = owner[i])
    BY <2>1, <2>2 DEF TypeInv, Used
  <2>4. Created' = Created
    BY <1>1 DEF AppendEvent, Created
  <2>5. \A i \in Used' : owner'[i] \in Created'
    BY <2>1, <2>3, <2>4 DEF NamesInv
  <2> QED
    BY <2>2, <2>4, <2>5, <1>1 DEF AppendEvent, NamesInv
<1>2. ASSUME NEW t \in Tasks, ChangeApproval(t) PROVE NamesInv'
  <2>1. Used' = Used /\ Created' = Created
    BY <1>2 DEF ChangeApproval, Used, Created
  <2>2. t \in Created
    BY <1>2 DEF ChangeApproval, Created
  <2> QED
    BY <2>1, <2>2, <1>2 DEF ChangeApproval, NamesInv
<1>3. ASSUME NEW t \in Tasks, EndTask(t) PROVE NamesInv'
  <2>1. Used' = Used /\ Created' = Created
    BY <1>3 DEF EndTask, Used, Created, TypeInv
  <2> QED
    BY <2>1, <1>3 DEF EndTask, NamesInv
<1>4. ASSUME NEW p \in Polls, Serve(p) PROVE NamesInv'
  <2>1. PICK q \in PollType :
             /\ poll' = [poll EXCEPT ![p] = q] /\ q.task = poll[p].task
             /\ q.events = {i \in EventsSince(poll[p].task, poll[p].since) : poll[p].at = "events"}
             /\ poll[p] # Idle
    BY <1>4, Served
  <2>2. poll[p].task \in Created /\ taskId # NoTask
    BY <2>1 DEF NamesInv
  <2>3. q.events \subseteq Used
    BY <2>1, <2>2, PageAssumption DEF EventsSince, Used, Created, Tasks, NoTask
  <2>4. UNCHANGED <<owner, state, pending, taskId, intervals, shown, posting>>
    BY <1>4 DEF Serve
  <2>5. \A r \in Polls : Named(poll[r])'
    BY <2>1, <2>2, <2>3, <2>4, NamesKept
  <2>6. Used' = Used /\ Created' = Created
    BY <2>4 DEF Used, Created
  <2> QED
    BY <2>4, <2>5, <2>6 DEF NamesInv, Named
<1>5. ASSUME NEW p \in Polls, ReceiveEvents(p) PROVE NamesInv'
  <2>1. taskId \in Created /\ taskId # NoTask /\ taskId \in Tasks \cup {NoTask}
             /\ poll[p].events \subseteq Used
    BY <1>5, OnItsWay, NewestIs DEF ReceiveEvents, StartPoll, TypeInv, NamesInv, PollType, WatermarkIsNewestShown
  <2>2. PICK q : poll' = [poll EXCEPT ![p] = q] /\ (q # Idle => q.task = taskId) /\ q.events = {}
    <3> DEFINE r == Request("approvals", taskId, 0)
    <3>1. poll' = [poll EXCEPT ![p] = r]
      BY <1>5 DEF ReceiveEvents, StartPoll
    <3>2. r.task = taskId /\ r.events = {}
      BY <2>1, RequestType
    <3> QED
      BY <3>1, <3>2
  <2>3. UNCHANGED <<owner, state, pending>> /\ Used' = Used /\ Created' = Created
    BY <1>5 DEF ReceiveEvents, Used, Created
  <2>4. \A r \in Polls : Named(poll[r])'
    BY <2>1, <2>2, <2>3, NamesKept, <1>5 DEF ReceiveEvents
  <2> QED
    BY <2>1, <2>3, <2>4, <1>5 DEF ReceiveEvents, NamesInv, Named
<1>6. ASSUME NEW p \in Polls, ReceiveApprovals(p) PROVE NamesInv'
  <2>1. taskId \in Created /\ taskId # NoTask /\ taskId \in Tasks \cup {NoTask}
    BY <1>6, OnItsWay, NewestIs DEF ReceiveApprovals, StartPoll, TypeInv, NamesInv, PollType, WatermarkIsNewestShown
  <2>2. PICK q : poll' = [poll EXCEPT ![p] = q] /\ (q # Idle => q.task = taskId) /\ q.events = {}
    <3> DEFINE r == Request("task", taskId, 0)
    <3>1. poll' = [poll EXCEPT ![p] = r]
      BY <1>6 DEF ReceiveApprovals, StartPoll
    <3>2. r.task = taskId /\ r.events = {}
      BY <2>1, RequestType
    <3> QED
      BY <3>1, <3>2
  <2>3. UNCHANGED <<owner, state, pending>> /\ Used' = Used /\ Created' = Created
    BY <1>6 DEF ReceiveApprovals, Used, Created
  <2>4. \A r \in Polls : Named(poll[r])'
    BY <2>1, <2>2, <2>3, NamesKept, <1>6 DEF ReceiveApprovals
  <2> QED
    BY <2>1, <2>3, <2>4, <1>6 DEF ReceiveApprovals, NamesInv, Named
<1>7. ASSUME NEW p \in Polls, ReceiveTask(p) PROVE NamesInv'
  <2>1. intervals' = 1 => taskId # NoTask
    BY <1>7, OnItsWay, NewestIs DEF ReceiveTask, StartPoll, TypeInv, NamesInv, PollType, WatermarkIsNewestShown
  <2>2. PICK q : poll' = [poll EXCEPT ![p] = q] /\ (q # Idle => FALSE) /\ q.events = {}
    BY <1>7, IdleType DEF ReceiveTask
  <2>3. UNCHANGED <<owner, state, pending>> /\ Used' = Used /\ Created' = Created
    BY <1>7 DEF ReceiveTask, Used, Created
  <2>4. \A r \in Polls : Named(poll[r])'
    BY <2>1, <2>2, <2>3, NamesKept, <1>7 DEF ReceiveTask
  <2> QED
    BY <2>1, <2>3, <2>4, <1>7 DEF ReceiveTask, NamesInv, Named
<1>8. ASSUME NEW p \in Polls, PollFails(p) PROVE NamesInv'
  <2>1. intervals = 1 => taskId # NoTask
    BY <1>8, OnItsWay, NewestIs DEF PollFails, StartPoll, TypeInv, NamesInv, PollType, WatermarkIsNewestShown
  <2>2. PICK q : poll' = [poll EXCEPT ![p] = q] /\ (q # Idle => FALSE) /\ q.events = {}
    BY <1>8, IdleType DEF PollFails
  <2>3. UNCHANGED <<owner, state, pending>> /\ Used' = Used /\ Created' = Created
    BY <1>8 DEF PollFails, Used, Created
  <2>4. \A r \in Polls : Named(poll[r])'
    BY <2>1, <2>2, <2>3, NamesKept, <1>8 DEF PollFails
  <2> QED
    BY <2>1, <2>3, <2>4, <1>8 DEF PollFails, NamesInv, Named
<1>9. ASSUME NEW p \in Polls, Tick(p) PROVE NamesInv'
  <2>1. /\ taskId \in Created /\ taskId # NoTask /\ taskId \in Tasks \cup {NoTask}
        /\ lastEventId \in Nat
    BY <1>9, OnItsWay, NewestIs DEF Tick, StartPoll, TypeInv, NamesInv, PollType, WatermarkIsNewestShown
  <2>2. PICK q : poll' = [poll EXCEPT ![p] = q] /\ (q # Idle => q.task = taskId) /\ q.events = {}
    <3> DEFINE r == Request("events", taskId, lastEventId)
    <3>1. poll' = [poll EXCEPT ![p] = r]
      BY <1>9 DEF Tick, StartPoll
    <3>2. r.task = taskId /\ r.events = {}
      BY <2>1, RequestType
    <3> QED
      BY <3>1, <3>2
  <2>3. UNCHANGED <<owner, state, pending>> /\ Used' = Used /\ Created' = Created
    BY <1>9 DEF Tick, Used, Created
  <2>4. \A r \in Polls : Named(poll[r])'
    BY <2>1, <2>2, <2>3, NamesKept, <1>9 DEF Tick
  <2> QED
    BY <2>1, <2>3, <2>4, <1>9 DEF Tick, NamesInv, Named
<1>10. ASSUME NEW p \in Polls, ReceiveSubmit(p) PROVE NamesInv'
  <2>1. /\ posting.task \in Created /\ posting.task # NoTask /\ posting.task \in Tasks \cup {NoTask}
        /\ lastEventId \in Nat
    BY <1>10, OnItsWay, NewestIs DEF ReceiveSubmit, StartPoll, TypeInv, NamesInv, PollType, Created, Tasks, NoTask, WatermarkIsNewestShown
  <2>2. PICK q : poll' = [poll EXCEPT ![p] = q] /\ (q # Idle => q.task = posting.task) /\ q.events = {}
    <3> DEFINE r == Request("events", posting.task, lastEventId)
    <3>1. poll' = [poll EXCEPT ![p] = r]
      BY <1>10 DEF ReceiveSubmit, StartPoll
    <3>2. r.task = posting.task /\ r.events = {}
      BY <2>1, RequestType
    <3> QED
      BY <3>1, <3>2
  <2>3. UNCHANGED <<owner, state, pending>> /\ Used' = Used /\ Created' = Created
    BY <1>10 DEF ReceiveSubmit, Used, Created
  <2>4. \A r \in Polls : Named(poll[r])'
    BY <2>1, <2>2, <2>3, NamesKept, <1>10 DEF ReceiveSubmit
  <2> QED
    BY <2>1, <2>3, <2>4, <1>10 DEF ReceiveSubmit, NamesInv, Named
<1>11. ASSUME NEW p \in Polls, ReceiveDecision(p) PROVE NamesInv'
  <2>1. /\ taskId \in Created /\ taskId # NoTask /\ taskId \in Tasks \cup {NoTask}
        /\ lastEventId \in Nat
    BY <1>11, OnItsWay, NewestIs DEF ReceiveDecision, StartPoll, TypeInv, NamesInv, PollType, WatermarkIsNewestShown
  <2>2. PICK q : poll' = [poll EXCEPT ![p] = q] /\ (q # Idle => q.task = taskId) /\ q.events = {}
    <3> DEFINE r == Request("events", taskId, lastEventId)
    <3>1. poll' = [poll EXCEPT ![p] = r]
      BY <1>11 DEF ReceiveDecision, StartPoll
    <3>2. r.task = taskId /\ r.events = {}
      BY <2>1, RequestType
    <3> QED
      BY <3>1, <3>2
  <2>3. UNCHANGED <<owner, state, pending>> /\ Used' = Used /\ Created' = Created
    BY <1>11 DEF ReceiveDecision, Used, Created
  <2>4. \A r \in Polls : Named(poll[r])'
    BY <2>1, <2>2, <2>3, NamesKept, <1>11 DEF ReceiveDecision
  <2> QED
    BY <2>1, <2>3, <2>4, <1>11 DEF ReceiveDecision, NamesInv, Named
<1>12. ASSUME Submit PROVE NamesInv'
  <2>1. Used' = Used /\ Created' = Created
    BY <1>12 DEF Submit, Used, Created
  <2>2. UNCHANGED <<owner, pending, taskId, intervals, poll>> /\ shown' = {} /\ posting'.at # "served"
    BY <1>12 DEF Submit
  <2> QED
    BY <2>1, <2>2 DEF NamesInv
<1>13. ASSUME ServeSubmit PROVE NamesInv'
  <2>1. PICK m \in 0..MaxTasks :
               /\ Created = 1..m /\ m < submits /\ m + 1 \in Tasks /\ Created' = 1..(m + 1)
               /\ posting' = [at |-> "served", task |-> m + 1]
    BY <1>13, SubmitServed
  <2>2. Created \subseteq Created' /\ posting'.task \in Created'
    BY <2>1
  <2>3. Used' = Used /\ UNCHANGED <<owner, pending, taskId, intervals, shown, poll>>
    BY <1>13 DEF ServeSubmit, Used
  <2> QED
    BY <2>2, <2>3 DEF NamesInv
<1>14. ASSUME SubmitFails PROVE NamesInv'
  <2>1. Used' = Used /\ Created' = Created
    BY <1>14 DEF SubmitFails, Used, Created
  <2> QED
    BY <2>1, <1>14 DEF SubmitFails, NamesInv
<1>15. ASSUME ClickDecision PROVE NamesInv'
  <2>1. Used' = Used /\ Created' = Created
    BY <1>15 DEF ClickDecision, Used, Created
  <2> QED
    BY <2>1, <1>15 DEF ClickDecision, NamesInv
<1> QED
  BY <1>1, <1>2, <1>3, <1>4, <1>5, <1>6, <1>7, <1>8, <1>9, <1>10,
     <1>11, <1>12, <1>13, <1>14, <1>15
     DEF Next, User, Server, Answers, PollStep

\* Every step keeps the numbering.
LEMMA CountStep ==
    ASSUME TypeInv, CountInv, Next
    PROVE  CountInv'
<1> USE DEF server, page
<1>1. ASSUME NEW t \in Tasks, AppendEvent(t) PROVE CountInv'
  <2>1. PICK n \in 0..MaxEvents : n + 1 \in EventIds /\ Used' = 1..(n + 1)
    BY <1>1, Appended
  <2>2. n + 1 \in 0..MaxEvents
    BY <2>1, PageAssumption DEF EventIds
  <2>3. Created' = Created /\ UNCHANGED <<submits, posting>>
    BY <1>1 DEF AppendEvent, Created
  <2> QED
    BY <2>1, <2>2, <2>3 DEF CountInv
<1>2. ASSUME NEW t \in Tasks, ChangeApproval(t) PROVE CountInv'
  <2>1. Used' = Used /\ Created' = Created
    BY <1>2 DEF ChangeApproval, StartPoll, Used, Created, TypeInv
  <2>2. submits' = submits /\ (posting'.at = "sent" => posting.at = "sent")
    BY <1>2 DEF ChangeApproval
  <2> QED
    BY <2>1, <2>2 DEF CountInv
<1>3. ASSUME NEW t \in Tasks, EndTask(t) PROVE CountInv'
  <2>1. Used' = Used /\ Created' = Created
    BY <1>3 DEF EndTask, StartPoll, Used, Created, TypeInv
  <2>2. submits' = submits /\ (posting'.at = "sent" => posting.at = "sent")
    BY <1>3 DEF EndTask
  <2> QED
    BY <2>1, <2>2 DEF CountInv
<1>4. ASSUME NEW p \in Polls, Serve(p) PROVE CountInv'
  <2>1. Used' = Used /\ Created' = Created
    BY <1>4 DEF Serve, StartPoll, Used, Created, TypeInv
  <2>2. submits' = submits /\ (posting'.at = "sent" => posting.at = "sent")
    BY <1>4 DEF Serve
  <2> QED
    BY <2>1, <2>2 DEF CountInv
<1>5. ASSUME NEW p \in Polls, ReceiveEvents(p) PROVE CountInv'
  <2>1. Used' = Used /\ Created' = Created
    BY <1>5 DEF ReceiveEvents, StartPoll, Used, Created, TypeInv
  <2>2. submits' = submits /\ (posting'.at = "sent" => posting.at = "sent")
    BY <1>5 DEF ReceiveEvents
  <2> QED
    BY <2>1, <2>2 DEF CountInv
<1>6. ASSUME NEW p \in Polls, ReceiveApprovals(p) PROVE CountInv'
  <2>1. Used' = Used /\ Created' = Created
    BY <1>6 DEF ReceiveApprovals, StartPoll, Used, Created, TypeInv
  <2>2. submits' = submits /\ (posting'.at = "sent" => posting.at = "sent")
    BY <1>6 DEF ReceiveApprovals
  <2> QED
    BY <2>1, <2>2 DEF CountInv
<1>7. ASSUME NEW p \in Polls, ReceiveTask(p) PROVE CountInv'
  <2>1. Used' = Used /\ Created' = Created
    BY <1>7 DEF ReceiveTask, StartPoll, Used, Created, TypeInv
  <2>2. submits' = submits /\ (posting'.at = "sent" => posting.at = "sent")
    BY <1>7 DEF ReceiveTask
  <2> QED
    BY <2>1, <2>2 DEF CountInv
<1>8. ASSUME NEW p \in Polls, PollFails(p) PROVE CountInv'
  <2>1. Used' = Used /\ Created' = Created
    BY <1>8 DEF PollFails, StartPoll, Used, Created, TypeInv
  <2>2. submits' = submits /\ (posting'.at = "sent" => posting.at = "sent")
    BY <1>8 DEF PollFails
  <2> QED
    BY <2>1, <2>2 DEF CountInv
<1>9. ASSUME NEW p \in Polls, Tick(p) PROVE CountInv'
  <2>1. Used' = Used /\ Created' = Created
    BY <1>9 DEF Tick, StartPoll, Used, Created, TypeInv
  <2>2. submits' = submits /\ (posting'.at = "sent" => posting.at = "sent")
    BY <1>9 DEF Tick
  <2> QED
    BY <2>1, <2>2 DEF CountInv
<1>10. ASSUME NEW p \in Polls, ReceiveSubmit(p) PROVE CountInv'
  <2>1. Used' = Used /\ Created' = Created
    BY <1>10 DEF ReceiveSubmit, StartPoll, Used, Created, TypeInv
  <2>2. submits' = submits /\ (posting'.at = "sent" => posting.at = "sent")
    BY <1>10 DEF ReceiveSubmit
  <2> QED
    BY <2>1, <2>2 DEF CountInv
<1>11. ASSUME NEW p \in Polls, ReceiveDecision(p) PROVE CountInv'
  <2>1. Used' = Used /\ Created' = Created
    BY <1>11 DEF ReceiveDecision, StartPoll, Used, Created, TypeInv
  <2>2. submits' = submits /\ (posting'.at = "sent" => posting.at = "sent")
    BY <1>11 DEF ReceiveDecision
  <2> QED
    BY <2>1, <2>2 DEF CountInv
<1>12. ASSUME Submit PROVE CountInv'
  <2>1. Used' = Used /\ Created' = Created
    BY <1>12 DEF Submit, Used, Created
  <2>2. PICK m \in 0..MaxTasks : Created = 1..m /\ m <= submits
    BY DEF CountInv
  <2>3. m # MaxTasks
    BY <2>2, <1>12 DEF Submit, Tasks
  <2>4. m <= submits' /\ m < submits' /\ m < MaxTasks
    BY <2>2, <2>3, <1>12, PageAssumption DEF Submit, TypeInv
  <2>5. PICK n \in 0..MaxEvents : Used = 1..n
    BY DEF CountInv
  <2> QED
    BY <2>1, <2>2, <2>4, <2>5 DEF CountInv
<1>13. ASSUME ServeSubmit PROVE CountInv'
  <2>1. PICK m \in 0..MaxTasks :
               /\ Created = 1..m /\ m < submits /\ m + 1 \in Tasks /\ Created' = 1..(m + 1)
               /\ posting' = [at |-> "served", task |-> m + 1]
    BY <1>13, SubmitServed
  <2>2. m + 1 \in 0..MaxTasks /\ m + 1 <= submits /\ posting'.at # "sent"
    BY <2>1, PageAssumption DEF Tasks, TypeInv
  <2>3. Used' = Used /\ submits' = submits
    BY <1>13 DEF ServeSubmit, Used
  <2>4. PICK n \in 0..MaxEvents : Used = 1..n
    BY DEF CountInv
  <2> QED
    BY <2>1, <2>2, <2>3, <2>4 DEF CountInv
<1>14. ASSUME SubmitFails PROVE CountInv'
  <2>1. Used' = Used /\ Created' = Created
    BY <1>14 DEF SubmitFails, StartPoll, Used, Created, TypeInv
  <2>2. submits' = submits /\ (posting'.at = "sent" => posting.at = "sent")
    BY <1>14 DEF SubmitFails
  <2> QED
    BY <2>1, <2>2 DEF CountInv
<1>15. ASSUME ClickDecision PROVE CountInv'
  <2>1. Used' = Used /\ Created' = Created
    BY <1>15 DEF ClickDecision, StartPoll, Used, Created, TypeInv
  <2>2. submits' = submits /\ (posting'.at = "sent" => posting.at = "sent")
    BY <1>15 DEF ClickDecision
  <2> QED
    BY <2>1, <2>2 DEF CountInv
<1> QED
  BY <1>1, <1>2, <1>3, <1>4, <1>5, <1>6, <1>7, <1>8, <1>9, <1>10,
     <1>11, <1>12, <1>13, <1>14, <1>15
     DEF Next, User, Server, Answers, PollStep

\* Every step keeps the watermark at the newest event shown.
LEMMA WatermarkStep ==
    ASSUME TypeInv, WatermarkIsNewestShown, Next
    PROVE  WatermarkIsNewestShown'
<1> USE DEF server, page
<1>1. ASSUME NEW t \in Tasks, AppendEvent(t) PROVE WatermarkIsNewestShown'
  BY <1>1 DEF AppendEvent, WatermarkIsNewestShown
<1>2. ASSUME NEW t \in Tasks, ChangeApproval(t) PROVE WatermarkIsNewestShown'
  BY <1>2 DEF ChangeApproval, WatermarkIsNewestShown
<1>3. ASSUME NEW t \in Tasks, EndTask(t) PROVE WatermarkIsNewestShown'
  BY <1>3 DEF EndTask, WatermarkIsNewestShown
<1>4. ASSUME NEW p \in Polls, Serve(p) PROVE WatermarkIsNewestShown'
  BY <1>4 DEF Serve, WatermarkIsNewestShown
<1>5. ASSUME NEW p \in Polls, ReceiveEvents(p) PROVE WatermarkIsNewestShown'
  <2>1. shown \in SUBSET EventIds /\ poll[p].events \in SUBSET EventIds
    BY DEF TypeInv, PollType
  <2>2. shown' = shown \cup poll[p].events
    BY <1>5 DEF ReceiveEvents
  <2>3. lastEventId' = IF NewestId(poll[p].events) > NewestId(shown) THEN NewestId(poll[p].events)
                       ELSE NewestId(shown)
    BY <1>5 DEF ReceiveEvents, WatermarkIsNewestShown
  <2>4. NewestId(shown \cup poll[p].events) = lastEventId'
    BY <2>1, <2>3, NewestOfBoth
  <2> QED
    BY <2>2, <2>4 DEF WatermarkIsNewestShown
<1>6. ASSUME NEW p \in Polls, ReceiveApprovals(p) PROVE WatermarkIsNewestShown'
  BY <1>6 DEF ReceiveApprovals, WatermarkIsNewestShown
<1>7. ASSUME NEW p \in Polls, ReceiveTask(p) PROVE WatermarkIsNewestShown'
  BY <1>7 DEF ReceiveTask, WatermarkIsNewestShown
<1>8. ASSUME NEW p \in Polls, PollFails(p) PROVE WatermarkIsNewestShown'
  BY <1>8 DEF PollFails, WatermarkIsNewestShown
<1>9. ASSUME NEW p \in Polls, Tick(p) PROVE WatermarkIsNewestShown'
  BY <1>9 DEF Tick, WatermarkIsNewestShown
<1>10. ASSUME NEW p \in Polls, ReceiveSubmit(p) PROVE WatermarkIsNewestShown'
  BY <1>10 DEF ReceiveSubmit, WatermarkIsNewestShown
<1>11. ASSUME NEW p \in Polls, ReceiveDecision(p) PROVE WatermarkIsNewestShown'
  BY <1>11 DEF ReceiveDecision, WatermarkIsNewestShown
<1>12. ASSUME Submit PROVE WatermarkIsNewestShown'
  <2>1. shown' = {} /\ lastEventId' = 0
    BY <1>12 DEF Submit
  <2>2. NewestId({}) = 0
    BY NewestIs
  <2> QED
    BY <2>1, <2>2 DEF WatermarkIsNewestShown
<1>13. ASSUME ServeSubmit PROVE WatermarkIsNewestShown'
  BY <1>13 DEF ServeSubmit, WatermarkIsNewestShown
<1>14. ASSUME SubmitFails PROVE WatermarkIsNewestShown'
  BY <1>14 DEF SubmitFails, WatermarkIsNewestShown
<1>15. ASSUME ClickDecision PROVE WatermarkIsNewestShown'
  BY <1>15 DEF ClickDecision, WatermarkIsNewestShown
<1> QED
  BY <1>1, <1>2, <1>3, <1>4, <1>5, <1>6, <1>7, <1>8, <1>9, <1>10,
     <1>11, <1>12, <1>13, <1>14, <1>15
     DEF Next, User, Server, Answers, PollStep

(***************************************************************************)
(* The list has no gap                                                     *)
(***************************************************************************)
\* What AnswerHasNoGap asks of a poll q.
NoGapIn(q) ==
    /\ q.at = "events" => q.since <= lastEventId
    /\ q.at = "events" /\ q.served =>
          \A i \in Used, j \in q.events : q.since < i /\ i <= j => i \in q.events

\* A poll that is given up, that asks for something else, or that asks for the events from the
\* watermark on keeps the answers without a gap.
LEMMA AnswersKept ==
    ASSUME TypeInv, GapInv, NEW p \in Polls, NEW q, poll' = [poll EXCEPT ![p] = q],
           UNCHANGED <<owner, submits>>, lastEventId' \in Nat, lastEventId \in Nat,
           lastEventId <= lastEventId', submits <= 1 => NoGapIn(q)'
    PROVE  submits' <= 1 => \A r \in Polls : AnswerHasNoGap(r)'
<1>1. Used' = Used
  BY DEF Used
<1>2. \A r \in Polls : poll'[r] = IF r = p THEN q ELSE poll[r]
  BY DEF TypeInv
<1>3. ASSUME submits <= 1, NEW r \in Polls PROVE AnswerHasNoGap(r)'
  <2>1. CASE r = p
    BY <2>1, <1>2, <1>3 DEF NoGapIn, AnswerHasNoGap
  <2>2. CASE r # p
    <3>1. poll'[r] = poll[r] /\ AnswerHasNoGap(r) /\ poll[r].since \in Nat
      BY <2>2, <1>2, <1>3 DEF GapInv, TypeInv, PollType
    <3> QED
      BY <3>1, <1>1 DEF AnswerHasNoGap
  <2> QED
    BY <2>1, <2>2
<1> QED
  BY <1>3

\* On a page submitted once every event is of the one task.
LEMMA OneTask ==
    ASSUME TypeInv, NamesInv, CountInv, submits <= 1
    PROVE  \A t, u \in Created : t = u
<1>1. PICK m \in 0..MaxTasks : Created = 1..m /\ m <= submits
  BY DEF CountInv
<1>2. m \in Nat /\ m <= 1
  BY <1>1, PageAssumption DEF TypeInv
<1> QED
  BY <1>1, <1>2

\* Every step keeps the list and the answers without a gap.
LEMMA GapStep ==
    ASSUME IInv, Next
    PROVE  GapInv'
<1> USE DEF IInv, server, page
<1>1. ASSUME NEW t \in Tasks, AppendEvent(t) PROVE GapInv'
  <2>1. PICK n \in 0..MaxEvents : Used = 1..n /\ n + 1 \in EventIds /\ Used' = 1..(n + 1)
    BY <1>1, Appended
  <2>2. UNCHANGED <<shown, lastEventId, poll, submits>>
    BY <1>1 DEF AppendEvent
  <2>3. n \in Nat /\ lastEventId \in Nat /\ lastEventId <= n
    BY <2>1, WatermarkIs, PageAssumption
  <2>4. \A i \in Used' : i <= n => i \in Used
    BY <2>1, <2>3
  <2>5. NoGapInEventList'
    <3>1. \A i \in Used' : i <= lastEventId => i \in Used
      BY <2>1, <2>3
    <3> QED
      BY <2>2, <3>1 DEF GapInv, NoGapInEventList
  <2>6. ASSUME submits <= 1, NEW p \in Polls PROVE AnswerHasNoGap(p)'
    <3>1. AnswerHasNoGap(p) /\ poll[p].events \subseteq 1..n
      BY <2>1, <2>6 DEF GapInv, NamesInv
    <3>2. \A i \in Used', j \in poll[p].events : i <= j => i \in Used
      BY <2>1, <2>3, <3>1
    <3> QED
      BY <2>2, <3>1, <3>2 DEF AnswerHasNoGap
  <2> QED
    BY <2>2, <2>5, <2>6 DEF GapInv
<1>2. ASSUME NEW t \in Tasks, ChangeApproval(t) PROVE GapInv'
  <2>1. UNCHANGED <<owner, shown, lastEventId, poll, submits>>
    BY <1>2 DEF ChangeApproval
  <2> QED
    BY <2>1 DEF GapInv, NoGapInEventList, AnswerHasNoGap, Used
<1>3. ASSUME NEW t \in Tasks, EndTask(t) PROVE GapInv'
  <2>1. UNCHANGED <<owner, shown, lastEventId, poll, submits>>
    BY <1>3 DEF EndTask
  <2> QED
    BY <2>1 DEF GapInv, NoGapInEventList, AnswerHasNoGap, Used
<1>4. ASSUME NEW p \in Polls, Serve(p) PROVE GapInv'
  <2>1. PICK q \in PollType :
             /\ poll' = [poll EXCEPT ![p] = q]
             /\ q.at = poll[p].at /\ q.task = poll[p].task /\ q.since = poll[p].since
             /\ q.events = {i \in EventsSince(poll[p].task, poll[p].since) : poll[p].at = "events"}
             /\ poll[p] # Idle
    BY <1>4, Served
  <2>2. UNCHANGED <<owner, shown, lastEventId, submits>> /\ Used' = Used
    BY <1>4 DEF Serve, Used
  <2>3. lastEventId \in Nat /\ poll[p].task \in Created
    BY <2>1, WatermarkIs DEF NamesInv
  <2>4. ASSUME submits <= 1, q.at = "events", NEW i \in Used, q.since < i PROVE i \in q.events
    <3>1. owner[i] = poll[p].task /\ i \in EventIds
      BY <2>3, <2>4, OneTask DEF NamesInv, Used
    <3>2. i > poll[p].since
      BY <2>1, <2>4, PageAssumption DEF PollType, Used, EventIds
    <3> QED
      BY <2>1, <2>4, <3>1, <3>2 DEF EventsSince
  <2>5. submits <= 1 /\ q.at = "events" => q.since <= lastEventId
    BY <2>1 DEF GapInv, AnswerHasNoGap
  <2>6. submits <= 1 => NoGapIn(q)'
    BY <2>2, <2>4, <2>5 DEF NoGapIn
  <2>7. UNCHANGED <<owner, submits>> /\ lastEventId' \in Nat /\ lastEventId <= lastEventId'
    BY <2>2, <2>3
  <2>8. submits' <= 1 => \A r \in Polls : AnswerHasNoGap(r)'
    BY <2>1, <2>3, <2>6, <2>7, AnswersKept DEF NoGapIn
  <2> QED
    BY <2>2, <2>8 DEF GapInv, NoGapInEventList
<1>5. ASSUME NEW p \in Polls, ReceiveEvents(p) PROVE GapInv'
  <2> DEFINE E == poll[p].events
             x == NewestId(E)
  <2>1. E \in SUBSET EventIds /\ poll[p].since \in Nat
    BY DEF TypeInv, PollType
  <2>2. x \in Nat /\ (x # 0 => x \in E) /\ lastEventId \in Nat
    BY <2>1, NewestIs, WatermarkIs
  <2>3. /\ shown' = shown \cup E
        /\ lastEventId' = IF x > lastEventId THEN x ELSE lastEventId
        /\ poll[p].served /\ poll[p].at = "events"
        /\ UNCHANGED <<owner, submits>> /\ Used' = Used
    BY <1>5 DEF ReceiveEvents, Used
  <2> HIDE DEF x
  <2>4. lastEventId' \in Nat /\ lastEventId <= lastEventId'
    BY <2>2, <2>3
  <2>5. PICK q : poll' = [poll EXCEPT ![p] = q] /\ q.at # "events"
    BY <1>5, RequestType, PageAssumption DEF ReceiveEvents, TypeInv
  <2>6. submits' <= 1 => \A r \in Polls : AnswerHasNoGap(r)'
    BY <2>2, <2>3, <2>4, <2>5, AnswersKept DEF NoGapIn
  <2>7. ASSUME submits <= 1, NEW i \in Used, i <= lastEventId' PROVE i \in shown \cup E
    <3>1. i \in Nat /\ AnswerHasNoGap(p) /\ (i <= lastEventId => i \in shown)
      BY <2>7, PageAssumption DEF GapInv, NoGapInEventList, Used, EventIds
    <3>2. poll[p].since <= lastEventId /\ \A j \in E : poll[p].since < i /\ i <= j => i \in E
      BY <2>3, <3>1 DEF AnswerHasNoGap
    <3>3. CASE ~(i <= lastEventId)
      <4>1. x > lastEventId /\ i <= x /\ x \in E /\ poll[p].since < i
        BY <2>1, <2>2, <2>3, <2>7, <3>1, <3>2, <3>3
      <4> QED
        BY <3>2, <4>1
    <3> QED
      BY <3>1, <3>3
  <2>8. NoGapInEventList'
    BY <2>3, <2>7 DEF NoGapInEventList
  <2> QED
    BY <2>6, <2>8 DEF GapInv
<1>6. ASSUME NEW p \in Polls, ReceiveApprovals(p) PROVE GapInv'
  <2>0. taskId \in Tasks \cup {NoTask}
    BY WatermarkIs DEF TypeInv, Posting
  <2>1. PICK q : poll' = [poll EXCEPT ![p] = q] /\ q.at # "events"
    <3> DEFINE r == Request("task", taskId, 0)
    <3>1. poll' = [poll EXCEPT ![p] = r]
      BY <1>6 DEF ReceiveApprovals, StartPoll
    <3>2. r.at # "events"
      BY <2>0, RequestType, PageAssumption
    <3> QED
      BY <3>1, <3>2
  <2>2. UNCHANGED <<owner, shown, lastEventId, submits>>
    BY <1>6 DEF ReceiveApprovals
  <2>3. UNCHANGED <<owner, submits>> /\ lastEventId \in Nat /\ lastEventId' \in Nat /\ lastEventId <= lastEventId'
    BY <2>2, WatermarkIs
  <2>4. submits <= 1 => NoGapIn(q)'
    BY <2>1, <2>2, <2>3 DEF NoGapIn
  <2>5. submits' <= 1 => \A r \in Polls : AnswerHasNoGap(r)'
    BY <2>1, <2>2, <2>3, <2>4, AnswersKept DEF NoGapIn
  <2> QED
    BY <2>2, <2>5 DEF GapInv, NoGapInEventList, Used
<1>7. ASSUME NEW p \in Polls, ReceiveTask(p) PROVE GapInv'
  <2>1. PICK q : poll' = [poll EXCEPT ![p] = q] /\ q.at # "events"
    BY <1>7, IdleType DEF ReceiveTask
  <2>2. UNCHANGED <<owner, shown, lastEventId, submits>>
    BY <1>7 DEF ReceiveTask
  <2>3. UNCHANGED <<owner, submits>> /\ lastEventId \in Nat /\ lastEventId' \in Nat /\ lastEventId <= lastEventId'
    BY <2>2, WatermarkIs
  <2>4. submits <= 1 => NoGapIn(q)'
    BY <2>1, <2>2, <2>3 DEF NoGapIn
  <2>5. submits' <= 1 => \A r \in Polls : AnswerHasNoGap(r)'
    BY <2>1, <2>2, <2>3, <2>4, AnswersKept DEF NoGapIn
  <2> QED
    BY <2>2, <2>5 DEF GapInv, NoGapInEventList, Used
<1>8. ASSUME NEW p \in Polls, PollFails(p) PROVE GapInv'
  <2>1. PICK q : poll' = [poll EXCEPT ![p] = q] /\ q.at # "events"
    BY <1>8, IdleType DEF PollFails
  <2>2. UNCHANGED <<owner, shown, lastEventId, submits>>
    BY <1>8 DEF PollFails
  <2>3. UNCHANGED <<owner, submits>> /\ lastEventId \in Nat /\ lastEventId' \in Nat /\ lastEventId <= lastEventId'
    BY <2>2, WatermarkIs
  <2>4. submits <= 1 => NoGapIn(q)'
    BY <2>1, <2>2, <2>3 DEF NoGapIn
  <2>5. submits' <= 1 => \A r \in Polls : AnswerHasNoGap(r)'
    BY <2>1, <2>2, <2>3, <2>4, AnswersKept DEF NoGapIn
  <2> QED
    BY <2>2, <2>5 DEF GapInv, NoGapInEventList, Used
<1>9. ASSUME NEW p \in Polls, Tick(p) PROVE GapInv'
  <2>0. taskId \in Tasks \cup {NoTask} /\ lastEventId \in Nat
    BY WatermarkIs DEF TypeInv, Posting
  <2>1. PICK q : poll' = [poll EXCEPT ![p] = q] /\ q.since = lastEventId /\ ~q.served
    <3> DEFINE r == Request("events", taskId, lastEventId)
    <3>1. poll' = [poll EXCEPT ![p] = r]
      BY <1>9 DEF Tick, StartPoll
    <3>2. r.since = lastEventId /\ ~r.served
      BY <2>0, RequestType
    <3> QED
      BY <3>1, <3>2
  <2>2. UNCHANGED <<owner, shown, lastEventId, submits>>
    BY <1>9 DEF Tick
  <2>3. UNCHANGED <<owner, submits>> /\ lastEventId \in Nat /\ lastEventId' \in Nat /\ lastEventId <= lastEventId'
    BY <2>2, WatermarkIs
  <2>4. submits <= 1 => NoGapIn(q)'
    BY <2>1, <2>2, <2>3 DEF NoGapIn
  <2>5. submits' <= 1 => \A r \in Polls : AnswerHasNoGap(r)'
    BY <2>1, <2>2, <2>3, <2>4, AnswersKept DEF NoGapIn
  <2> QED
    BY <2>2, <2>5 DEF GapInv, NoGapInEventList, Used
<1>10. ASSUME NEW p \in Polls, ReceiveSubmit(p) PROVE GapInv'
  <2>0. posting.task \in Tasks \cup {NoTask} /\ lastEventId \in Nat
    BY WatermarkIs DEF TypeInv, Posting
  <2>1. PICK q : poll' = [poll EXCEPT ![p] = q] /\ q.since = lastEventId /\ ~q.served
    <3> DEFINE r == Request("events", posting.task, lastEventId)
    <3>1. poll' = [poll EXCEPT ![p] = r]
      BY <1>10 DEF ReceiveSubmit, StartPoll
    <3>2. r.since = lastEventId /\ ~r.served
      BY <2>0, RequestType
    <3> QED
      BY <3>1, <3>2
  <2>2. UNCHANGED <<owner, shown, lastEventId, submits>>
    BY <1>10 DEF ReceiveSubmit
  <2>3. UNCHANGED <<owner, submits>> /\ lastEventId \in Nat /\ lastEventId' \in Nat /\ lastEventId <= lastEventId'
    BY <2>2, WatermarkIs
  <2>4. submits <= 1 => NoGapIn(q)'
    BY <2>1, <2>2, <2>3 DEF NoGapIn
  <2>5. submits' <= 1 => \A r \in Polls : AnswerHasNoGap(r)'
    BY <2>1, <2>2, <2>3, <2>4, AnswersKept DEF NoGapIn
  <2> QED
    BY <2>2, <2>5 DEF GapInv, NoGapInEventList, Used
<1>11. ASSUME NEW p \in Polls, ReceiveDecision(p) PROVE GapInv'
  <2>0. taskId \in Tasks \cup {NoTask} /\ lastEventId \in Nat
    BY WatermarkIs DEF TypeInv, Posting
  <2>1. PICK q : poll' = [poll EXCEPT ![p] = q] /\ q.since = lastEventId /\ ~q.served
    <3> DEFINE r == Request("events", taskId, lastEventId)
    <3>1. poll' = [poll EXCEPT ![p] = r]
      BY <1>11 DEF ReceiveDecision, StartPoll
    <3>2. r.since = lastEventId /\ ~r.served
      BY <2>0, RequestType
    <3> QED
      BY <3>1, <3>2
  <2>2. UNCHANGED <<owner, shown, lastEventId, submits>>
    BY <1>11 DEF ReceiveDecision
  <2>3. UNCHANGED <<owner, submits>> /\ lastEventId \in Nat /\ lastEventId' \in Nat /\ lastEventId <= lastEventId'
    BY <2>2, WatermarkIs
  <2>4. submits <= 1 => NoGapIn(q)'
    BY <2>1, <2>2, <2>3 DEF NoGapIn
  <2>5. submits' <= 1 => \A r \in Polls : AnswerHasNoGap(r)'
    BY <2>1, <2>2, <2>3, <2>4, AnswersKept DEF NoGapIn
  <2> QED
    BY <2>2, <2>5 DEF GapInv, NoGapInEventList, Used
<1>12. ASSUME Submit PROVE GapInv'
  <2>1. UNCHANGED <<owner, poll>> /\ submits' = submits + 1 /\ Used' = Used
    BY <1>12 DEF Submit, Used
  <2>2. ASSUME submits' <= 1 PROVE Created = {}
    <3>1. PICK m \in 0..MaxTasks : Created = 1..m /\ m <= submits
      BY DEF CountInv
    <3>2. m = 0
      BY <2>1, <2>2, <3>1, PageAssumption DEF TypeInv
    <3> QED
      BY <3>1, <3>2
  <2>3. submits' <= 1 => Used' = {} /\ \A r \in Polls : poll'[r] = Idle
    BY <2>1, <2>2 DEF NamesInv
  <2> QED
    BY <2>3, IdleType DEF GapInv, NoGapInEventList, AnswerHasNoGap
<1>13. ASSUME ServeSubmit PROVE GapInv'
  <2>1. UNCHANGED <<owner, shown, lastEventId, poll, submits>>
    BY <1>13 DEF ServeSubmit
  <2> QED
    BY <2>1 DEF GapInv, NoGapInEventList, AnswerHasNoGap, Used
<1>14. ASSUME SubmitFails PROVE GapInv'
  <2>1. UNCHANGED <<owner, shown, lastEventId, poll, submits>>
    BY <1>14 DEF SubmitFails
  <2> QED
    BY <2>1 DEF GapInv, NoGapInEventList, AnswerHasNoGap, Used
<1>15. ASSUME ClickDecision PROVE GapInv'
  <2>1. UNCHANGED <<owner, shown, lastEventId, poll, submits>>
    BY <1>15 DEF ClickDecision
  <2> QED
    BY <2>1 DEF GapInv, NoGapInEventList, AnswerHasNoGap, Used
<1> QED
  BY <1>1, <1>2, <1>3, <1>4, <1>5, <1>6, <1>7, <1>8, <1>9, <1>10,
     <1>11, <1>12, <1>13, <1>14, <1>15
     DEF Next, User, Server, Answers, PollStep

(***************************************************************************)
(* The theorems                                                            *)
(***************************************************************************)
LEMMA Start == ASSUME Init PROVE IInv
<1> USE DEF Init, NoTask
<1>1. Used = {} /\ Created = {} /\ \A p \in Polls : poll[p] = Idle
  BY DEF Used, Created
<1>2. TypeInv
  <2>1. poll \in [Polls -> PollType] /\ posting \in Posting /\ failures \in 0..MaxFailures
    BY IdleType, PageAssumption DEF Posting
  <2>2. /\ owner \in [EventIds -> Tasks \cup {NoTask}] /\ shown \in SUBSET EventIds
        /\ state \in [Tasks -> TERMINAL \cup {"absent", "RUNNING"}]
    OBVIOUS
  <2> QED
    BY <2>1, <2>2 DEF TypeInv
<1>3. NamesInv
  BY <1>1, IdleType DEF NamesInv
<1>4. 0 \in 0..MaxEvents /\ 0 \in 0..MaxTasks /\ 1..0 = {}
  BY PageAssumption
<1>5. CountInv
  BY <1>1, <1>4 DEF CountInv
<1>6. WatermarkIsNewestShown
  BY NewestIs DEF WatermarkIsNewestShown
<1>7. GapInv
  BY <1>1, IdleType DEF GapInv, NoGapInEventList, AnswerHasNoGap
<1> QED
  BY <1>2, <1>3, <1>5, <1>6, <1>7 DEF IInv

LEMMA Invariant == Spec => []IInv
<1>1. Init => IInv
  BY Start
<1>2. IInv /\ [Next]_vars => IInv'
  <2>1. ASSUME IInv, Next PROVE IInv'
    <3>1. TypeInv'
      BY <2>1, TypeStep DEF IInv
    <3>2. NamesInv'
      BY <2>1, NamesStep DEF IInv
    <3>3. CountInv'
      BY <2>1, CountStep DEF IInv
    <3>4. WatermarkIsNewestShown'
      BY <2>1, WatermarkStep DEF IInv
    <3>5. GapInv'
      BY <2>1, GapStep
    <3> QED
      BY <3>1, <3>2, <3>3, <3>4, <3>5 DEF IInv
  <2>2. ASSUME IInv, UNCHANGED vars PROVE IInv'
    BY <2>2 DEF IInv, TypeInv, NamesInv, CountInv, WatermarkIsNewestShown, GapInv,
                NoGapInEventList, AnswerHasNoGap, Used, Created, vars, server, page
  <2> QED
    BY <2>1, <2>2
<1> QED
  BY <1>1, <1>2, PTL DEF Spec

\* The page and the tables have their types, and everything the page names exists.
THEOREM PageTypeCorrect == Spec => []TypeOK
<1>1. ASSUME IInv PROVE TypeOK
  <2>1. lastEventId \in EventIds \cup {0}
    BY <1>1, WatermarkIs DEF IInv
  <2>2. \A p \in Polls : poll[p] = Idle \/ poll[p].task \in Created
    BY <1>1 DEF IInv, NamesInv
  <2>3. intervals \in 0..1 /\ taskId \in Created \cup {NoTask}
    BY <1>1 DEF IInv, TypeInv, NamesInv
  <2> QED
    BY <1>1, <2>1, <2>2, <2>3 DEF IInv, TypeInv, NamesInv, TypeOK
<1> QED
  BY <1>1, Invariant, PTL

\* poll() never lowers the watermark below an event the list shows, however the answers of
\* overlapping polls overtake each other.
THEOREM WatermarkIsNewest == Spec => []WatermarkIsNewestShown
<1>1. IInv => WatermarkIsNewestShown
  BY DEF IInv
<1> QED
  BY <1>1, Invariant, PTL

\* On a page whose form was submitted once the list shows every event up to the watermark.
THEOREM NoGaps == Spec => []NoGapInEventList
<1>1. IInv => NoGapInEventList
  BY DEF IInv, GapInv
<1> QED
  BY <1>1, Invariant, PTL

(***************************************************************************)
(* Why polling stops                                                       *)
(***************************************************************************)
\* The steps a poll still has before it: each request is served and then received.
StepsLeft(p) ==
    CASE poll[p].at = "events" -> IF poll[p].served THEN 5 ELSE 6
      [] poll[p].at = "approvals" -> IF poll[p].served THEN 3 ELSE 4
      [] poll[p].at = "task" -> IF poll[p].served THEN 1 ELSE 2
      [] OTHER -> 0

\* The task of the page has ended, and its timer is still running.
TimerOutlivesTask == taskId \in Tasks /\ state[taskId] \in TERMINAL /\ intervals # 0

\* The polls whose last answer does not tell the page so: they asked for another task, or
\* were answered while the task was running.
Stale ==
    {p \in Polls : /\ poll[p].at = "task"
                   /\ \/ poll[p].task # taskId
                      \/ poll[p].served /\ poll[p].state \notin TERMINAL}

\* The polls that can still be lost: the stale ones, and one for each request that can fail.
LostPolls == Cardinality(Stale) + (MaxFailures - failures)

\* A poll in flight only ever comes nearer to its end.  While the timer outlives the task of
\* the page, no poll becomes stale, and each poll that ends without stopping the timer is one
\* of the polls that can still be lost.
PollsRunOut ==
    [][/\ \A p \in Polls : poll[p] # Idle /\ poll'[p] # poll[p] => StepsLeft(p)' < StepsLeft(p)
       /\ TimerOutlivesTask /\ TimerOutlivesTask' /\ taskId' = taskId =>
             /\ LostPolls' <= LostPolls
             /\ \A p \in Polls : poll[p] # Idle /\ poll'[p] = Idle => LostPolls' < LostPolls]_vars

\* A poll is in flight exactly as long as it awaits one of the three answers.
InFlightInv == \A p \in Polls : poll[p] = Idle \/ poll[p].at \in {"events", "approvals", "task"}

\* How a poll can change.
LEMMA PollChanges ==
    ASSUME TypeInv, NamesInv, Next, NEW p \in Polls, poll'[p] # poll[p]
    PROVE  \/ poll[p] = Idle /\ poll'[p] = Request("events", taskId', lastEventId)
           \/ Serve(p) \/ ReceiveEvents(p) \/ ReceiveApprovals(p) \/ ReceiveTask(p)
           \/ poll'[p] = Idle /\ poll[p] # Idle /\ failures' = failures + 1
<1>1. ASSUME NEW q \in Polls, NEW r, poll' = [poll EXCEPT ![q] = r]
      PROVE  p = q /\ poll'[p] = r
  BY <1>1 DEF TypeInv
<1>2. ASSUME User \/ Server \/ ServeSubmit \/ SubmitFails PROVE FALSE
  BY <1>2 DEF User, Server, Submit, ClickDecision, AppendEvent, ChangeApproval, EndTask,
     ServeSubmit, SubmitFails
<1>3. ASSUME NEW q \in Polls, ReceiveSubmit(q) \/ ReceiveDecision(q) \/ Tick(q)
      PROVE  poll[p] = Idle /\ poll'[p] = Request("events", taskId', lastEventId)
  <2>1. /\ poll[q] = Idle
        /\ poll' = [poll EXCEPT ![q] = Request("events", taskId', lastEventId)]
    BY <1>3 DEF ReceiveSubmit, ReceiveDecision, Tick, StartPoll, page
  <2> QED
    BY <1>1, <2>1
<1>4. ASSUME NEW q \in Polls, PollFails(q)
      PROVE  poll'[p] = Idle /\ poll[p] # Idle /\ failures' = failures + 1
  BY <1>1, <1>4 DEF PollFails
<1>5. ASSUME NEW q \in Polls, PollStep(q)
      PROVE  p = q
  <2>1. \E r : poll' = [poll EXCEPT ![q] = r]
    <3>1. CASE Serve(q)
      BY <3>1, Served
    <3>2. CASE ReceiveEvents(q) \/ ReceiveApprovals(q) \/ ReceiveTask(q)
      BY <3>2 DEF ReceiveEvents, ReceiveApprovals, ReceiveTask
    <3> QED
      BY <1>5, <3>1, <3>2 DEF PollStep
  <2> QED
    BY <1>1, <2>1
<1> QED
  BY <1>2, <1>3, <1>4, <1>5 DEF Next, Answers, PollStep

\* What the last answer of a poll says.
LEMMA ServedState ==
    ASSUME TypeInv, NEW p \in Polls, Serve(p)
    PROVE  /\ poll'[p].at = poll[p].at /\ poll'[p].task = poll[p].task
           /\ poll'[p].served /\ ~poll[p].served /\ poll[p] # Idle
           /\ poll[p].at = "task" => poll'[p].state = state[poll[p].task]
  BY DEF Serve, TypeInv, PollType

\* What the answers leave behind.
LEMMA Received ==
    ASSUME TypeInv, NEW p \in Polls
    PROVE  /\ ReceiveEvents(p) => /\ poll[p].at = "events" /\ poll[p].served
                                  /\ poll'[p].at = "approvals" /\ poll'[p].served = FALSE
           /\ ReceiveApprovals(p) => /\ poll[p].at = "approvals" /\ poll[p].served
                                     /\ poll'[p].at = "task" /\ poll'[p].task = taskId
                                     /\ poll'[p].served = FALSE
           /\ ReceiveTask(p) => /\ poll[p].at = "task" /\ poll[p].served /\ poll'[p] = Idle
                                /\ (poll[p].state \in TERMINAL => intervals' = 0)
<1>1. /\ ReceiveEvents(p) => poll'[p] = Request("approvals", taskId, 0)
      /\ ReceiveApprovals(p) => poll'[p] = Request("task", taskId, 0)
  BY DEF ReceiveEvents, ReceiveApprovals, TypeInv
<1>2. /\ Request("approvals", taskId, 0).at = "approvals"
      /\ Request("approvals", taskId, 0).served = FALSE
  BY DEF Request, Idle
<1>3. /\ Request("task", taskId, 0).at = "task" /\ Request("task", taskId, 0).task = taskId
      /\ Request("task", taskId, 0).served = FALSE
  BY DEF Request, Idle
<1>4. ReceiveTask(p) => /\ poll[p].at = "task" /\ poll[p].served /\ poll'[p] = Idle
                        /\ (poll[p].state \in TERMINAL => intervals' = 0)
  BY DEF ReceiveTask, TypeInv
<1>5. /\ ReceiveEvents(p) => poll[p].at = "events" /\ poll[p].served
      /\ ReceiveApprovals(p) => poll[p].at = "approvals" /\ poll[p].served
  BY DEF ReceiveEvents, ReceiveApprovals
<1> QED
  BY <1>1, <1>2, <1>3, <1>4, <1>5

\* Every step keeps the polls in flight or ends them.
LEMMA InFlightStep ==
    ASSUME IInv, InFlightInv, [Next]_vars
    PROVE  InFlightInv'
<1> SUFFICES ASSUME NEW p \in Polls, poll'[p] # poll[p]
             PROVE  poll'[p] = Idle \/ poll'[p].at \in {"events", "approvals", "task"}
  BY DEF InFlightInv
<1>1. Next /\ TypeInv /\ NamesInv
  BY DEF vars, IInv
<1>2. CASE Serve(p)
  <2>1. poll'[p].at = poll[p].at /\ poll[p] # Idle
    BY <1>1, <1>2, ServedState
  <2> QED
    BY <2>1 DEF InFlightInv
<1>3. CASE poll[p] = Idle /\ poll'[p] = Request("events", taskId', lastEventId)
  <2>1. Request("events", taskId', lastEventId).at = "events"
    BY DEF Request, Idle
  <2> QED
    BY <1>3, <2>1
<1>4. CASE ReceiveEvents(p) \/ ReceiveApprovals(p) \/ ReceiveTask(p)
  BY <1>1, <1>4, Received
<1>5. CASE poll'[p] = Idle
  BY <1>5
<1> QED
  BY <1>1, <1>2, <1>3, <1>4, <1>5, PollChanges

\* A poll in flight uses up its steps.
LEMMA PollShortens ==
    ASSUME TypeInv, NamesInv, InFlightInv, Next, NEW p \in Polls, poll'[p] # poll[p],
           poll[p] # Idle
    PROVE  StepsLeft(p)' < StepsLeft(p)
<1>1. StepsLeft(p) \in 1..6 /\ Idle.at = "idle"
  BY DEF StepsLeft, InFlightInv, Idle
<1>2. CASE Serve(p)
  <2>1. /\ poll'[p].at = poll[p].at /\ poll'[p].served /\ ~poll[p].served
        /\ poll[p].at \in {"events", "approvals", "task"}
    BY <1>2, ServedState DEF InFlightInv
  <2> QED
    BY <2>1 DEF StepsLeft
<1>3. CASE ReceiveEvents(p)
  <2>1. poll[p].at = "events" /\ poll[p].served /\ poll'[p].at = "approvals" /\ ~poll'[p].served
    BY <1>3, Received
  <2> QED
    BY <2>1 DEF StepsLeft
<1>4. CASE ReceiveApprovals(p)
  <2>1. poll[p].at = "approvals" /\ poll[p].served /\ poll'[p].at = "task" /\ ~poll'[p].served
    BY <1>4, Received
  <2> QED
    BY <2>1 DEF StepsLeft
<1>5. CASE poll'[p] = Idle
  <2>1. StepsLeft(p)' = 0
    BY <1>1, <1>5 DEF StepsLeft
  <2> QED
    BY <1>1, <2>1
<1>6. ReceiveTask(p) => poll'[p] = Idle
  BY Received
<1> QED
  BY <1>2, <1>3, <1>4, <1>5, <1>6, PollChanges

\* While the timer outlives the task, no poll becomes stale.
LEMMA StaleShrinks ==
    ASSUME TypeInv, NamesInv, Next, TimerOutlivesTask, TimerOutlivesTask', taskId' = taskId
    PROVE  Stale' \subseteq Stale
<1> SUFFICES ASSUME NEW p \in Polls, p \in Stale'
             PROVE  p \in Stale
  BY DEF Stale
<1>1. /\ poll'[p].at = "task"
      /\ \/ poll'[p].task # taskId
         \/ poll'[p].served /\ poll'[p].state \notin TERMINAL
  BY DEF Stale
<1>2. CASE poll'[p] = poll[p]
  BY <1>1, <1>2 DEF Stale
<1>3. CASE poll'[p] # poll[p]
  <2>1. CASE Serve(p)
    <3>1. /\ poll'[p].task = poll[p].task /\ poll[p].at = "task"
          /\ poll'[p].state = state[poll[p].task]
      BY <1>1, <2>1, ServedState
    <3>2. CASE poll[p].task = taskId
      BY <1>1, <3>1, <3>2 DEF TimerOutlivesTask
    <3>3. CASE poll[p].task # taskId
      BY <3>1, <3>3 DEF Stale
    <3> QED
      BY <3>2, <3>3
  <2>2. CASE ReceiveApprovals(p)
    <3>1. poll'[p].task = taskId /\ poll'[p].served = FALSE
      BY <2>2, Received
    <3> QED
      BY <1>1, <3>1
  <2>3. CASE ReceiveEvents(p)
    BY <1>1, <2>3, Received
  <2>4. ~(poll'[p] = Idle) /\ ~(poll'[p] = Request("events", taskId', lastEventId))
    <3>1. Idle.at = "idle" /\ Request("events", taskId', lastEventId).at = "events"
      BY DEF Request, Idle
    <3> QED
      BY <1>1, <3>1
  <2>5. ~ReceiveTask(p)
    BY <2>4, Received
  <2> QED
    BY <1>3, <2>1, <2>2, <2>3, <2>4, <2>5, PollChanges
<1> QED
  BY <1>2, <1>3

\* No request un-fails.
LEMMA FailuresGrow ==
    ASSUME TypeInv, Next
    PROVE  failures' = failures \/ failures' = failures + 1
<1>1. CASE User \/ Server \/ ServeSubmit \/ SubmitFails
  BY <1>1 DEF User, Server, Submit, ClickDecision, AppendEvent, ChangeApproval, EndTask,
     ServeSubmit, SubmitFails
<1>2. ASSUME NEW p \in Polls, ReceiveSubmit(p) \/ ReceiveDecision(p) \/ PollFails(p) \/ Tick(p)
      PROVE  failures' = failures \/ failures' = failures + 1
  BY <1>2 DEF ReceiveSubmit, ReceiveDecision, PollFails, Tick
<1>3. ASSUME NEW p \in Polls, PollStep(p)
      PROVE  failures' = failures
  BY <1>3 DEF PollStep, Serve, ReceiveEvents, ReceiveApprovals, ReceiveTask
<1> QED
  BY <1>1, <1>2, <1>3 DEF Next, Answers

\* Fewer stale polls or one more failed request leave fewer polls to be lost.
LEMMA LostShrinks ==
    ASSUME TypeInv, TypeInv', Stale' \subseteq Stale,
           failures' = failures \/ failures' = failures + 1
    PROVE  /\ LostPolls \in Nat /\ LostPolls' <= LostPolls
           /\ Stale' # Stale \/ failures' = failures + 1 => LostPolls' < LostPolls
<1>1. IsFiniteSet(Stale)
  <2>1. Stale \in SUBSET Polls
    BY DEF Stale
  <2> QED
    BY <2>1, FS_Subset, PageAssumption
<1>2. /\ Cardinality(Stale') <= Cardinality(Stale) /\ IsFiniteSet(Stale')
      /\ Cardinality(Stale) = Cardinality(Stale') => Stale = Stale'
  BY <1>1, FS_Subset
<1>3. Cardinality(Stale) \in Nat /\ Cardinality(Stale') \in Nat
  BY <1>1, <1>2, FS_CardinalityType
<1>4. /\ MaxFailures \in Nat /\ failures \in 0..MaxFailures /\ failures' \in 0..MaxFailures
  BY PageAssumption DEF TypeInv
<1>5. LostPolls = Cardinality(Stale) + (MaxFailures - failures)
      /\ LostPolls' = Cardinality(Stale') + (MaxFailures - failures')
  BY DEF LostPolls
<1> QED
  BY <1>2, <1>3, <1>4, <1>5

\* While the timer outlives the task, a poll that ends is one of those that can be lost.
LEMMA PollIsLost ==
    ASSUME TypeInv, TypeInv', NamesInv, Next, TimerOutlivesTask, TimerOutlivesTask',
           taskId' = taskId, NEW p \in Polls, poll[p] # Idle, poll'[p] = Idle
    PROVE  LostPolls' < LostPolls
<1>1. Stale' \subseteq Stale /\ (failures' = failures \/ failures' = failures + 1)
  BY StaleShrinks, FailuresGrow
<1>2. CASE failures' = failures + 1
  BY <1>1, <1>2, LostShrinks
<1>3. CASE failures' # failures + 1
  <2>1. ReceiveTask(p)
    <3>1. ~Serve(p) /\ ~ReceiveEvents(p) /\ ~ReceiveApprovals(p)
      <4>1. Idle.at = "idle" /\ Idle.served = FALSE
        BY DEF Idle
      <4> QED
        BY <4>1, ServedState, Received
    <3> QED
      BY <1>3, <3>1, PollChanges
  <2>2. /\ poll[p].at = "task" /\ poll[p].served /\ poll[p].state \notin TERMINAL
    BY <2>1, Received DEF TimerOutlivesTask
  <2>3. p \in Stale /\ p \notin Stale'
    <3>1. Idle.at # "task"
      BY DEF Idle
    <3> QED
      BY <2>2, <3>1 DEF Stale
  <2> QED
    BY <1>1, <2>3, LostShrinks
<1> QED
  BY <1>2, <1>3

\* Every step lets the polls run out.
LEMMA RunOutStep ==
    ASSUME IInv, IInv', InFlightInv, [Next]_vars
    PROVE  [/\ \A p \in Polls :
                  poll[p] # Idle /\ poll'[p] # poll[p] => StepsLeft(p)' < StepsLeft(p)
            /\ TimerOutlivesTask /\ TimerOutlivesTask' /\ taskId' = taskId =>
                  /\ LostPolls' <= LostPolls
                  /\ \A p \in Polls : poll[p] # Idle /\ poll'[p] = Idle
                                         => LostPolls' < LostPolls]_vars
<1>1. ASSUME Next
      PROVE  /\ \A p \in Polls :
                   poll[p] # Idle /\ poll'[p] # poll[p] => StepsLeft(p)' < StepsLeft(p)
             /\ TimerOutlivesTask /\ TimerOutlivesTask' /\ taskId' = taskId =>
                   /\ LostPolls' <= LostPolls
                   /\ \A p \in Polls : poll[p] # Idle /\ poll'[p] = Idle
                                          => LostPolls' < LostPolls
  <2>1. TypeInv /\ NamesInv /\ TypeInv'
    BY DEF IInv
  <2>2. \A p \in Polls : poll[p] # Idle /\ poll'[p] # poll[p] => StepsLeft(p)' < StepsLeft(p)
    BY <1>1, <2>1, PollShortens
  <2>3. ASSUME TimerOutlivesTask, TimerOutlivesTask', taskId' = taskId
        PROVE  LostPolls' <= LostPolls
    <3>1. Stale' \subseteq Stale /\ (failures' = failures \/ failures' = failures + 1)
      BY <1>1, <2>1, <2>3, StaleShrinks, FailuresGrow
    <3> QED
      BY <2>1, <3>1, LostShrinks
  <2>4. ASSUME TimerOutlivesTask, TimerOutlivesTask', taskId' = taskId,
               NEW p \in Polls, poll[p] # Idle, poll'[p] = Idle
        PROVE  LostPolls' < LostPolls
    BY <1>1, <2>1, <2>4, PollIsLost
  <2> QED
    BY <2>2, <2>3, <2>4
<1> QED
  BY <1>1

\* For every number of polls in flight, tasks, events and failures: a poll has six steps at
\* most, and once the task of the page has ended at most as many polls as there are stale
\* ones and requests that fail can end without stopping the timer; with requests that are
\* answered and a timer that fires this is why PollingStops holds.
THEOREM EndedTasksStopTheTimer == Spec => PollsRunOut /\ [](LostPolls \in Nat)
<1>1. Init => InFlightInv
  BY DEF Init, InFlightInv
<1>2. IInv => LostPolls \in Nat
  <2> SUFFICES ASSUME IInv PROVE LostPolls \in Nat
    OBVIOUS
  <2>1. Stale \in SUBSET Polls /\ failures \in 0..MaxFailures
    BY DEF Stale, IInv, TypeInv
  <2>2. Cardinality(Stale) \in Nat
    BY <2>1, FS_Subset, FS_CardinalityType, PageAssumption
  <2> QED
    BY <2>1, <2>2, PageAssumption DEF LostPolls
<1>3. IInv /\ InFlightInv /\ [Next]_vars => InFlightInv'
  BY InFlightStep
<1>4. IInv /\ IInv' /\ InFlightInv /\ [Next]_vars
         => [/\ \A p \in Polls :
                   poll[p] # Idle /\ poll'[p] # poll[p] => StepsLeft(p)' < StepsLeft(p)
             /\ TimerOutlivesTask /\ TimerOutlivesTask' /\ taskId' = taskId =>
                   /\ LostPolls' <= LostPolls
                   /\ \A p \in Polls : poll[p] # Idle /\ poll'[p] = Idle
                                          => LostPolls' < LostPolls]_vars
  BY RunOutStep
<1> QED
  BY <1>1, <1>2, <1>3, <1>4, Invariant, PTL DEF Spec, PollsRunOut
=============================================================================
