---------------------------- MODULE DemoViewProofs ----------------------------
(***************************************************************************)
(* Proofs about the demo view for every number of polls, of runs started   *)
(* on the page and of requests that fail.                                  *)
(***************************************************************************)
EXTENDS DemoView, FiniteSetTheorems, TLAPS

States == DONE \cup {"absent", "RUNNING"}
RunType == [state : States, approval : {"none", "PENDING", "settled"}, allPass : BOOLEAN]
PollType == [at : {"idle", "run", "approvals", "raw"}, id : Runs \cup {NoRun}, served : BOOLEAN,
             got : [state : States, allPass : BOOLEAN], pending : BOOLEAN]

\* The variables the proofs read have the shape of Init.
TypeOK ==
    /\ run \in [Runs -> RunType]
    /\ intervals \in Nat /\ startEnabled \in BOOLEAN
    /\ posting \in [Runs -> {"no", "sent", "served", "over"}]
    /\ poll \in [Polls -> PollType]
    /\ demoRunId \in Runs \cup {NoRun}
    /\ banner \in {"", "prep", "wait", "run", "ok", "cancel", "fail"}

Waiting(r) == posting[r] \in {"sent", "served"}

\* Somebody will enable a disabled Start.
StartInv ==
    /\ intervals \in {0, 1}
    /\ ~startEnabled => intervals = 1 \/ \E r \in Runs : Waiting(r)

Passed(r) == run[r].state \in DONE /\ run[r].allPass

\* The clicks so far are numbered without a gap, and a run comes into being only when its POST
\* is served: so no run starts twice.
ClickInv ==
    /\ \E n \in 0..MaxStarts : Clicked = 1..n
    /\ \A r \in Runs : posting[r] \in {"no", "sent"} => run[r].state = "absent"

\* Nothing polls, and no approval is decided, before the page has a run.
PollInv ==
    /\ demoRunId \notin Runs => intervals = 0 /\ panel = NoRun /\ ~deciding
    /\ \A p \in Polls : poll[p].at # "idle" => demoRunId \in Runs /\ poll[p].id \in Runs

\* A passed verdict that the page holds, in an answer or in its banner, is that of some run.
VerdictInv ==
    /\ \A p \in Polls : poll[p].got.state \in DONE /\ poll[p].got.allPass => \E r \in Runs : Passed(r)
    /\ banner = "ok" => \E r \in Runs : Passed(r)

IInv == TypeOK /\ StartInv /\ ClickInv /\ PollInv /\ VerdictInv

\* What an answer changes of a poll: the run, its conditions, or that an approval is pending.
LEMMA RunServed ==
    ASSUME TypeOK, NEW p \in Polls, poll[p].id \in Runs, ServeRun(p)
    PROVE  /\ poll' \in [Polls -> PollType]
           /\ \A q \in Polls : poll'[q].at = poll[q].at /\ poll'[q].id = poll[q].id
<1>1. PICK pass \in BOOLEAN :
          poll' = [poll EXCEPT ![p] = [poll[p] EXCEPT !.served = TRUE,
                                                      !.got = Answer(run[poll[p].id].state, pass)]]
  BY DEF ServeRun
<1> DEFINE got == Answer(run[poll[p].id].state, pass)
           x == [poll[p] EXCEPT !.served = TRUE, !.got = got]
<1>2. got \in [state : States, allPass : BOOLEAN]
  BY DEF TypeOK, RunType, Answer
<1>3. poll[p] \in PollType
  BY DEF TypeOK
<1> HIDE DEF got
<1>4. x \in PollType /\ x.at = poll[p].at /\ x.id = poll[p].id
  BY <1>2, <1>3 DEF PollType
<1>5. poll' = [poll EXCEPT ![p] = x]
  BY <1>1 DEF got
<1> QED
  BY <1>4, <1>5 DEF TypeOK

LEMMA RestServed ==
    ASSUME TypeOK, NEW p \in Polls, ServeRest(p)
    PROVE  /\ poll' \in [Polls -> PollType]
           /\ \A q \in Polls : /\ poll'[q].at = poll[q].at /\ poll'[q].id = poll[q].id
                             /\ poll'[q].got = poll[q].got
<1> DEFINE b == IF poll[p].at = "raw" THEN poll[p].pending ELSE run[poll[p].id].approval = "PENDING"
           x == [poll[p] EXCEPT !.served = TRUE, !.pending = b]
<1>1. poll' = [poll EXCEPT ![p] = x]
  BY DEF ServeRest
<1>2. poll[p] \in PollType
  BY DEF TypeOK
<1>3. b \in BOOLEAN
  BY <1>2 DEF PollType
<1> HIDE DEF b
<1>4. x \in PollType /\ x.at = poll[p].at /\ x.id = poll[p].id /\ x.got = poll[p].got
  BY <1>2, <1>3 DEF PollType
<1> QED
  BY <1>1, <1>2, <1>4 DEF TypeOK

\* A request is a poll again, and so is an idle one.
LEMMA Asked ==
    ASSUME TypeOK, NEW p \in Polls, NEW at \in {"run", "approvals", "raw"},
           NEW id \in Runs \cup {NoRun}
    PROVE  Ask(p, at, id) \in PollType /\ Idle \in PollType
<1>1. poll[p] \in PollType
  BY DEF TypeOK
<1>2. Ask(p, at, id) \in PollType
  BY <1>1 DEF Ask, PollType
<1>3. Idle \in PollType
  BY DEF Idle, Answer, PollType, States
<1> QED
  BY <1>2, <1>3

\* What changes of a run while it goes on.
LEMMA RunChanged ==
    ASSUME TypeOK, NEW r \in Runs, NEW s \in States, NEW a \in {"PENDING", "settled"}, NEW b \in BOOLEAN
    PROVE  /\ [run EXCEPT ![r] = [run[r] EXCEPT !.approval = a]] \in [Runs -> RunType]
           /\ [run EXCEPT ![r] = [run[r] EXCEPT !.state = s]] \in [Runs -> RunType]
           /\ [run EXCEPT ![r] = [run[r] EXCEPT !.state = s, !.allPass = b]] \in [Runs -> RunType]
<1>1. run[r] \in RunType
  BY DEF TypeOK
<1>2. /\ [run[r] EXCEPT !.approval = a] \in RunType
      /\ [run[r] EXCEPT !.state = s] \in RunType
      /\ [run[r] EXCEPT !.state = s, !.allPass = b] \in RunType
  BY <1>1 DEF RunType
<1> QED
  BY <1>2 DEF TypeOK

\* Every step keeps the shape.
LEMMA TypeStep ==
    ASSUME TypeOK, PollInv, Next
    PROVE  TypeOK'
<1> USE DEF page
<1>1. ASSUME NEW r \in Runs, AskApproval(r) PROVE TypeOK'
  <2>1. run' = [run EXCEPT ![r] = [run[r] EXCEPT !.approval = "PENDING"]]
    BY <1>1 DEF AskApproval
  <2>2. run' \in [Runs -> RunType]
    BY <2>1, RunChanged DEF States
  <2> QED
    BY <2>2, <1>1 DEF AskApproval, TypeOK
<1>2. ASSUME NEW r \in Runs, SettleApproval(r) PROVE TypeOK'
  <2>1. run' = [run EXCEPT ![r] = [run[r] EXCEPT !.approval = "settled"]]
    BY <1>2 DEF SettleApproval
  <2>2. run' \in [Runs -> RunType]
    BY <2>1, RunChanged DEF States
  <2> QED
    BY <2>2, <1>2 DEF SettleApproval, TypeOK
<1>3. ASSUME NEW r \in Runs, EndRun(r) PROVE TypeOK'
  <2>1. PICK s \in DONE, pass \in BOOLEAN :
            run' = [run EXCEPT ![r] = [run[r] EXCEPT !.state = s, !.allPass = pass]]
    BY <1>3 DEF EndRun
  <2>2. run' \in [Runs -> RunType]
    BY <2>1, RunChanged DEF States
  <2> QED
    BY <2>2, <1>3 DEF EndRun, TypeOK
<1>4. ASSUME NEW r \in Runs, RunDemo(r) PROVE TypeOK'
  BY <1>4 DEF RunDemo, TypeOK
<1>5. ASSUME NEW r \in Runs, ServeStart(r) PROVE TypeOK'
  <2>1. run' = [run EXCEPT ![r] = [run[r] EXCEPT !.state = "RUNNING"]]
    BY <1>5 DEF ServeStart
  <2>2. run' \in [Runs -> RunType]
    BY <2>1, RunChanged DEF States
  <2> QED
    BY <2>2, <1>5 DEF ServeStart, TypeOK
<1>6. ASSUME NEW r \in Runs, StartFails(r) PROVE TypeOK'
  BY <1>6 DEF StartFails, TypeOK
<1>7. ASSUME NEW p \in Polls, ServeRun(p) PROVE TypeOK'
  <2>1. poll[p].id \in Runs
    BY <1>7 DEF ServeRun, PollInv
  <2>2. poll' \in [Polls -> PollType]
    BY <2>1, <1>7, RunServed
  <2> QED
    BY <2>2, <1>7 DEF ServeRun, TypeOK
<1>8. ASSUME NEW p \in Polls, ServeRest(p) PROVE TypeOK'
  <2>1. poll' \in [Polls -> PollType]
    BY <1>8, RestServed
  <2> QED
    BY <2>1, <1>8 DEF ServeRest, TypeOK
<1>9. ASSUME NEW p \in Polls, ReceiveRun(p) PROVE TypeOK'
  <2>1. poll' \in [Polls -> PollType]
    BY <1>9, Asked DEF ReceiveRun, TypeOK
  <2> QED
    BY <2>1, <1>9 DEF ReceiveRun, TypeOK
<1>10. ASSUME NEW p \in Polls, ReceiveApprovals(p) PROVE TypeOK'
  <2>1. poll' \in [Polls -> PollType]
    BY <1>10, Asked DEF ReceiveApprovals, TypeOK
  <2> QED
    BY <2>1, <1>10 DEF ReceiveApprovals, Acceptance, TypeOK
<1>11. ASSUME NEW p \in Polls, ReceiveApprovalsUnrendered(p) PROVE TypeOK'
  <2>1. poll' \in [Polls -> PollType]
    BY <1>11, Asked DEF ReceiveApprovalsUnrendered, Conclude, TypeOK
  <2> QED
    BY <2>1, <1>11 DEF ReceiveApprovalsUnrendered, Conclude, TypeOK
<1>12. ASSUME NEW p \in Polls, ReceiveRaw(p) PROVE TypeOK'
  <2>1. poll' \in [Polls -> PollType]
    BY <1>12, Asked DEF ReceiveRaw, Conclude, TypeOK
  <2> QED
    BY <2>1, <1>12 DEF ReceiveRaw, Conclude, TypeOK
<1>13. ASSUME NEW p \in Polls, Tick(p) PROVE TypeOK'
  <2>1. poll' \in [Polls -> PollType]
    BY <1>13, Asked DEF Tick, StartPoll, TypeOK
  <2> QED
    BY <2>1, <1>13 DEF Tick, StartPoll, TypeOK
<1>14. ASSUME NEW p \in Polls, RawFails(p) PROVE TypeOK'
  <2>1. poll' \in [Polls -> PollType]
    BY <1>14, Asked DEF RawFails, Conclude, TypeOK
  <2> QED
    BY <2>1, <1>14 DEF RawFails, Conclude, TypeOK
<1>15. ASSUME NEW p \in Polls, PollFails(p) PROVE TypeOK'
  <2>1. poll' \in [Polls -> PollType]
    BY <1>15, Asked DEF PollFails, TypeOK
  <2> QED
    BY <2>1, <1>15 DEF PollFails, TypeOK
<1>16. ASSUME NEW p \in Polls, ReceiveDecision(p) PROVE TypeOK'
  <2>1. poll' \in [Polls -> PollType]
    BY <1>16, Asked DEF ReceiveDecision, StartPoll, TypeOK
  <2> QED
    BY <2>1, <1>16 DEF ReceiveDecision, StartPoll, TypeOK
<1>17. ASSUME NEW r \in Runs, NEW p \in Polls, ReceiveStart(r, p) PROVE TypeOK'
  <2>1. poll' \in [Polls -> PollType]
    BY <1>17, Asked DEF ReceiveStart, StartPoll, TypeOK
  <2> QED
    BY <2>1, <1>17 DEF ReceiveStart, StartPoll, TypeOK
<1>18. ASSUME ClickDecision PROVE TypeOK'
  BY <1>18 DEF ClickDecision, TypeOK
<1> QED
  BY <1>1, <1>2, <1>3, <1>4, <1>5, <1>6, <1>7, <1>8, <1>9, <1>10,
     <1>11, <1>12, <1>13, <1>14, <1>15, <1>16, <1>17, <1>18
     DEF Next, PollStep, StartStep

\* Every step leaves a disabled Start to somebody.
LEMMA StartKept ==
    ASSUME TypeOK, StartInv, Next
    PROVE  StartInv'
<1> USE DEF TypeOK, RunType, PollType, States, StartInv, Waiting, page, StartPoll, Ask, Idle, Conclude, Answer, DONE
<1>1. ASSUME NEW r \in Runs, AskApproval(r) PROVE StartInv'
  BY <1>1 DEF AskApproval
<1>2. ASSUME NEW r \in Runs, SettleApproval(r) PROVE StartInv'
  BY <1>2 DEF SettleApproval
<1>3. ASSUME NEW r \in Runs, EndRun(r) PROVE StartInv'
  BY <1>3 DEF EndRun
<1>4. ASSUME NEW r \in Runs, RunDemo(r) PROVE StartInv'
  BY <1>4 DEF RunDemo
<1>5. ASSUME NEW r \in Runs, ServeStart(r) PROVE StartInv'
  BY <1>5 DEF ServeStart
<1>6. ASSUME NEW r \in Runs, StartFails(r) PROVE StartInv'
  BY <1>6 DEF StartFails
<1>7. ASSUME NEW p \in Polls, ServeRun(p) PROVE StartInv'
  BY <1>7 DEF ServeRun
<1>8. ASSUME NEW p \in Polls, ServeRest(p) PROVE StartInv'
  BY <1>8 DEF ServeRest
<1>9. ASSUME NEW p \in Polls, ReceiveRun(p) PROVE StartInv'
  BY <1>9 DEF ReceiveRun
<1>10. ASSUME NEW p \in Polls, ReceiveApprovals(p) PROVE StartInv'
  BY <1>10 DEF ReceiveApprovals
<1>11. ASSUME NEW p \in Polls, ReceiveApprovalsUnrendered(p) PROVE StartInv'
  BY <1>11 DEF ReceiveApprovalsUnrendered
<1>12. ASSUME NEW p \in Polls, ReceiveRaw(p) PROVE StartInv'
  BY <1>12 DEF ReceiveRaw
<1>13. ASSUME NEW p \in Polls, Tick(p) PROVE StartInv'
  BY <1>13 DEF Tick
<1>14. ASSUME NEW p \in Polls, RawFails(p) PROVE StartInv'
  BY <1>14 DEF RawFails
<1>15. ASSUME NEW p \in Polls, PollFails(p) PROVE StartInv'
  BY <1>15 DEF PollFails
<1>16. ASSUME NEW p \in Polls, ReceiveDecision(p) PROVE StartInv'
  BY <1>16 DEF ReceiveDecision
<1>17. ASSUME NEW r \in Runs, NEW p \in Polls, ReceiveStart(r, p) PROVE StartInv'
  BY <1>17 DEF ReceiveStart
<1>18. ASSUME ClickDecision PROVE StartInv'
  BY <1>18 DEF ClickDecision
<1> QED
  BY <1>1, <1>2, <1>3, <1>4, <1>5, <1>6, <1>7, <1>8, <1>9, <1>10,
     <1>11, <1>12, <1>13, <1>14, <1>15, <1>16, <1>17, <1>18
     DEF Next, PollStep, StartStep

\* Numbers without a gap are counted by the last of them.
LEMMA ClicksCounted ==
    ASSUME NEW n \in Nat
    PROVE  Cardinality(1..n) = n
<1>1. 1 \in Int /\ n \in Int
  OBVIOUS
<1>2. Cardinality(1..n) = IF 1 > n THEN 0 ELSE n - 1 + 1
  BY <1>1, FS_Interval, Zenon
<1> QED
  BY <1>2

\* The next click has the next number.
LEMMA NextClick ==
    ASSUME TypeOK, NEW r \in Runs, RunDemo(r), NEW n \in 0..MaxStarts, Clicked = 1..n
    PROVE  posting[r] = "no" /\ n + 1 \in 0..MaxStarts /\ Clicked' = 1..(n + 1)
<1>1. n \in Nat /\ MaxStarts \in Nat
  BY DemoPageAssumption
<1>2. r = n + 1
  BY <1>1, ClicksCounted DEF RunDemo
<1>3. r \in 1..MaxStarts
  BY DEF Runs
<1>4. r \notin Clicked
  BY <1>1, <1>2
<1>5. posting[r] = "no"
  BY <1>4 DEF Clicked
<1>6. Clicked' = Clicked \cup {r}
  BY DEF RunDemo, Clicked, TypeOK, RunType, PollType, States
<1>7. 1..(n + 1) = 1..n \cup {n + 1}
  BY <1>1
<1> QED
  BY <1>1, <1>2, <1>3, <1>5, <1>6, <1>7

\* Every step keeps the clicks numbered and starts no run twice.
LEMMA ClickKept ==
    ASSUME TypeOK, ClickInv, Next
    PROVE  ClickInv'
<1> USE DEF TypeOK, RunType, PollType, States, ClickInv, page, StartPoll, Ask, Idle, Conclude, Answer, DONE
<1>1. ASSUME NEW r \in Runs, AskApproval(r) PROVE ClickInv'
  <2>1. \A q \in Runs : run[q].state = "absent" => run'[q].state = "absent"
    BY <1>1 DEF AskApproval
  <2>2. posting' = posting
    BY <1>1 DEF AskApproval
  <2> QED
    BY <2>1, <2>2 DEF Clicked
<1>2. ASSUME NEW r \in Runs, SettleApproval(r) PROVE ClickInv'
  <2>1. \A q \in Runs : run[q].state = "absent" => run'[q].state = "absent"
    BY <1>2 DEF SettleApproval
  <2>2. posting' = posting
    BY <1>2 DEF SettleApproval
  <2> QED
    BY <2>1, <2>2 DEF Clicked
<1>3. ASSUME NEW r \in Runs, EndRun(r) PROVE ClickInv'
  <2>1. \A q \in Runs : run[q].state = "absent" => run'[q].state = "absent"
    BY <1>3 DEF EndRun
  <2>2. posting' = posting
    BY <1>3 DEF EndRun
  <2> QED
    BY <2>1, <2>2 DEF Clicked
<1>4. ASSUME NEW r \in Runs, RunDemo(r) PROVE ClickInv'
  <2>1. PICK n \in 0..MaxStarts : Clicked = 1..n
    OBVIOUS
  <2>2. posting[r] = "no" /\ n + 1 \in 0..MaxStarts /\ Clicked' = 1..(n + 1)
    BY <2>1, <1>4, NextClick
  <2>3. \A q \in Runs : posting'[q] \in {"no", "sent"} => run'[q].state = "absent"
    BY <2>2, <1>4 DEF RunDemo
  <2> QED
    BY <2>2, <2>3
<1>5. ASSUME NEW r \in Runs, ServeStart(r) PROVE ClickInv'
  <2>1. Clicked' = Clicked
    BY <1>5 DEF ServeStart, Clicked
  <2> QED
    BY <2>1, <1>5 DEF ServeStart
<1>6. ASSUME NEW r \in Runs, StartFails(r) PROVE ClickInv'
  <2>1. Clicked' = Clicked
    BY <1>6 DEF StartFails, Clicked
  <2> QED
    BY <2>1, <1>6 DEF StartFails
<1>7. ASSUME NEW p \in Polls, ServeRun(p) PROVE ClickInv'
  <2>1. Clicked' = Clicked
    BY <1>7 DEF ServeRun, Clicked
  <2> QED
    BY <2>1, <1>7 DEF ServeRun
<1>8. ASSUME NEW p \in Polls, ServeRest(p) PROVE ClickInv'
  <2>1. Clicked' = Clicked
    BY <1>8 DEF ServeRest, Clicked
  <2> QED
    BY <2>1, <1>8 DEF ServeRest
<1>9. ASSUME NEW p \in Polls, ReceiveRun(p) PROVE ClickInv'
  <2>1. Clicked' = Clicked
    BY <1>9 DEF ReceiveRun, Clicked
  <2> QED
    BY <2>1, <1>9 DEF ReceiveRun
<1>10. ASSUME NEW p \in Polls, ReceiveApprovals(p) PROVE ClickInv'
  <2>1. Clicked' = Clicked
    BY <1>10 DEF ReceiveApprovals, Clicked
  <2> QED
    BY <2>1, <1>10 DEF ReceiveApprovals
<1>11. ASSUME NEW p \in Polls, ReceiveApprovalsUnrendered(p) PROVE ClickInv'
  <2>1. Clicked' = Clicked
    BY <1>11 DEF ReceiveApprovalsUnrendered, Clicked
  <2> QED
    BY <2>1, <1>11 DEF ReceiveApprovalsUnrendered
<1>12. ASSUME NEW p \in Polls, ReceiveRaw(p) PROVE ClickInv'
  <2>1. Clicked' = Clicked
    BY <1>12 DEF ReceiveRaw, Clicked
  <2> QED
    BY <2>1, <1>12 DEF ReceiveRaw
<1>13. ASSUME NEW p \in Polls, Tick(p) PROVE ClickInv'
  <2>1. Clicked' = Clicked
    BY <1>13 DEF Tick, Clicked
  <2> QED
    BY <2>1, <1>13 DEF Tick
<1>14. ASSUME NEW p \in Polls, RawFails(p) PROVE ClickInv'
  <2>1. Clicked' = Clicked
    BY <1>14 DEF RawFails, Clicked
  <2> QED
    BY <2>1, <1>14 DEF RawFails
<1>15. ASSUME NEW p \in Polls, PollFails(p) PROVE ClickInv'
  <2>1. Clicked' = Clicked
    BY <1>15 DEF PollFails, Clicked
  <2> QED
    BY <2>1, <1>15 DEF PollFails
<1>16. ASSUME NEW p \in Polls, ReceiveDecision(p) PROVE ClickInv'
  <2>1. Clicked' = Clicked
    BY <1>16 DEF ReceiveDecision, Clicked
  <2> QED
    BY <2>1, <1>16 DEF ReceiveDecision
<1>17. ASSUME NEW r \in Runs, NEW p \in Polls, ReceiveStart(r, p) PROVE ClickInv'
  <2>1. Clicked' = Clicked
    BY <1>17 DEF ReceiveStart, Clicked
  <2> QED
    BY <2>1, <1>17 DEF ReceiveStart
<1>18. ASSUME ClickDecision PROVE ClickInv'
  <2>1. Clicked' = Clicked
    BY <1>18 DEF ClickDecision, Clicked
  <2> QED
    BY <2>1, <1>18 DEF ClickDecision
<1> QED
  BY <1>1, <1>2, <1>3, <1>4, <1>5, <1>6, <1>7, <1>8, <1>9, <1>10,
     <1>11, <1>12, <1>13, <1>14, <1>15, <1>16, <1>17, <1>18
     DEF Next, PollStep, StartStep

\* A live timer has a run to poll.
LEMMA TimerHasRun ==
    ASSUME StartInv, PollInv, NEW p \in Polls, Tick(p)
    PROVE  demoRunId \in Runs
<1>1. intervals \in {0, 1} /\ intervals > 0
  BY DEF StartInv, Tick
<1>2. intervals = 1
  BY <1>1
<1> QED
  BY <1>2 DEF PollInv

\* Every step keeps polls away from a page without a run.
LEMMA PollKept ==
    ASSUME TypeOK, StartInv, PollInv, Next
    PROVE  PollInv'
<1> USE DEF TypeOK, RunType, PollType, States, PollInv, StartInv, page, StartPoll, Ask, Idle, Conclude, Answer, DONE
<1>1. ASSUME NEW r \in Runs, AskApproval(r) PROVE PollInv'
  BY <1>1 DEF AskApproval
<1>2. ASSUME NEW r \in Runs, SettleApproval(r) PROVE PollInv'
  BY <1>2 DEF SettleApproval
<1>3. ASSUME NEW r \in Runs, EndRun(r) PROVE PollInv'
  BY <1>3 DEF EndRun
<1>4. ASSUME NEW r \in Runs, RunDemo(r) PROVE PollInv'
  BY <1>4 DEF RunDemo
<1>5. ASSUME NEW r \in Runs, ServeStart(r) PROVE PollInv'
  BY <1>5 DEF ServeStart
<1>6. ASSUME NEW r \in Runs, StartFails(r) PROVE PollInv'
  BY <1>6 DEF StartFails
<1>7. ASSUME NEW p \in Polls, ServeRun(p) PROVE PollInv'
  BY <1>7, RunServed DEF ServeRun
<1>8. ASSUME NEW p \in Polls, ServeRest(p) PROVE PollInv'
  BY <1>8, RestServed DEF ServeRest
<1>9. ASSUME NEW p \in Polls, ReceiveRun(p) PROVE PollInv'
  BY <1>9 DEF ReceiveRun
<1>10. ASSUME NEW p \in Polls, ReceiveApprovals(p) PROVE PollInv'
  BY <1>10 DEF ReceiveApprovals
<1>11. ASSUME NEW p \in Polls, ReceiveApprovalsUnrendered(p) PROVE PollInv'
  BY <1>11 DEF ReceiveApprovalsUnrendered
<1>12. ASSUME NEW p \in Polls, ReceiveRaw(p) PROVE PollInv'
  BY <1>12 DEF ReceiveRaw
<1>13. ASSUME NEW p \in Polls, Tick(p) PROVE PollInv'
  <2>1. demoRunId \in Runs
    BY <1>13, TimerHasRun
  <2>2. \A q \in Polls : poll'[q].at # "idle" => poll'[q].id \in Runs
    BY <2>1, <1>13 DEF Tick
  <2> QED
    BY <2>1, <2>2, <1>13 DEF Tick
<1>14. ASSUME NEW p \in Polls, RawFails(p) PROVE PollInv'
  BY <1>14 DEF RawFails
<1>15. ASSUME NEW p \in Polls, PollFails(p) PROVE PollInv'
  BY <1>15 DEF PollFails
<1>16. ASSUME NEW p \in Polls, ReceiveDecision(p) PROVE PollInv'
  BY <1>16 DEF ReceiveDecision
<1>17. ASSUME NEW r \in Runs, NEW p \in Polls, ReceiveStart(r, p) PROVE PollInv'
  BY <1>17 DEF ReceiveStart
<1>18. ASSUME ClickDecision PROVE PollInv'
  BY <1>18 DEF ClickDecision
<1> QED
  BY <1>1, <1>2, <1>3, <1>4, <1>5, <1>6, <1>7, <1>8, <1>9, <1>10,
     <1>11, <1>12, <1>13, <1>14, <1>15, <1>16, <1>17, <1>18
     DEF Next, PollStep, StartStep

\* A run that has passed stays so.
LEMMA PassedStays ==
    ASSUME TypeOK, ClickInv, Next, NEW q \in Runs, Passed(q)
    PROVE  Passed(q)'
<1> USE DEF Passed, TypeOK, RunType, PollType, States, DONE, page
<1>1. ASSUME NEW r \in Runs, AskApproval(r) PROVE Passed(q)'
  BY <1>1 DEF AskApproval
<1>2. ASSUME NEW r \in Runs, SettleApproval(r) PROVE Passed(q)'
  BY <1>2 DEF SettleApproval
<1>3. ASSUME NEW r \in Runs, EndRun(r) PROVE Passed(q)'
  BY <1>3 DEF EndRun
<1>4. ASSUME NEW r \in Runs, RunDemo(r) PROVE Passed(q)'
  BY <1>4 DEF RunDemo
<1>5. ASSUME NEW r \in Runs, ServeStart(r) PROVE Passed(q)'
  BY <1>5 DEF ServeStart, ClickInv
<1>6. ASSUME NEW r \in Runs, StartFails(r) PROVE Passed(q)'
  BY <1>6 DEF StartFails
<1>7. ASSUME UNCHANGED run PROVE Passed(q)'
  BY <1>7
<1> QED
  BY <1>1, <1>2, <1>3, <1>4, <1>5, <1>6, <1>7
     DEF Next, PollStep, StartStep, ServeRun, ServeRest, ReceiveRun, ReceiveApprovals,
         ReceiveApprovalsUnrendered, ReceiveRaw, Tick, RawFails, PollFails, ReceiveDecision,
         ReceiveStart, ClickDecision

\* Every step shows verdicts of runs only.
LEMMA VerdictKept ==
    ASSUME TypeOK, ClickInv, PollInv, VerdictInv, Next
    PROVE  VerdictInv'
<1> USE DEF TypeOK, RunType, PollType, States, VerdictInv, page, StartPoll, Ask, Idle, Conclude, Answer, DONE
<1>1. ASSUME NEW r \in Runs, AskApproval(r) PROVE VerdictInv'
  <2>1. \A q \in Polls : poll'[q].got = poll[q].got
    BY <1>1 DEF AskApproval
  <2>2. banner' = "ok" => banner = "ok"
    BY <1>1 DEF AskApproval
  <2> QED
    BY <2>1, <2>2, PassedStays
<1>2. ASSUME NEW r \in Runs, SettleApproval(r) PROVE VerdictInv'
  <2>1. \A q \in Polls : poll'[q].got = poll[q].got
    BY <1>2 DEF SettleApproval
  <2>2. banner' = "ok" => banner = "ok"
    BY <1>2 DEF SettleApproval
  <2> QED
    BY <2>1, <2>2, PassedStays
<1>3. ASSUME NEW r \in Runs, EndRun(r) PROVE VerdictInv'
  <2>1. \A q \in Polls : poll'[q].got = poll[q].got
    BY <1>3 DEF EndRun
  <2>2. banner' = "ok" => banner = "ok"
    BY <1>3 DEF EndRun
  <2> QED
    BY <2>1, <2>2, PassedStays
<1>4. ASSUME NEW r \in Runs, RunDemo(r) PROVE VerdictInv'
  <2>1. \A q \in Polls : poll'[q].got = poll[q].got
    BY <1>4 DEF RunDemo
  <2>2. banner' = "ok" => banner = "ok"
    BY <1>4 DEF RunDemo
  <2> QED
    BY <2>1, <2>2, PassedStays
<1>5. ASSUME NEW r \in Runs, ServeStart(r) PROVE VerdictInv'
  <2>1. \A q \in Polls : poll'[q].got = poll[q].got
    BY <1>5 DEF ServeStart
  <2>2. banner' = "ok" => banner = "ok"
    BY <1>5 DEF ServeStart
  <2> QED
    BY <2>1, <2>2, PassedStays
<1>6. ASSUME NEW r \in Runs, StartFails(r) PROVE VerdictInv'
  <2>1. \A q \in Polls : poll'[q].got = poll[q].got
    BY <1>6 DEF StartFails
  <2>2. banner' = "ok" => banner = "ok"
    BY <1>6 DEF StartFails
  <2> QED
    BY <2>1, <2>2, PassedStays
<1>7. ASSUME NEW p \in Polls, ServeRun(p) PROVE VerdictInv'
  <2>1. poll[p].id \in Runs
    BY <1>7 DEF ServeRun, PollInv
  <2>2. PICK pass \in BOOLEAN :
            /\ run[poll[p].id].state \in DONE => pass = run[poll[p].id].allPass
            /\ poll' = [poll EXCEPT ![p] = [poll[p] EXCEPT !.served = TRUE,
                                                        !.got = Answer(run[poll[p].id].state, pass)]]
    BY <1>7 DEF ServeRun
  <2>3. poll'[p].got.state \in DONE /\ poll'[p].got.allPass => Passed(poll[p].id)
    BY <2>1, <2>2 DEF Passed
  <2>4. \A q \in Polls : q # p => poll'[q].got = poll[q].got
    BY <2>2
  <2>5. banner' = banner
    BY <1>7 DEF ServeRun
  <2> QED
    BY <2>1, <2>3, <2>4, <2>5, PassedStays
<1>8. ASSUME NEW p \in Polls, ServeRest(p) PROVE VerdictInv'
  <2>1. \A q \in Polls : poll'[q].got = poll[q].got
    BY <1>8, RestServed
  <2>2. banner' = banner
    BY <1>8 DEF ServeRest
  <2> QED
    BY <2>1, <2>2, PassedStays
<1>9. ASSUME NEW p \in Polls, ReceiveRun(p) PROVE VerdictInv'
  <2>1. \A q \in Polls : poll'[q].got = poll[q].got
    BY <1>9 DEF ReceiveRun
  <2>2. banner' = "ok" => banner = "ok"
    BY <1>9 DEF ReceiveRun
  <2> QED
    BY <2>1, <2>2, PassedStays
<1>10. ASSUME NEW p \in Polls, ReceiveApprovals(p) PROVE VerdictInv'
  <2>1. \A q \in Polls : poll'[q].got = poll[q].got
    BY <1>10 DEF ReceiveApprovals
  <2>2. banner' = "ok" => banner = "ok" \/ (poll[p].got.state \in DONE /\ poll[p].got.allPass)
    BY <1>10 DEF ReceiveApprovals, Acceptance
  <2> QED
    BY <2>1, <2>2, PassedStays
<1>11. ASSUME NEW p \in Polls, ReceiveApprovalsUnrendered(p) PROVE VerdictInv'
  <2>1. \A q \in Polls : poll'[q].got.state \in DONE => poll'[q].got = poll[q].got
    BY <1>11 DEF ReceiveApprovalsUnrendered
  <2>2. banner' = "ok" => banner = "ok"
    BY <1>11 DEF ReceiveApprovalsUnrendered
  <2> QED
    BY <2>1, <2>2, PassedStays
<1>12. ASSUME NEW p \in Polls, ReceiveRaw(p) PROVE VerdictInv'
  <2>1. \A q \in Polls : poll'[q].got.state \in DONE => poll'[q].got = poll[q].got
    BY <1>12 DEF ReceiveRaw
  <2>2. banner' = "ok" => banner = "ok"
    BY <1>12 DEF ReceiveRaw
  <2> QED
    BY <2>1, <2>2, PassedStays
<1>13. ASSUME NEW p \in Polls, Tick(p) PROVE VerdictInv'
  <2>1. \A q \in Polls : poll'[q].got = poll[q].got
    BY <1>13 DEF Tick
  <2>2. banner' = "ok" => banner = "ok"
    BY <1>13 DEF Tick
  <2> QED
    BY <2>1, <2>2, PassedStays
<1>14. ASSUME NEW p \in Polls, RawFails(p) PROVE VerdictInv'
  <2>1. \A q \in Polls : poll'[q].got.state \in DONE => poll'[q].got = poll[q].got
    BY <1>14 DEF RawFails
  <2>2. banner' = "ok" => banner = "ok"
    BY <1>14 DEF RawFails
  <2> QED
    BY <2>1, <2>2, PassedStays
<1>15. ASSUME NEW p \in Polls, PollFails(p) PROVE VerdictInv'
  <2>1. \A q \in Polls : poll'[q].got.state \in DONE => poll'[q].got = poll[q].got
    BY <1>15 DEF PollFails
  <2>2. banner' = "ok" => banner = "ok"
    BY <1>15 DEF PollFails
  <2> QED
    BY <2>1, <2>2, PassedStays
<1>16. ASSUME NEW p \in Polls, ReceiveDecision(p) PROVE VerdictInv'
  <2>1. \A q \in Polls : poll'[q].got = poll[q].got
    BY <1>16 DEF ReceiveDecision
  <2>2. banner' = "ok" => banner = "ok"
    BY <1>16 DEF ReceiveDecision
  <2> QED
    BY <2>1, <2>2, PassedStays
<1>17. ASSUME NEW r \in Runs, NEW p \in Polls, ReceiveStart(r, p) PROVE VerdictInv'
  <2>1. \A q \in Polls : poll'[q].got = poll[q].got
    BY <1>17 DEF ReceiveStart
  <2>2. banner' = "ok" => banner = "ok"
    BY <1>17 DEF ReceiveStart
  <2> QED
    BY <2>1, <2>2, PassedStays
<1>18. ASSUME ClickDecision PROVE VerdictInv'
  <2>1. \A q \in Polls : poll'[q].got = poll[q].got
    BY <1>18 DEF ClickDecision
  <2>2. banner' = "ok" => banner = "ok"
    BY <1>18 DEF ClickDecision
  <2> QED
    BY <2>1, <2>2, PassedStays
<1> QED
  BY <1>1, <1>2, <1>3, <1>4, <1>5, <1>6, <1>7, <1>8, <1>9, <1>10,
     <1>11, <1>12, <1>13, <1>14, <1>15, <1>16, <1>17, <1>18
     DEF Next, PollStep, StartStep

\* The invariant holds of every reachable state.
LEMMA Invariant == Spec => []IInv
<1>1. Init => IInv
  <2> SUFFICES ASSUME Init PROVE IInv
    OBVIOUS
  <2>1. TypeOK
    BY DEF Init, TypeOK, RunType, PollType, States, Absent, Idle, Answer
  <2>2. StartInv /\ PollInv /\ VerdictInv
    BY DEF Init, StartInv, PollInv, VerdictInv, Idle, Answer, DONE
  <2>3. Clicked = 1..0 /\ 0 \in 0..MaxStarts
    <3>1. Clicked = {}
      BY DEF Init, Clicked
    <3> QED
      BY <3>1, DemoPageAssumption
  <2>4. ClickInv
    BY <2>3 DEF Init, ClickInv, Absent
  <2> QED
    BY <2>1, <2>2, <2>4 DEF IInv
<1>2. IInv /\ [Next]_vars => IInv'
  <2>1. CASE Next
    BY <2>1, TypeStep, StartKept, ClickKept, PollKept, VerdictKept DEF IInv
  <2>2. CASE UNCHANGED vars
    BY <2>2 DEF IInv, TypeOK, RunType, PollType, States, StartInv, ClickInv, PollInv, VerdictInv, Waiting, Clicked, Passed,
                vars, page
  <2> QED
    BY <2>1, <2>2
<1> QED
  BY <1>1, <1>2, PTL DEF Spec

\* For all polls, starts and failures: the page and its polls keep their types.
THEOREM DemoViewTypeCorrect == Spec => []TypeOK
<1>1. IInv => TypeOK
  BY DEF IInv
<1> QED
  BY <1>1, Invariant, PTL

\* However answers, failures and clicks interleave, there is at most one timer, and a disabled
\* Start has a timer or a POST that will enable it.
THEOREM StartIsAttended == Spec => []DisabledStartIsAttended
<1>1. IInv => DisabledStartIsAttended
  BY DEF IInv, StartInv, Waiting, DisabledStartIsAttended
<1> QED
  BY <1>1, Invariant, PTL

\* A green banner rests on a run that has ended with all its conditions passed.
THEOREM GreenRestsOnARun == Spec => []GreenNeedsAPassedRun
<1>1. IInv => GreenNeedsAPassedRun
  BY DEF IInv, VerdictInv, Passed, GreenNeedsAPassedRun
<1> QED
  BY <1>1, Invariant, PTL

(***************************************************************************)
(* Why Start comes back                                                    *)
(***************************************************************************)
\* The steps a poll still has before it: each request is served and then received.
StepsLeft(p) ==
    CASE poll[p].at = "run" -> IF poll[p].served THEN 5 ELSE 6
      [] poll[p].at = "approvals" -> IF poll[p].served THEN 3 ELSE 4
      [] poll[p].at = "raw" -> IF poll[p].served THEN 1 ELSE 2
      [] OTHER -> 0

\* The runs whose POST is in flight.
Posts == {r \in Runs : Waiting(r)}

ShownRunEnded == demoRunId \in Runs /\ run[demoRunId].state \in DONE

\* A poll that has been told, or will be told, of a run that has ended.
KnowsTheEnd(p) ==
    IF poll[p].at = "run" /\ ~poll[p].served THEN run[poll[p].id].state \in DONE
    ELSE poll[p].got.state \in DONE

\* The polls in flight that will not enable the form.
Stale == {p \in Polls : poll[p].at # "idle" /\ ~KnowsTheEnd(p)}

\* The polls that can still be lost: the stale ones, and one for each request that can fail.
LostPolls == Cardinality(Stale) + (MaxFailures - failures)

\* A poll in flight only ever comes nearer to its end.  While the form is disabled no POST is
\* added, and one is used up when the page turns to another run; and while the run it shows
\* has ended no poll becomes stale, and each poll that ends without enabling the form is one
\* of the polls that can still be lost.
StartIsOnItsWay ==
    [][/\ \A p \in Polls : poll[p] # Idle /\ poll'[p] # poll[p] => StepsLeft(p)' < StepsLeft(p)
       /\ ~startEnabled /\ ~startEnabled' =>
             /\ Cardinality(Posts') <= Cardinality(Posts)
             /\ demoRunId' # demoRunId => Cardinality(Posts') < Cardinality(Posts)
             /\ ShownRunEnded /\ demoRunId' = demoRunId =>
                   /\ LostPolls' <= LostPolls
                   /\ \A p \in Polls : poll[p] # Idle /\ poll'[p] = Idle
                                          => LostPolls' < LostPolls]_vars

\* How a poll can change: it begins, is told of its run, is answered, asks for the next thing,
\* or ends.
Begins(p) ==
    poll[p] = Idle /\ poll'[p].at = "run" /\ ~poll'[p].served /\ poll'[p].id = demoRunId'
IsTold(p) ==
    /\ poll[p].at = "run" /\ ~poll[p].served /\ poll'[p].at = "run" /\ poll'[p].served
    /\ poll'[p].got.state = run[poll[p].id].state
IsAnswered(p) ==
    /\ poll[p].at \in {"approvals", "raw"} /\ ~poll[p].served
    /\ poll'[p].at = poll[p].at /\ poll'[p].served /\ poll'[p].got = poll[p].got
AsksNext(p) ==
    /\ poll[p].served /\ poll[p].at \in {"run", "approvals"}
    /\ poll'[p].at = IF poll[p].at = "run" THEN "approvals" ELSE "raw"
    /\ ~poll'[p].served /\ poll'[p].got = poll[p].got
Ends(p) ==
    /\ poll[p].at \in {"run", "approvals", "raw"} /\ poll'[p] = Idle
    /\ \/ startEnabled'
       \/ poll[p].at # "run" /\ poll[p].got.state \notin DONE
       \/ failures' = failures + 1

\* There is no other way.
LEMMA PollChanges ==
    ASSUME TypeOK, Next, NEW p \in Polls, poll'[p] # poll[p]
    PROVE  Begins(p) \/ IsTold(p) \/ IsAnswered(p) \/ AsksNext(p) \/ Ends(p)
<1>1. ASSUME NEW q \in Polls, NEW r, poll' = [poll EXCEPT ![q] = r]
      PROVE  p = q /\ poll'[p] = r
  BY <1>1 DEF TypeOK
<1>2. \A at, id : Ask(p, at, id).at = at /\ Ask(p, at, id).id = id
                  /\ Ask(p, at, id).served = FALSE /\ Ask(p, at, id).got = poll[p].got
  BY DEF Ask, TypeOK, PollType
<1>3. ASSUME NEW q \in Polls, NEW id, StartPoll(q, id), id = demoRunId' PROVE Begins(p)
  <2>1. poll[q] = Idle /\ p = q /\ poll'[p] = Ask(p, "run", id)
    BY <1>1, <1>3 DEF StartPoll
  <2> QED
    BY <1>2, <1>3, <2>1 DEF Begins
<1>4. ASSUME NEW q \in Polls, Tick(q) \/ ReceiveDecision(q) PROVE Begins(p)
  BY <1>3, <1>4 DEF Tick, ReceiveDecision, page
<1>5. ASSUME NEW q \in Polls, NEW r \in Runs, ReceiveStart(r, q) PROVE Begins(p)
  BY <1>3, <1>5 DEF ReceiveStart
<1>6. ASSUME NEW q \in Polls, ServeRun(q) PROVE IsTold(p)
  <2>1. PICK pass \in BOOLEAN :
          poll' = [poll EXCEPT ![q] = [poll[q] EXCEPT !.served = TRUE,
                                                      !.got = Answer(run[poll[q].id].state, pass)]]
    BY <1>6 DEF ServeRun
  <2>2. /\ p = q /\ poll[p].at = "run" /\ ~poll[p].served
        /\ poll'[p] = [poll[p] EXCEPT !.served = TRUE,
                                      !.got = Answer(run[poll[p].id].state, pass)]
    BY <1>1, <1>6, <2>1 DEF ServeRun
  <2>3. poll[p] \in PollType
    BY DEF TypeOK
  <2> QED
    BY <2>2, <2>3 DEF IsTold, PollType, Answer
<1>7. ASSUME NEW q \in Polls, ServeRest(q) PROVE IsAnswered(p)
  <2> DEFINE waits == IF poll[q].at = "raw" THEN poll[q].pending
                      ELSE run[poll[q].id].approval = "PENDING"
             answer == [poll[q] EXCEPT !.served = TRUE, !.pending = waits]
  <2>1. poll[q].at \in {"approvals", "raw"} /\ ~poll[q].served
        /\ poll' = [poll EXCEPT ![q] = answer]
    BY <1>7 DEF ServeRest
  <2>2. p = q /\ poll'[p] = answer
    BY <1>1, <2>1
  <2>3. poll[q] \in PollType
    BY DEF TypeOK
  <2>4. answer.at = poll[q].at /\ answer.served /\ answer.got = poll[q].got
    <3> HIDE DEF waits
    <3> QED
      BY <2>3 DEF PollType
  <2> QED
    BY <2>1, <2>2, <2>4 DEF IsAnswered
<1>8. ASSUME NEW q \in Polls, ReceiveRun(q) \/ ReceiveApprovals(q) PROVE AsksNext(p)
  <2>1. /\ poll[q].served /\ poll[q].at \in {"run", "approvals"}
        /\ poll' = [poll EXCEPT ![q] =
                      Ask(q, IF poll[q].at = "run" THEN "approvals" ELSE "raw", demoRunId)]
    BY <1>8 DEF ReceiveRun, ReceiveApprovals
  <2>2. /\ p = q
        /\ poll'[p] = Ask(p, IF poll[p].at = "run" THEN "approvals" ELSE "raw", demoRunId)
    BY <1>1, <2>1
  <2> QED
    BY <1>2, <2>1, <2>2 DEF AsksNext
<1>9. ASSUME NEW q \in Polls, ReceiveApprovalsUnrendered(q) \/ ReceiveRaw(q) \/ RawFails(q)
      PROVE  Ends(p)
  <2>1. /\ poll[q].at \in {"approvals", "raw"} /\ poll' = [poll EXCEPT ![q] = Idle]
        /\ startEnabled' = (poll[q].got.state \in DONE \/ startEnabled)
    BY <1>9 DEF ReceiveApprovalsUnrendered, ReceiveRaw, RawFails, Conclude
  <2>2. p = q /\ poll'[p] = Idle
    BY <1>1, <2>1
  <2> QED
    BY <2>1, <2>2 DEF Ends
<1>10. ASSUME NEW q \in Polls, PollFails(q) PROVE Ends(p)
  <2>1. /\ poll[q].at \in {"run", "approvals"} /\ poll' = [poll EXCEPT ![q] = Idle]
        /\ failures' = failures + 1
    BY <1>10 DEF PollFails
  <2> QED
    BY <1>1, <2>1 DEF Ends
<1>11. ASSUME NEW r \in Runs, \/ AskApproval(r) \/ SettleApproval(r) \/ EndRun(r) \/ RunDemo(r)
                              \/ ServeStart(r) \/ StartFails(r)
       PROVE  FALSE
  BY <1>11 DEF AskApproval, SettleApproval, EndRun, RunDemo, ServeStart, StartFails
<1>12. ~ClickDecision
  BY DEF ClickDecision
<1> QED
  BY <1>4, <1>5, <1>6, <1>7, <1>8, <1>9, <1>10, <1>11, <1>12 DEF Next, PollStep, StartStep

\* A poll in flight uses up its steps.
LEMMA PollShortens ==
    ASSUME TypeOK, Next, NEW p \in Polls, poll'[p] # poll[p], poll[p] # Idle
    PROVE  StepsLeft(p)' < StepsLeft(p)
<1>1. Idle.at = "idle"
  BY DEF Idle
<1>2. ~Begins(p)
  BY DEF Begins
<1>3. CASE IsTold(p)
  BY <1>3 DEF IsTold, StepsLeft
<1>4. CASE IsAnswered(p)
  BY <1>4 DEF IsAnswered, StepsLeft
<1>5. CASE AsksNext(p)
  BY <1>5 DEF AsksNext, StepsLeft
<1>6. CASE Ends(p)
  <2>1. StepsLeft(p) \in 1..6 /\ StepsLeft(p)' = 0
    BY <1>1, <1>6 DEF Ends, StepsLeft
  <2> QED
    BY <2>1
<1> QED
  BY <1>2, <1>3, <1>4, <1>5, <1>6, PollChanges

\* A run that has ended stays so.
LEMMA EndedStays ==
    ASSUME TypeOK, ClickInv, Next, NEW q \in Runs, run[q].state \in DONE
    PROVE  run'[q].state \in DONE
<1> USE DEF TypeOK, RunType, States, DONE, page
<1>1. ASSUME NEW r \in Runs, AskApproval(r) \/ SettleApproval(r) \/ EndRun(r)
      PROVE  run'[q].state \in DONE
  BY <1>1 DEF AskApproval, SettleApproval, EndRun
<1>2. ASSUME NEW r \in Runs, ServeStart(r) PROVE run'[q].state \in DONE
  BY <1>2 DEF ServeStart, ClickInv
<1>3. ASSUME UNCHANGED run PROVE run'[q].state \in DONE
  BY <1>3
<1> QED
  BY <1>1, <1>2, <1>3
     DEF Next, PollStep, StartStep, RunDemo, StartFails, ServeRun, ServeRest, ReceiveRun,
         ReceiveApprovals, ReceiveApprovalsUnrendered, ReceiveRaw, Tick, RawFails, PollFails,
         ReceiveDecision, ReceiveStart, ClickDecision

\* While the run the page shows has ended, no poll becomes stale.
LEMMA StaleShrinks ==
    ASSUME TypeOK, ClickInv, PollInv, Next, ShownRunEnded, demoRunId' = demoRunId
    PROVE  Stale' \subseteq Stale
<1> SUFFICES ASSUME NEW p \in Polls, p \in Stale'
             PROVE  p \in Stale
  BY DEF Stale
<1>1. poll'[p].at # "idle" /\ ~KnowsTheEnd(p)'
  BY DEF Stale
<1>2. poll[p].at # "idle" => poll[p].id \in Runs
  BY DEF PollInv
<1>3. CASE poll'[p] = poll[p]
  <2>1. poll[p].at # "idle" /\ poll[p].id \in Runs
    BY <1>1, <1>2, <1>3
  <2>2. ~KnowsTheEnd(p)
    BY <1>1, <1>3, <2>1, EndedStays DEF KnowsTheEnd
  <2> QED
    BY <2>1, <2>2 DEF Stale
<1>4. CASE Begins(p)
  <2>1. run'[demoRunId].state \in DONE
    BY EndedStays DEF ShownRunEnded
  <2> QED
    BY <1>1, <1>4, <2>1 DEF Begins, KnowsTheEnd
<1>5. CASE IsTold(p)
  BY <1>1, <1>5 DEF IsTold, KnowsTheEnd, Stale
<1>6. CASE IsAnswered(p)
  BY <1>1, <1>6 DEF IsAnswered, KnowsTheEnd, Stale
<1>7. CASE AsksNext(p)
  BY <1>1, <1>7 DEF AsksNext, KnowsTheEnd, Stale
<1>8. CASE Ends(p)
  BY <1>1, <1>8 DEF Ends, Idle
<1> QED
  BY <1>3, <1>4, <1>5, <1>6, <1>7, <1>8, PollChanges

\* Failed requests are counted, and their number is bounded.
FailuresInv == failures \in 0..MaxFailures

LEMMA FailuresGrow ==
    ASSUME FailuresInv, Next
    PROVE  FailuresInv' /\ (failures' = failures \/ failures' = failures + 1)
<1> USE DemoPageAssumption DEF FailuresInv
<1>1. ASSUME NEW r \in Runs, \/ AskApproval(r) \/ SettleApproval(r) \/ EndRun(r) \/ RunDemo(r)
                             \/ ServeStart(r) \/ StartFails(r)
      PROVE  FailuresInv' /\ (failures' = failures \/ failures' = failures + 1)
  BY <1>1 DEF AskApproval, SettleApproval, EndRun, RunDemo, ServeStart, StartFails
<1>2. ASSUME NEW p \in Polls, \/ PollStep(p) \/ Tick(p) \/ RawFails(p) \/ PollFails(p)
                              \/ ReceiveDecision(p) \/ \E r \in Runs : ReceiveStart(r, p)
      PROVE  FailuresInv' /\ (failures' = failures \/ failures' = failures + 1)
  BY <1>2 DEF PollStep, ServeRun, ServeRest, ReceiveRun, ReceiveApprovals,
     ReceiveApprovalsUnrendered, ReceiveRaw, Tick, RawFails, PollFails, ReceiveDecision,
     ReceiveStart
<1>3. CASE ClickDecision
  BY <1>3 DEF ClickDecision
<1> QED
  BY <1>1, <1>2, <1>3 DEF Next, StartStep

\* Fewer stale polls or one more failed request leave fewer polls to be lost.
LEMMA LostShrinks ==
    ASSUME FailuresInv, FailuresInv', Stale' \subseteq Stale,
           failures' = failures \/ failures' = failures + 1
    PROVE  /\ LostPolls \in Nat /\ LostPolls' <= LostPolls
           /\ Stale' # Stale \/ failures' = failures + 1 => LostPolls' < LostPolls
<1>1. IsFiniteSet(Stale)
  <2>1. Stale \in SUBSET Polls
    BY DEF Stale
  <2> QED
    BY <2>1, FS_Subset, DemoPageAssumption
<1>2. /\ Cardinality(Stale') <= Cardinality(Stale) /\ IsFiniteSet(Stale')
      /\ Cardinality(Stale) = Cardinality(Stale') => Stale = Stale'
  BY <1>1, FS_Subset
<1>3. Cardinality(Stale) \in Nat /\ Cardinality(Stale') \in Nat
  BY <1>1, <1>2, FS_CardinalityType
<1>4. /\ MaxFailures \in Nat /\ failures \in 0..MaxFailures /\ failures' \in 0..MaxFailures
  BY DemoPageAssumption DEF FailuresInv
<1>5. LostPolls = Cardinality(Stale) + (MaxFailures - failures)
      /\ LostPolls' = Cardinality(Stale') + (MaxFailures - failures')
  BY DEF LostPolls
<1> QED
  BY <1>2, <1>3, <1>4, <1>5

\* A poll that ends without enabling the form is one of those that can be lost.
LEMMA PollIsLost ==
    ASSUME TypeOK, ClickInv, PollInv, FailuresInv, Next, ShownRunEnded, demoRunId' = demoRunId,
           ~startEnabled', NEW p \in Polls, poll[p] # Idle, poll'[p] = Idle
    PROVE  LostPolls' < LostPolls
<1>1. Stale' \subseteq Stale /\ FailuresInv' /\ (failures' = failures \/ failures' = failures + 1)
  BY StaleShrinks, FailuresGrow
<1>2. Ends(p)
  <2>1. Idle.at = "idle"
    BY DEF Idle
  <2> QED
    BY <2>1, PollChanges DEF Begins, IsTold, IsAnswered, AsksNext
<1>3. CASE failures' = failures + 1
  BY <1>1, <1>3, LostShrinks
<1>4. CASE poll[p].at # "run" /\ poll[p].got.state \notin DONE
  <2>1. p \in Stale
    BY <1>2, <1>4 DEF Ends, Stale, KnowsTheEnd
  <2>2. p \notin Stale'
    BY <1>2 DEF Ends, Stale, Idle
  <2> QED
    BY <1>1, <2>1, <2>2, LostShrinks
<1> QED
  BY <1>2, <1>3, <1>4 DEF Ends

\* While the form is disabled no POST is added, and the page turns to a run by using one up.
LEMMA PostsShrink ==
    ASSUME TypeOK, Next, ~startEnabled, ~startEnabled'
    PROVE  Posts' \subseteq Posts /\ (demoRunId' # demoRunId => Posts' # Posts)
<1> USE DEF TypeOK, Posts, Waiting, page
<1>1. ASSUME NEW r \in Runs, AskApproval(r) \/ SettleApproval(r) \/ EndRun(r)
      PROVE  Posts' = Posts /\ demoRunId' = demoRunId
  BY <1>1 DEF AskApproval, SettleApproval, EndRun
<1>2. ASSUME NEW r \in Runs, RunDemo(r) \/ StartFails(r) PROVE FALSE
  BY <1>2 DEF RunDemo, StartFails
<1>3. ASSUME NEW r \in Runs, ServeStart(r)
      PROVE  Posts' = Posts /\ demoRunId' = demoRunId
  BY <1>3 DEF ServeStart
<1>4. ASSUME NEW r \in Runs, NEW p \in Polls, ReceiveStart(r, p)
      PROVE  Posts' \subseteq Posts /\ Posts' # Posts
  <2>1. posting[r] = "served" /\ posting' = [posting EXCEPT ![r] = "over"]
    BY <1>4 DEF ReceiveStart
  <2>2. r \in Posts /\ r \notin Posts'
    BY <2>1
  <2>3. \A q \in Runs : posting'[q] \in {"sent", "served"} => posting[q] \in {"sent", "served"}
    BY <2>1
  <2> QED
    BY <2>2, <2>3
<1>5. ASSUME UNCHANGED <<posting, demoRunId>>
      PROVE  Posts' = Posts /\ demoRunId' = demoRunId
  BY <1>5
<1>6. ASSUME NEW p \in Polls, \/ PollStep(p) \/ Tick(p) \/ RawFails(p) \/ PollFails(p)
                              \/ ReceiveDecision(p)
      PROVE  UNCHANGED <<posting, demoRunId>>
  BY <1>6 DEF PollStep, ServeRun, ServeRest, ReceiveRun, ReceiveApprovals,
     ReceiveApprovalsUnrendered, ReceiveRaw, Tick, RawFails, PollFails, ReceiveDecision, Conclude
<1>7. CASE ClickDecision
  BY <1>7 DEF ClickDecision
<1> QED
  BY <1>1, <1>2, <1>3, <1>4, <1>5, <1>6, <1>7 DEF Next, StartStep

\* The POSTs are counted.
LEMMA PostsCounted ==
    ASSUME Posts' \subseteq Posts
    PROVE  /\ Cardinality(Posts) \in Nat /\ Cardinality(Posts') <= Cardinality(Posts)
           /\ Posts' # Posts => Cardinality(Posts') < Cardinality(Posts)
<1>1. IsFiniteSet(Runs)
  BY FS_Interval, DemoPageAssumption DEF Runs
<1>2. Posts \in SUBSET Runs
  BY DEF Posts
<1>3. IsFiniteSet(Posts)
  BY <1>1, <1>2, FS_Subset
<1>4. /\ Cardinality(Posts') <= Cardinality(Posts) /\ IsFiniteSet(Posts')
      /\ Cardinality(Posts) = Cardinality(Posts') => Posts = Posts'
  BY <1>3, FS_Subset
<1>5. Cardinality(Posts) \in Nat /\ Cardinality(Posts') \in Nat
  BY <1>3, <1>4, FS_CardinalityType
<1> QED
  BY <1>4, <1>5

\* Every step brings Start nearer.
LEMMA StartNearer ==
    ASSUME IInv, FailuresInv, Next
    PROVE  /\ \A p \in Polls :
                 poll[p] # Idle /\ poll'[p] # poll[p] => StepsLeft(p)' < StepsLeft(p)
           /\ ~startEnabled /\ ~startEnabled' =>
                 /\ Cardinality(Posts') <= Cardinality(Posts)
                 /\ demoRunId' # demoRunId => Cardinality(Posts') < Cardinality(Posts)
                 /\ ShownRunEnded /\ demoRunId' = demoRunId =>
                       /\ LostPolls' <= LostPolls
                       /\ \A p \in Polls : poll[p] # Idle /\ poll'[p] = Idle
                                              => LostPolls' < LostPolls
<1>1. TypeOK /\ ClickInv /\ PollInv
  BY DEF IInv
<1>2. \A p \in Polls : poll[p] # Idle /\ poll'[p] # poll[p] => StepsLeft(p)' < StepsLeft(p)
  BY <1>1, PollShortens
<1>3. ASSUME ~startEnabled, ~startEnabled'
      PROVE  /\ Cardinality(Posts') <= Cardinality(Posts)
             /\ demoRunId' # demoRunId => Cardinality(Posts') < Cardinality(Posts)
  BY <1>1, <1>3, PostsShrink, PostsCounted
<1>4. ASSUME ShownRunEnded, demoRunId' = demoRunId
      PROVE  LostPolls' <= LostPolls
  <2>1. Stale' \subseteq Stale /\ FailuresInv'
        /\ (failures' = failures \/ failures' = failures + 1)
    BY <1>1, <1>4, StaleShrinks, FailuresGrow
  <2> QED
    BY <2>1, LostShrinks
<1>5. ASSUME ~startEnabled', ShownRunEnded, demoRunId' = demoRunId,
             NEW p \in Polls, poll[p] # Idle, poll'[p] = Idle
      PROVE  LostPolls' < LostPolls
  BY <1>1, <1>5, PollIsLost
<1> QED
  BY <1>2, <1>3, <1>4, <1>5

\* For every number of polls, starts and failed requests: a poll has six steps at most; a
\* disabled form loses a POST whenever the page turns to another run, and once the run it
\* shows has ended at most as many polls as there are stale ones and requests that fail can
\* end without enabling it.  With requests that are answered, a timer that fires and runs
\* that end this is why StartComesBack holds.
THEOREM DisabledStartComesNearer ==
    Spec => StartIsOnItsWay /\ [](LostPolls \in Nat /\ Cardinality(Posts) \in Nat)
<1>1. Init => FailuresInv
  <2>1. Init => failures = 0
    BY DEF Init
  <2>2. 0 \in 0..MaxFailures
    BY DemoPageAssumption
  <2> QED
    BY <2>1, <2>2 DEF FailuresInv
<1>2. FailuresInv /\ [Next]_vars => FailuresInv'
  BY FailuresGrow DEF FailuresInv, vars
<1>3. FailuresInv => LostPolls \in Nat /\ Cardinality(Posts) \in Nat
  <2> SUFFICES ASSUME FailuresInv PROVE LostPolls \in Nat /\ Cardinality(Posts) \in Nat
    OBVIOUS
  <2>1. Stale \in SUBSET Polls /\ Posts \in SUBSET Runs
    BY DEF Stale, Posts
  <2>2. IsFiniteSet(Runs)
    BY FS_Interval, DemoPageAssumption DEF Runs
  <2>3. Cardinality(Stale) \in Nat /\ Cardinality(Posts) \in Nat
    BY <2>1, <2>2, FS_Subset, FS_CardinalityType, DemoPageAssumption
  <2> QED
    BY <2>3, DemoPageAssumption DEF LostPolls, FailuresInv
<1>4. IInv /\ FailuresInv /\ [Next]_vars
         => [/\ \A p \in Polls :
                   poll[p] # Idle /\ poll'[p] # poll[p] => StepsLeft(p)' < StepsLeft(p)
             /\ ~startEnabled /\ ~startEnabled' =>
                   /\ Cardinality(Posts') <= Cardinality(Posts)
                   /\ demoRunId' # demoRunId => Cardinality(Posts') < Cardinality(Posts)
                   /\ ShownRunEnded /\ demoRunId' = demoRunId =>
                         /\ LostPolls' <= LostPolls
                         /\ \A p \in Polls : poll[p] # Idle /\ poll'[p] = Idle
                                                => LostPolls' < LostPolls]_vars
  BY StartNearer
<1> QED
  BY <1>1, <1>2, <1>3, <1>4, Invariant, PTL DEF Spec, StartIsOnItsWay
=============================================================================
