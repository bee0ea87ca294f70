---------------------------- MODULE DemoRunsProofs ----------------------------
(***************************************************************************)
(* Proofs about the demo run manager for every number of runs, of API      *)
(* workers, of scenarios and of audit events.                              *)
(***************************************************************************)
EXTENDS DemoRuns, SequenceTheorems, TLAPS

Points == {"idle", "sweep", "clean", "pop", "popllm", "made", "registered", "created", "state",
           "answer"}
ThreadPoints == {None, "start", "llm", "running", "ended", "done", "dead", "keyerror"}
States == Terminal \cup {None, "absent", "RUNNING"}
Calls == [at : Points, run : Runs \cup {None}, todo : Seq(Runs), due : SUBSET Runs,
          state : States, events : 0..MaxEvents, then : {None, "sweep", "answer"},
          scenario : Scenarios \cup {None}]

HasRun(c) == c.at \notin {"idle", "sweep"} => c.run \in Runs

\* Every variable holds a value of its kind, and a call that is past the sweep has a run.
TypeInv ==
    /\ dir \subseteq Runs /\ wsLlms \subseteq Runs /\ runMeta \in Seq(Runs)
    /\ wsScenario \in [Runs -> Scenarios \cup {None}]
    /\ asked \in [Runs -> Scenarios \cup {None}]
    /\ harness \in [Runs -> Scenarios \cup {None, "fallback"}]
    /\ task \in [Runs -> Terminal \cup {"absent", "RUNNING"}]
    /\ log \in [Runs -> 0..MaxEvents]
    /\ thread \in [Runs -> ThreadPoints]
    /\ call \in [Workers -> Calls] /\ \A w \in Workers : HasRun(call[w])

\* A run, its thread and what the manager keeps for it.  The dicts are read by the factory
\* while the thread is at "start" and "llm", when the row is not settled.
RunInv ==
    \A r \in Runs :
        /\ asked[r] = None => thread[r] = None /\ r \notin dir
        /\ thread[r] = None <=> task[r] = "absent"
        /\ thread[r] = "done" <=> Settled(r)
        /\ task[r] = "RUNNING" => r \in dir
        /\ thread[r] = "start" => wsScenario[r] = asked[r]
        /\ thread[r] \in {"start", "llm"} => r \in wsLlms
        /\ thread[r] # "keyerror"
        /\ harness[r] \in {None, asked[r]}

Starting(c) == c.at \in {"made", "registered"}
Cleaning(c) == c.at \in {"clean", "pop", "popllm"}

\* A start_run has a scenario, and nobody else has touched the workspace it has made.
StartAt(c) ==
    /\ c.at = "sweep" \/ (Cleaning(c) /\ c.then = "sweep") => c.scenario # None /\ c.state \notin Terminal
    /\ Starting(c) => /\ c.run \in dir /\ thread[c.run] = None
                      /\ asked[c.run] = c.scenario /\ c.scenario # None
    /\ c.at = "registered" => wsScenario[c.run] = c.scenario /\ c.run \in wsLlms

\* Cleanup is for settled runs, and what get_run has read of one is final.
ReadAt(c) ==
    /\ Cleaning(c) => Settled(c.run)
    /\ (Cleaning(c) \/ c.at \in {"state", "answer"}) /\ c.state \in Terminal => task[c.run] = c.state
    /\ (Cleaning(c) \/ c.at = "answer") /\ c.state \in Terminal => c.events = log[c.run]

\* A run the sweep has to reclaim is settled, and has no directory, or rmtree failed on it, or
\* its turn is still to come.
SweepAt(c) ==
    \A r \in c.due :
        /\ Settled(r)
        /\ r \in dir => r \in kept \/ r \in ToSet(c.todo) \/ (c.at = "clean" /\ c.run = r)

CallInv == \A w \in Workers : StartAt(call[w]) /\ ReadAt(call[w]) /\ SweepAt(call[w])

\* Two calls of start_run never work on the same run.
ApartInv ==
    \A v, w \in Workers : Starting(call[v]) /\ Starting(call[w]) /\ call[v].run = call[w].run => v = w

AnswersInv ==
    \A a \in answers : a.run \in Runs /\ a.state \in Terminal /\ a.state = task[a.run] /\ a.events = log[a.run]

IInv ==
    TypeInv /\ RunInv /\ CallInv /\ ApartInv /\ AnswersInv /\ DirectoryStaysReclaimable

(***************************************************************************)
(* Sequences of runs                                                       *)
(***************************************************************************)
\* Appending adds one run to the keys.
LEMMA AppendKeys ==
    ASSUME NEW s \in Seq(Runs), NEW r \in Runs
    PROVE  Append(s, r) \in Seq(Runs) /\ ToSet(Append(s, r)) = ToSet(s) \cup {r}
<1>1. /\ Append(s, r) \in Seq(Runs) /\ Len(Append(s, r)) = Len(s) + 1
      /\ \A i \in 1..Len(s) : Append(s, r)[i] = s[i]
      /\ Append(s, r)[Len(s) + 1] = r
  BY AppendProperties
<1>2. DOMAIN s = 1..Len(s) /\ DOMAIN Append(s, r) = 1..(Len(s) + 1) /\ Len(s) \in Nat
  BY <1>1, LenProperties
<1>3. 1..(Len(s) + 1) = 1..Len(s) \cup {Len(s) + 1}
  BY <1>2
<1> QED
  BY <1>1, <1>2, <1>3 DEF ToSet

\* The keys still to be swept are the head and those of the tail.
LEMMA TailKeys ==
    ASSUME NEW s \in Seq(Runs), s # <<>>
    PROVE  /\ Head(s) \in Runs /\ Tail(s) \in Seq(Runs)
           /\ \A r \in ToSet(s) : r = Head(s) \/ r \in ToSet(Tail(s))
<1>1. /\ Head(s) \in Runs /\ Tail(s) \in Seq(Runs) /\ Len(Tail(s)) = Len(s) - 1
      /\ \A i \in 1..Len(Tail(s)) : Tail(s)[i] = s[i + 1]
  BY HeadTailProperties
<1>2. DOMAIN s = 1..Len(s) /\ DOMAIN Tail(s) = 1..(Len(s) - 1) /\ Len(s) \in Nat
  BY <1>1, LenProperties
<1>3. ASSUME NEW i \in 1..Len(s), i # 1 PROVE s[i] \in ToSet(Tail(s))
  <2>1. i - 1 \in 1..Len(Tail(s)) /\ i - 1 \in DOMAIN Tail(s)
    BY <1>1, <1>2, <1>3
  <2>2. Tail(s)[i - 1] = s[i]
    BY <1>1, <1>2, <2>1
  <2> QED
    BY <2>1, <2>2 DEF ToSet
<1>4. Head(s) = s[1]
  OBVIOUS
<1> QED
  BY <1>1, <1>2, <1>3, <1>4 DEF ToSet

\* An empty sequence has no keys.
LEMMA NoKeys == ToSet(<<>>) = {} /\ <<>> \in Seq(Runs)
  BY EmptySeq DEF ToSet

LEMMA KeysAreRuns ==
    ASSUME NEW s \in Seq(Runs)
    PROVE  ToSet(s) \subseteq Runs
  BY LenProperties, ElementOfSeq DEF ToSet

(***************************************************************************)
(* Types                                                                   *)
(***************************************************************************)
\* The record of a worker between two calls.
LEMMA IdleCall ==
    /\ Idle \in Calls /\ HasRun(Idle)
    /\ Idle.at = "idle" /\ Idle.due = {} /\ Idle.state = None /\ Idle.todo = <<>>
  BY NoKeys, DemoAssumption DEF Idle, Calls, Points, States, HasRun

\* What each step makes of the record of its worker.
Becomes(w, c) == call' = [call EXCEPT ![w] = c] /\ c \in Calls /\ HasRun(c)

LEMMA StartRunCall ==
    ASSUME TypeInv, NEW w \in Workers, StartRun(w)
    PROVE  \E s \in Scenarios :
             Becomes(w, [Idle EXCEPT !.at = "sweep", !.scenario = s, !.todo = runMeta,
                                     !.due = {r \in ToSet(runMeta) : Settled(r)}])
<1>1. PICK s \in Scenarios :
        Become(w, [Idle EXCEPT !.at = "sweep", !.scenario = s, !.todo = runMeta,
                               !.due = {r \in ToSet(runMeta) : Settled(r)}])
  BY DEF StartRun
<1>2. {r \in ToSet(runMeta) : Settled(r)} \in SUBSET Runs /\ runMeta \in Seq(Runs)
  BY KeysAreRuns DEF TypeInv
<1>3. [Idle EXCEPT !.at = "sweep", !.scenario = s, !.todo = runMeta,
                   !.due = {r \in ToSet(runMeta) : Settled(r)}] \in Calls
  BY <1>2, IdleCall DEF Calls, Points
<1>4. HasRun([Idle EXCEPT !.at = "sweep", !.scenario = s, !.todo = runMeta,
                          !.due = {r \in ToSet(runMeta) : Settled(r)}])
  BY IdleCall DEF Calls, HasRun
<1> QED
  BY <1>1, <1>3, <1>4 DEF Becomes, Become

LEMMA SweepNextCall ==
    ASSUME TypeInv, NEW w \in Workers, SweepNext(w)
    PROVE  LET r == Head(call[w].todo)
               c == [call[w] EXCEPT !.at = "clean", !.run = r, !.then = "sweep", !.todo = Tail(@)]
               d == [call[w] EXCEPT !.todo = Tail(@)]
           IN  /\ \/ r \in dir /\ Settled(r) /\ Becomes(w, c)
                  \/ ~(r \in dir /\ Settled(r)) /\ Becomes(w, d)
               /\ call[w].at = "sweep" /\ call[w].todo \in Seq(Runs) /\ call[w].todo # <<>>
               /\ r \in Runs
<1> DEFINE r == Head(call[w].todo)
           c == [call[w] EXCEPT !.at = "clean", !.run = r, !.then = "sweep", !.todo = Tail(@)]
           d == [call[w] EXCEPT !.todo = Tail(@)]
<1>1. call[w] \in Calls /\ call[w].at = "sweep" /\ call[w].todo \in Seq(Runs) /\ call[w].todo # <<>>
  BY DEF TypeInv, SweepNext, At, Calls
<1>2. r \in Runs /\ Tail(call[w].todo) \in Seq(Runs)
  BY <1>1, TailKeys
<1>3. c \in Calls /\ HasRun(c) /\ d \in Calls /\ HasRun(d)
  BY <1>1, <1>2 DEF Calls, Points, HasRun
<1>4. \/ r \in dir /\ Settled(r) /\ call' = [call EXCEPT ![w] = c]
      \/ ~(r \in dir /\ Settled(r)) /\ call' = [call EXCEPT ![w] = d]
  BY DEF SweepNext, Become
<1> HIDE DEF c, d
<1>5. \/ r \in dir /\ Settled(r) /\ Becomes(w, c)
      \/ ~(r \in dir /\ Settled(r)) /\ Becomes(w, d)
  BY <1>3, <1>4 DEF Becomes
<1> QED
  BY <1>1, <1>2, <1>5 DEF c, d

LEMMA MakeWorkspaceCall ==
    ASSUME TypeInv, NEW w \in Workers, MakeWorkspace(w)
    PROVE  \E r \in Runs :
             /\ asked[r] = None /\ dir' = dir \cup {r}
             /\ asked' = [asked EXCEPT ![r] = call[w].scenario]
             /\ Becomes(w, [Idle EXCEPT !.at = "made", !.run = r, !.scenario = call[w].scenario])
<1>1. PICK r \in Runs :
        /\ asked[r] = None /\ dir' = dir \cup {r}
        /\ asked' = [asked EXCEPT ![r] = call[w].scenario]
        /\ Become(w, [Idle EXCEPT !.at = "made", !.run = r, !.scenario = call[w].scenario])
  BY DEF MakeWorkspace
<1>2. call[w] \in Calls
  BY DEF TypeInv
<1>3. [Idle EXCEPT !.at = "made", !.run = r, !.scenario = call[w].scenario] \in Calls
  BY <1>2, IdleCall DEF Calls, Points
<1>4. HasRun([Idle EXCEPT !.at = "made", !.run = r, !.scenario = call[w].scenario])
  BY IdleCall DEF Calls, HasRun
<1> QED
  BY <1>1, <1>3, <1>4 DEF Becomes, Become

LEMMA GetRunCall ==
    ASSUME TypeInv, NEW w \in Workers, GetRun(w)
    PROVE  \E r \in Runs : Becomes(w, [Idle EXCEPT !.at = "state", !.run = r, !.state = task[r]])
<1>1. PICK r \in ToSet(runMeta) : Become(w, [Idle EXCEPT !.at = "state", !.run = r, !.state = task[r]])
  BY DEF GetRun
<1>2. r \in Runs /\ task[r] \in States
  BY KeysAreRuns DEF TypeInv, States
<1>3. [Idle EXCEPT !.at = "state", !.run = r, !.state = task[r]] \in Calls
  BY <1>2, IdleCall DEF Calls, Points
<1>4. HasRun([Idle EXCEPT !.at = "state", !.run = r, !.state = task[r]])
  BY <1>2, IdleCall DEF Calls, HasRun
<1> QED
  BY <1>1, <1>2, <1>3, <1>4 DEF Becomes, Become

LEMMA ReadEventsCall ==
    ASSUME TypeInv, NEW w \in Workers, ReadEvents(w)
    PROVE  LET done == call[w].state \in Terminal IN
           /\ call[w].at = "state" /\ call[w].run \in Runs
           /\ Becomes(w, [call[w] EXCEPT !.events = log[call[w].run],
                                         !.at = IF done THEN "clean" ELSE "answer",
                                         !.then = IF done THEN "answer" ELSE None])
<1> DEFINE c == [call[w] EXCEPT !.events = log[call[w].run],
                                !.at = IF call[w].state \in Terminal THEN "clean" ELSE "answer",
                                !.then = IF call[w].state \in Terminal THEN "answer" ELSE None]
<1>1. call[w] \in Calls /\ call[w].at = "state" /\ call[w].run \in Runs
  BY DEF TypeInv, ReadEvents, At, HasRun
<1>2. log[call[w].run] \in 0..MaxEvents
  BY <1>1 DEF TypeInv
<1>3. c \in Calls /\ HasRun(c)
  BY <1>1, <1>2 DEF Calls, Points, HasRun
<1>4. call' = [call EXCEPT ![w] = c]
  BY DEF ReadEvents, Become
<1> QED
  BY <1>1, <1>3, <1>4 DEF Becomes

\* The steps that only move the record on.
LEMMA MovesCall ==
    ASSUME TypeInv, NEW w \in Workers, NEW from \in Points \ {"idle", "sweep"}, NEW to \in Points,
           call[w].at = from, Become(w, [call[w] EXCEPT !.at = to])
    PROVE  call[w].run \in Runs /\ Becomes(w, [call[w] EXCEPT !.at = to])
<1>1. call[w] \in Calls /\ call[w].run \in Runs
  BY DEF TypeInv, HasRun
<1>2. [call[w] EXCEPT !.at = to] \in Calls /\ HasRun([call[w] EXCEPT !.at = to])
  BY <1>1 DEF Calls, HasRun
<1> QED
  BY <1>1, <1>2 DEF Becomes, Become

LEMMA PopLlmCall ==
    ASSUME TypeInv, NEW w \in Workers, PopLlm(w)
    PROVE  /\ call[w].at = "popllm" /\ call[w].run \in Runs
           /\ Becomes(w, Cleaned(call[w]))
<1>1. call[w] \in Calls /\ call[w].at = "popllm" /\ call[w].run \in Runs
  BY DEF TypeInv, PopLlm, At, HasRun
<1>2. Cleaned(call[w]) \in Calls /\ HasRun(Cleaned(call[w]))
  BY <1>1 DEF Cleaned, Calls, Points, HasRun
<1> QED
  BY <1>1, <1>2 DEF Becomes, Become, PopLlm

\* The steps that end the call.
LEMMA EndsCall ==
    ASSUME TypeInv, NEW w \in Workers, Become(w, Idle)
    PROVE  Becomes(w, Idle)
  BY IdleCall DEF Becomes, Become

\* Every call is a call again.
LEMMA CallTypes ==
    ASSUME TypeInv, NEW w \in Workers, ApiStep(w)
    PROVE  \E c \in Calls : Becomes(w, c)
<1>1. CASE StartRun(w)
  BY <1>1, StartRunCall DEF Becomes
<1>2. CASE SweepNext(w)
  BY <1>2, SweepNextCall DEF Becomes
<1>3. CASE MakeWorkspace(w)
  BY <1>3, MakeWorkspaceCall DEF Becomes
<1>4. CASE RegisterWorkspace(w)
  BY <1>4, MovesCall DEF RegisterWorkspace, At, Points, Becomes
<1>5. CASE CreateTask(w)
  BY <1>5, MovesCall DEF CreateTask, At, Points, Becomes
<1>6. CASE StartRaises(w) \/ RecordMeta(w) \/ Answer(w)
  BY <1>6, EndsCall DEF StartRaises, RecordMeta, Answer, Becomes
<1>7. CASE GetRun(w)
  BY <1>7, GetRunCall DEF Becomes
<1>8. CASE ReadEvents(w)
  BY <1>8, ReadEventsCall DEF Becomes
<1>9. CASE RemoveTree(w)
  BY <1>9, MovesCall DEF RemoveTree, At, Points, Becomes
<1>10. CASE PopScenario(w)
  BY <1>10, MovesCall DEF PopScenario, At, Points, Becomes
<1>11. CASE PopLlm(w)
  BY <1>11, PopLlmCall DEF Becomes
<1> QED
  BY <1>1, <1>2, <1>3, <1>4, <1>5, <1>6, <1>7, <1>8, <1>9, <1>10, <1>11 DEF ApiStep

\* Every step keeps the types.
LEMMA TypeStep ==
    ASSUME TypeInv, Next
    PROVE  TypeInv'
<1> USE DEF shared, run, history
<1>1. ASSUME NEW w \in Workers, ApiStep(w)
      PROVE  TypeInv'
  <2>1. PICK c \in Calls : Becomes(w, c)
    BY <1>1, CallTypes
  <2>2. call' \in [Workers -> Calls] /\ \A v \in Workers : HasRun(call'[v])
    BY <2>1 DEF Becomes, TypeInv
  <2>3. call[w] \in Calls /\ HasRun(call[w])
    BY DEF TypeInv
  <2>4. harness' = harness
    BY <1>1 DEF ApiStep, StartRun, SweepNext, MakeWorkspace, RegisterWorkspace, CreateTask, StartRaises,
                RecordMeta, GetRun, ReadEvents, Answer, RemoveTree, PopScenario, PopLlm
  <2>5. dir' \subseteq Runs /\ log' = log
    BY <1>1 DEF ApiStep, StartRun, SweepNext, MakeWorkspace, RegisterWorkspace, CreateTask, StartRaises,
                RecordMeta, GetRun, ReadEvents, Answer, RemoveTree, PopScenario, PopLlm, TypeInv
  <2>6. runMeta' \in Seq(Runs)
    <3>1. CASE RecordMeta(w)
      BY <2>3, <3>1, AppendKeys DEF RecordMeta, At, HasRun, TypeInv
    <3>2. CASE ~RecordMeta(w)
      BY <1>1, <3>2 DEF ApiStep, StartRun, SweepNext, MakeWorkspace, RegisterWorkspace, CreateTask,
                        StartRaises, GetRun, ReadEvents, Answer, RemoveTree, PopScenario, PopLlm, TypeInv
    <3> QED
      BY <3>1, <3>2
  <2>7. wsLlms' \subseteq Runs /\ wsScenario' \in [Runs -> Scenarios \cup {None}]
    <3>1. CASE RegisterWorkspace(w)
      BY <2>3, <3>1 DEF RegisterWorkspace, At, HasRun, Calls, TypeInv
    <3>2. CASE ~RegisterWorkspace(w)
      BY <1>1, <3>2 DEF ApiStep, StartRun, SweepNext, MakeWorkspace, CreateTask, StartRaises, RecordMeta,
                        GetRun, ReadEvents, Answer, RemoveTree, PopScenario, PopLlm, TypeInv
    <3> QED
      BY <3>1, <3>2
  <2>8. asked' \in [Runs -> Scenarios \cup {None}]
    <3>1. CASE MakeWorkspace(w)
      BY <2>3, <3>1 DEF MakeWorkspace, Calls, TypeInv
    <3>2. CASE ~MakeWorkspace(w)
      BY <1>1, <3>2 DEF ApiStep, StartRun, SweepNext, RegisterWorkspace, CreateTask, StartRaises,
                        RecordMeta, GetRun, ReadEvents, Answer, RemoveTree, PopScenario, PopLlm, TypeInv
    <3> QED
      BY <3>1, <3>2
  <2>9. /\ task' \in [Runs -> Terminal \cup {"absent", "RUNNING"}]
        /\ thread' \in [Runs -> ThreadPoints]
    <3>1. CASE CreateTask(w)
      BY <3>1 DEF CreateTask, ThreadPoints, TypeInv
    <3>2. CASE ~CreateTask(w)
      BY <1>1, <3>2 DEF ApiStep, StartRun, SweepNext, MakeWorkspace, RegisterWorkspace, StartRaises,
                        RecordMeta, GetRun, ReadEvents, Answer, RemoveTree, PopScenario, PopLlm, TypeInv
    <3> QED
      BY <3>1, <3>2
  <2> QED
    BY <2>2, <2>4, <2>5, <2>6, <2>7, <2>8, <2>9 DEF TypeInv
<1>2. ASSUME NEW r \in Runs, ThreadStep(r)
      PROVE  TypeInv'
  <2> USE DEF TypeInv
  <2>1. CASE LookupScenario(r)
    BY <2>1 DEF LookupScenario, ThreadPoints
  <2>2. CASE LookupLlm(r)
    BY <2>2 DEF LookupLlm, ThreadPoints
  <2>3. CASE AppendEvent(r)
    <3>1. log[r] + 1 \in 0..MaxEvents
      BY <2>3, DemoAssumption DEF AppendEvent
    <3> QED
      BY <2>3, <3>1 DEF AppendEvent
  <2>4. CASE HarnessEnds(r) \/ ThreadDies(r)
    BY <2>4 DEF HarnessEnds, ThreadDies, ThreadPoints
  <2>5. CASE WriteTaskState(r)
    BY <2>5, DemoAssumption DEF WriteTaskState, ThreadPoints
  <2> QED
    BY <1>2, <2>1, <2>2, <2>3, <2>4, <2>5 DEF ThreadStep
<1> QED
  BY <1>1, <1>2 DEF Next

(***************************************************************************)
(* What one step leaves alone                                              *)
(***************************************************************************)
\* A settled run is settled for good: its row, its thread and its log do not change.
LEMMA SettledStays ==
    ASSUME TypeInv, RunInv, CallInv, Next, NEW r \in Runs, Settled(r)
    PROVE  task'[r] = task[r] /\ log'[r] = log[r] /\ asked'[r] = asked[r] /\ (r \in dir' => r \in dir)
<1>1. thread[r] = "done" /\ asked[r] # None
  BY DEF RunInv, None
<1>2. ASSUME NEW w \in Workers, ApiStep(w) PROVE task'[r] = task[r] /\ log'[r] = log[r]
  <2>1. CASE CreateTask(w)
    <3>1. call[w].at = "registered" /\ call[w].run # r
      BY <2>1, <1>1 DEF CreateTask, At, CallInv, StartAt, Starting, None
    <3> QED
      BY <2>1, <3>1 DEF CreateTask, TypeInv
  <2>2. CASE ~CreateTask(w)
    BY <1>2, <2>2 DEF ApiStep, StartRun, SweepNext, MakeWorkspace, RegisterWorkspace, StartRaises,
                      RecordMeta, GetRun, ReadEvents, Answer, RemoveTree, PopScenario, PopLlm, shared
  <2> QED
    BY <2>1, <2>2
<1>3. ASSUME NEW w \in Workers, ApiStep(w) PROVE asked'[r] = asked[r] /\ (r \in dir' => r \in dir)
  <2>1. CASE MakeWorkspace(w)
    BY <1>1, <2>1 DEF MakeWorkspace, TypeInv
  <2>2. CASE ~MakeWorkspace(w)
    BY <1>3, <2>2 DEF ApiStep, StartRun, SweepNext, RegisterWorkspace, CreateTask, StartRaises,
                      RecordMeta, GetRun, ReadEvents, Answer, RemoveTree, PopScenario, PopLlm, shared, history
  <2> QED
    BY <2>1, <2>2
<1>4. ASSUME NEW q \in Runs, ThreadStep(q)
      PROVE  task'[r] = task[r] /\ log'[r] = log[r] /\ asked' = asked /\ dir' = dir
  <2>1. task'[r] = task[r] /\ log'[r] = log[r]
    BY <1>1, <1>4 DEF ThreadStep, LookupScenario, LookupLlm, AppendEvent, HarnessEnds, WriteTaskState,
                      ThreadDies, shared, TypeInv
  <2>2. asked' = asked /\ dir' = dir
    BY <1>4 DEF ThreadStep, LookupScenario, LookupLlm, AppendEvent, HarnessEnds, WriteTaskState,
                ThreadDies, shared, history
  <2> QED
    BY <2>1, <2>2
<1> QED
  BY <1>2, <1>3, <1>4 DEF Next

\* Nobody touches the run of a start_run that another worker is executing.
LEMMA StartingStays ==
    ASSUME TypeInv, RunInv, CallInv, ApartInv, Next, NEW v \in Workers, Starting(call[v]), call'[v] = call[v]
    PROVE  LET r == call[v].run IN
           /\ thread'[r] = thread[r] /\ asked'[r] = asked[r] /\ r \in dir'
           /\ wsScenario'[r] = wsScenario[r] /\ (r \in wsLlms => r \in wsLlms')
<1> DEFINE r == call[v].run
<1>1. r \in Runs /\ r \in dir /\ thread[r] = None /\ asked[r] # None /\ ~Settled(r)
  BY DEF TypeInv, HasRun, Starting, CallInv, StartAt, RunInv, None
<1> HIDE DEF r
<1>2. ASSUME NEW w \in Workers, ApiStep(w), w # v
      PROVE  /\ thread'[r] = thread[r] /\ asked'[r] = asked[r] /\ r \in dir'
             /\ wsScenario'[r] = wsScenario[r] /\ (r \in wsLlms => r \in wsLlms')
  <2>1. Cleaning(call[w]) \/ Starting(call[w]) => call[w].run # r
    BY <1>1, <1>2 DEF r, CallInv, ReadAt, ApartInv
  <2>2. CASE RegisterWorkspace(w) \/ CreateTask(w)
    <3>1. call[w].run # r
      BY <2>1, <2>2 DEF RegisterWorkspace, CreateTask, At, Starting
    <3>2. CASE RegisterWorkspace(w)
      BY <3>1, <3>2, <1>1 DEF RegisterWorkspace, TypeInv, run, history
    <3>3. CASE CreateTask(w)
      BY <3>1, <3>3, <1>1 DEF CreateTask, TypeInv, history
    <3> QED
      BY <2>2, <3>2, <3>3
  <2>3. CASE RemoveTree(w) \/ PopScenario(w) \/ PopLlm(w)
    BY <2>1, <2>3, <1>1 DEF RemoveTree, PopScenario, PopLlm, At, Cleaning, TypeInv, run, history
  <2>4. CASE MakeWorkspace(w)
    BY <2>4, <1>1 DEF MakeWorkspace, TypeInv, run
  <2>5. CASE \/ StartRun(w) \/ SweepNext(w) \/ StartRaises(w) \/ RecordMeta(w) \/ GetRun(w)
             \/ ReadEvents(w) \/ Answer(w)
    BY <2>5, <1>1 DEF StartRun, SweepNext, StartRaises, RecordMeta, GetRun, ReadEvents, Answer, shared,
                      run, history
  <2> QED
    BY <1>2, <2>2, <2>3, <2>4, <2>5 DEF ApiStep
<1>3. ASSUME ApiStep(v) PROVE FALSE
  <2>1. PICK c \in Calls : Becomes(v, c) /\ c = call[v]
    BY <1>3, CallTypes DEF Becomes, TypeInv
  <2>2. CASE RegisterWorkspace(v) \/ CreateTask(v) \/ StartRaises(v)
    BY <2>2, IdleCall DEF RegisterWorkspace, CreateTask, StartRaises, Become, At, Starting, TypeInv, Calls
  <2> QED
    BY <1>3, <2>2 DEF ApiStep, Starting, At, StartRun, SweepNext, MakeWorkspace, RecordMeta, GetRun,
                      ReadEvents, Answer, RemoveTree, PopScenario, PopLlm
<1>4. ASSUME NEW q \in Runs, ThreadStep(q)
      PROVE  /\ thread'[r] = thread[r] /\ asked'[r] = asked[r] /\ r \in dir'
             /\ wsScenario'[r] = wsScenario[r] /\ (r \in wsLlms => r \in wsLlms')
  <2>1. q # r
    BY <1>1, <1>4 DEF ThreadStep, LookupScenario, LookupLlm, AppendEvent, HarnessEnds, WriteTaskState,
                      ThreadDies, None
  <2>2. thread'[r] = thread[r]
    BY <1>1, <1>4, <2>1 DEF ThreadStep, LookupScenario, LookupLlm, AppendEvent, HarnessEnds,
                            WriteTaskState, ThreadDies, run, TypeInv
  <2>3. asked' = asked /\ dir' = dir /\ wsScenario' = wsScenario /\ wsLlms' = wsLlms
    BY <1>4 DEF ThreadStep, LookupScenario, LookupLlm, AppendEvent, HarnessEnds, WriteTaskState,
                ThreadDies, shared, history
  <2> QED
    BY <1>1, <2>2, <2>3
<1> QED
  BY <1>2, <1>3, <1>4 DEF Next, r

(***************************************************************************)
(* The run, its thread and its workspace                                   *)
(***************************************************************************)
\* Every step keeps a run in step with its workspace and its entries in the dicts.
LEMMA RunStep ==
    ASSUME TypeInv, RunInv, CallInv, Next
    PROVE  RunInv'
<1> USE DEF TypeInv, RunInv, Settled
<1>1. ASSUME NEW w \in Workers,
             StartRun(w) \/ SweepNext(w) \/ StartRaises(w) \/ RecordMeta(w) \/ GetRun(w) \/ ReadEvents(w)
             \/ Answer(w)
      PROVE  RunInv'
  <2>1. UNCHANGED <<dir, wsScenario, wsLlms, task, thread, harness, asked>>
    BY <1>1 DEF StartRun, SweepNext, StartRaises, RecordMeta, GetRun, ReadEvents, Answer, shared, run,
                history
  <2> QED
    BY <2>1
<1>2. ASSUME NEW w \in Workers, MakeWorkspace(w)
      PROVE  RunInv'
  <2>1. PICK r \in Runs : asked[r] = None /\ dir' = dir \cup {r} /\ asked' = [asked EXCEPT ![r] = call[w].scenario]
    BY <1>2, MakeWorkspaceCall
  <2>2. call[w].scenario # None
    BY <1>2 DEF MakeWorkspace, At, CallInv, StartAt
  <2>3. UNCHANGED <<wsScenario, wsLlms, task, thread, harness>>
    BY <1>2 DEF MakeWorkspace, run
  <2>4. thread[r] = None /\ harness[r] = None
    BY <2>1
  <2>5. \A q \in Runs : q # r => asked'[q] = asked[q] /\ (q \in dir' <=> q \in dir)
    BY <2>1
  <2>6. asked'[r] # None /\ r \in dir'
    BY <2>1, <2>2
  <2> QED
    BY <2>3, <2>4, <2>5, <2>6 DEF None
<1>3. ASSUME NEW w \in Workers, RegisterWorkspace(w)
      PROVE  RunInv'
  <2>1. call[w].run \in Runs /\ thread[call[w].run] = None
    BY <1>3 DEF RegisterWorkspace, At, HasRun, CallInv, StartAt, Starting
  <2>2. \A r \in Runs : r # call[w].run => wsScenario'[r] = wsScenario[r]
    BY <1>3, <2>1 DEF RegisterWorkspace
  <2>3. wsLlms \subseteq wsLlms' /\ UNCHANGED <<dir, task, thread, harness, asked>>
    BY <1>3 DEF RegisterWorkspace, run, history
  <2> QED
    BY <2>1, <2>2, <2>3 DEF None
<1>4. ASSUME NEW w \in Workers, CreateTask(w)
      PROVE  RunInv'
  <2> DEFINE q == call[w].run
  <2>1. /\ q \in Runs /\ q \in dir /\ thread[q] = None /\ asked[q] # None
        /\ wsScenario[q] = asked[q] /\ q \in wsLlms
    BY <1>4 DEF CreateTask, At, HasRun, CallInv, StartAt, Starting
  <2>2. \A r \in Runs : /\ thread'[r] = IF r = q THEN "start" ELSE thread[r]
                        /\ task'[r] = IF r = q THEN "RUNNING" ELSE task[r]
    BY <1>4 DEF CreateTask
  <2>3. UNCHANGED <<dir, wsScenario, wsLlms, harness, asked>>
    BY <1>4 DEF CreateTask, history
  <2> HIDE DEF q
  <2> QED
    BY <2>1, <2>2, <2>3 DEF None, Terminal
<1>5. ASSUME NEW w \in Workers, RemoveTree(w) \/ PopScenario(w) \/ PopLlm(w)
      PROVE  RunInv'
  <2> DEFINE q == call[w].run
  <2>1. q \in Runs /\ Settled(q) /\ thread[q] = "done" /\ task[q] # "RUNNING"
    BY <1>5 DEF RemoveTree, PopScenario, PopLlm, At, HasRun, CallInv, ReadAt, Cleaning, Terminal
  <2>2. UNCHANGED <<task, thread, harness, asked>>
    BY <1>5 DEF RemoveTree, PopScenario, PopLlm, run, history
  <2>3. \A r \in Runs : r # q => /\ (r \in dir' <=> r \in dir) /\ wsScenario'[r] = wsScenario[r]
                                 /\ (r \in wsLlms' <=> r \in wsLlms)
    BY <1>5 DEF RemoveTree, PopScenario, PopLlm
  <2>4. dir' \subseteq dir
    BY <1>5 DEF RemoveTree, PopScenario, PopLlm
  <2> HIDE DEF q
  <2> QED
    BY <2>1, <2>2, <2>3, <2>4
<1>6. ASSUME NEW r \in Runs, ThreadStep(r)
      PROVE  RunInv'
  <2>1. asked[r] # None /\ UNCHANGED <<dir, wsScenario, wsLlms, asked>>
    BY <1>6 DEF ThreadStep, LookupScenario, LookupLlm, AppendEvent, HarnessEnds, WriteTaskState,
                ThreadDies, shared, history, None
  <2>2. CASE LookupScenario(r)
    BY <2>1, <2>2 DEF LookupScenario, shared, None
  <2>3. CASE LookupLlm(r)
    BY <2>1, <2>3 DEF LookupLlm, shared, None
  <2>4. CASE AppendEvent(r) \/ HarnessEnds(r) \/ ThreadDies(r)
    BY <2>1, <2>4 DEF AppendEvent, HarnessEnds, ThreadDies, shared, run, None
  <2>5. CASE WriteTaskState(r)
    <3>1. PICK s \in Terminal : task' = [task EXCEPT ![r] = s]
      BY <2>5, DemoAssumption DEF WriteTaskState
    <3> QED
      BY <2>1, <2>5, <3>1 DEF WriteTaskState, None, Terminal
  <2> QED
    BY <1>6, <2>2, <2>3, <2>4, <2>5 DEF ThreadStep
<1> QED
  BY <1>1, <1>2, <1>3, <1>4, <1>5, <1>6 DEF Next, ApiStep

(***************************************************************************)
(* The calls of the API                                                    *)
(***************************************************************************)
\* What a call knows stays true while others go on.
LEMMA WaitingStays ==
    ASSUME TypeInv, RunInv, CallInv, ApartInv, Next, NEW v \in Workers, call'[v] = call[v]
    PROVE  StartAt(call[v])' /\ ReadAt(call[v])'
<1> DEFINE c == call[v]
<1>1. c \in Calls /\ HasRun(c) /\ StartAt(c) /\ ReadAt(c)
  BY DEF TypeInv, CallInv
<1>2. StartAt(call[v])'
  BY <1>1, StartingStays DEF StartAt, Starting, Cleaning
<1>3. Settled(c.run) /\ c.run \in Runs => task'[c.run] = task[c.run] /\ log'[c.run] = log[c.run]
  BY SettledStays
<1>4. Cleaning(c) \/ c.at \in {"state", "answer"} => c.run \in Runs
  BY <1>1 DEF HasRun, Cleaning
<1>5. ReadAt(call[v])'
  BY <1>1, <1>3, <1>4 DEF ReadAt, Cleaning, Settled
<1> QED
  BY <1>2, <1>5

\* What a call knows after a step of its own.
LEMMA OwnStep ==
    ASSUME TypeInv, RunInv, CallInv, Next, NEW w \in Workers, ApiStep(w)
    PROVE  StartAt(call[w])' /\ ReadAt(call[w])'
<1>1. call[w] \in Calls /\ HasRun(call[w]) /\ StartAt(call[w]) /\ ReadAt(call[w])
  BY DEF TypeInv, CallInv
<1>2. ASSUME NEW c \in Calls, Becomes(w, c) PROVE call'[w] = c
  BY <1>2 DEF Becomes, TypeInv
<1>3. CASE StartRun(w)
  <2>1. PICK s \in Scenarios : call'[w] = [Idle EXCEPT !.at = "sweep", !.scenario = s, !.todo = runMeta,
                                                    !.due = {r \in ToSet(runMeta) : Settled(r)}]
    BY <1>3, <1>2, StartRunCall DEF Becomes
  <2>2. call'[w].at = "sweep" /\ call'[w].scenario # None /\ call'[w].state = None
    BY <2>1, IdleCall, DemoAssumption DEF Calls
  <2> QED
    BY <2>2 DEF StartAt, ReadAt, Starting, Cleaning, None, Terminal
<1>4. CASE SweepNext(w)
  <2> DEFINE r == Head(call[w].todo)
             c == [call[w] EXCEPT !.at = "clean", !.run = r, !.then = "sweep", !.todo = Tail(@)]
             d == [call[w] EXCEPT !.todo = Tail(@)]
  <2>1. call[w].at = "sweep" /\ call[w].scenario # None /\ call[w].state \notin Terminal /\ task' = task
    BY <1>1, <1>4, SweepNextCall DEF StartAt, SweepNext, shared
  <2>2. (call'[w] = c /\ Settled(r)) \/ call'[w] = d
    BY <1>4, <1>2, SweepNextCall DEF Becomes
  <2>3. CASE call'[w] = c /\ Settled(r)
    <3>1. /\ call'[w].at = "clean" /\ call'[w].run = r /\ call'[w].scenario = call[w].scenario
          /\ call'[w].state = call[w].state
      BY <1>1, <2>3 DEF Calls
    <3>2. Settled(call[w].run)'
      BY <2>1, <2>3, <3>1 DEF Settled
    <3> QED
      BY <2>1, <3>1, <3>2 DEF StartAt, ReadAt, Starting, Cleaning
  <2>4. CASE call'[w] = d
    <3>1. /\ call'[w].at = "sweep" /\ call'[w].scenario = call[w].scenario
          /\ call'[w].state = call[w].state
      BY <1>1, <2>1, <2>4 DEF Calls
    <3> QED
      BY <2>1, <3>1 DEF StartAt, ReadAt, Starting, Cleaning
  <2> QED
    BY <2>2, <2>3, <2>4
<1>5. CASE MakeWorkspace(w)
  <2>1. PICK r \in Runs :
          /\ asked[r] = None /\ dir' = dir \cup {r} /\ asked' = [asked EXCEPT ![r] = call[w].scenario]
          /\ call'[w] = [Idle EXCEPT !.at = "made", !.run = r, !.scenario = call[w].scenario]
    BY <1>5, <1>2, MakeWorkspaceCall DEF Becomes
  <2>2. /\ call'[w].at = "made" /\ call'[w].run = r /\ call'[w].scenario = call[w].scenario
    BY <2>1, IdleCall DEF Calls
  <2>3. call[w].scenario # None /\ thread' = thread /\ thread[r] = None
    BY <1>1, <1>5, <2>1 DEF MakeWorkspace, At, StartAt, RunInv, run
  <2>4. asked'[r] = call[w].scenario /\ r \in dir'
    BY <2>1 DEF TypeInv
  <2> QED
    BY <2>2, <2>3, <2>4 DEF StartAt, ReadAt, Starting, Cleaning
<1>6. CASE RegisterWorkspace(w)
  <2>1. call[w].at = "made" /\ call[w].run \in Runs
    BY <1>1, <1>6 DEF RegisterWorkspace, At, HasRun
  <2>2. /\ call'[w].at = "registered" /\ call'[w].run = call[w].run /\ call'[w].scenario = call[w].scenario
    BY <1>1, <1>6 DEF RegisterWorkspace, Become, TypeInv, Calls
  <2>3. /\ wsScenario'[call[w].run] = call[w].scenario /\ call[w].run \in wsLlms'
        /\ UNCHANGED <<dir, thread, asked>>
    BY <1>6, <2>1 DEF RegisterWorkspace, TypeInv, run, history
  <2> QED
    BY <1>1, <2>1, <2>2, <2>3 DEF StartAt, ReadAt, Starting, Cleaning
<1>7. CASE CreateTask(w)
  <2>1. call'[w].at = "created"
    BY <1>1, <1>7 DEF CreateTask, Become, TypeInv, Calls
  <2> QED
    BY <2>1 DEF StartAt, ReadAt, Starting, Cleaning
<1>8. CASE StartRaises(w) \/ RecordMeta(w) \/ Answer(w)
  <2>1. call'[w].at = "idle"
    BY <1>8, <1>2, EndsCall, IdleCall DEF StartRaises, RecordMeta, Answer, Becomes
  <2> QED
    BY <2>1 DEF StartAt, ReadAt, Starting, Cleaning
<1>9. CASE GetRun(w)
  <2>1. PICK r \in Runs : call'[w] = [Idle EXCEPT !.at = "state", !.run = r, !.state = task[r]]
    BY <1>9, <1>2, GetRunCall DEF Becomes
  <2>2. call'[w].at = "state" /\ call'[w].run = r /\ call'[w].state = task[r]
    BY <2>1, IdleCall DEF Calls
  <2>3. task' = task
    BY <1>9 DEF GetRun, shared
  <2> QED
    BY <2>2, <2>3 DEF StartAt, ReadAt, Starting, Cleaning
<1>10. CASE ReadEvents(w)
  <2> DEFINE done == call[w].state \in Terminal
  <2>1. /\ call[w].at = "state" /\ call[w].run \in Runs
        /\ call'[w] = [call[w] EXCEPT !.events = log[call[w].run],
                                      !.at = IF done THEN "clean" ELSE "answer",
                                      !.then = IF done THEN "answer" ELSE None]
    BY <1>10, <1>2, ReadEventsCall DEF Becomes
  <2>2. /\ call'[w].at = (IF done THEN "clean" ELSE "answer") /\ call'[w].run = call[w].run
        /\ call'[w].state = call[w].state /\ call'[w].events = log[call[w].run]
        /\ call'[w].then = (IF done THEN "answer" ELSE None)
    BY <1>1, <2>1 DEF Calls
  <2>3. done => task[call[w].run] = call[w].state
    BY <1>1, <2>1 DEF ReadAt
  <2>4. task' = task /\ log' = log
    BY <1>10 DEF ReadEvents, shared
  <2> QED
    BY <2>2, <2>3, <2>4 DEF StartAt, ReadAt, Starting, Cleaning, Settled
<1>11. CASE RemoveTree(w) \/ PopScenario(w)
  <2>1. Cleaning(call[w]) /\ call'[w].at \in {"pop", "popllm"} /\ task' = task /\ log' = log
    BY <1>1, <1>11 DEF RemoveTree, PopScenario, At, Become, TypeInv, Calls, Cleaning
  <2>2. /\ call'[w].run = call[w].run /\ call'[w].state = call[w].state /\ call'[w].then = call[w].then
        /\ call'[w].events = call[w].events /\ call'[w].scenario = call[w].scenario
    BY <1>1, <1>11 DEF RemoveTree, PopScenario, Become, TypeInv, Calls
  <2> QED
    BY <1>1, <2>1, <2>2 DEF StartAt, ReadAt, Starting, Cleaning, Settled
<1>12. CASE PopLlm(w)
  <2>1. Cleaning(call[w]) /\ call'[w] = Cleaned(call[w]) /\ task' = task /\ log' = log
    BY <1>2, <1>12, PopLlmCall DEF PopLlm, Becomes, Cleaning
  <2>2. CASE call[w].then = "sweep"
    <3>1. /\ call'[w].at = "sweep" /\ call'[w].state = call[w].state /\ call'[w].scenario = call[w].scenario
      BY <1>1, <2>1, <2>2 DEF Cleaned, Calls
    <3> QED
      BY <1>1, <2>1, <2>2, <3>1 DEF StartAt, ReadAt, Starting, Cleaning
  <2>3. CASE call[w].then # "sweep"
    <3>1. /\ call'[w].at = "answer" /\ call'[w].state = call[w].state /\ call'[w].run = call[w].run
          /\ call'[w].events = call[w].events
      BY <1>1, <2>1, <2>3 DEF Cleaned, Calls
    <3> QED
      BY <1>1, <2>1, <3>1 DEF StartAt, ReadAt, Starting, Cleaning
  <2> QED
    BY <2>2, <2>3
<1> QED
  BY <1>3, <1>4, <1>5, <1>6, <1>7, <1>8, <1>9, <1>10, <1>11, <1>12 DEF ApiStep

\* A directory that rmtree left behind stays known as such while it is there.
LEMMA KeptStays ==
    ASSUME Next, NEW r \in kept, r \in dir'
    PROVE  r \in kept'
  BY DEF Next, ApiStep, ThreadStep, StartRun, SweepNext, MakeWorkspace, RegisterWorkspace, CreateTask,
         StartRaises, RecordMeta, GetRun, ReadEvents, Answer, RemoveTree, PopScenario, PopLlm,
         LookupScenario, LookupLlm, AppendEvent, HarnessEnds, WriteTaskState, ThreadDies, history

\* The sweep of a call that waits, or goes on without taking a run from its list.
LEMMA SweepStays ==
    ASSUME TypeInv, RunInv, CallInv, Next, NEW v \in Workers,
           call'[v].due = call[v].due, call'[v].todo = call[v].todo,
           call[v].at = "clean" => call'[v].at = "clean" /\ call'[v].run = call[v].run
    PROVE  SweepAt(call[v])'
<1>1. SweepAt(call[v]) /\ call[v].due \subseteq Runs
  BY DEF CallInv, TypeInv, Calls
<1>2. ASSUME NEW r \in call[v].due
      PROVE  /\ Settled(r)'
             /\ r \in dir' => r \in kept' \/ r \in ToSet(call'[v].todo) \/ (call'[v].at = "clean" /\ call'[v].run = r)
  <2>1. Settled(r) /\ r \in Runs
    BY <1>1 DEF SweepAt
  <2>2. Settled(r)' /\ (r \in dir' => r \in dir)
    BY <2>1, SettledStays DEF Settled
  <2> QED
    BY <1>1, <2>2, KeptStays DEF SweepAt
<1> QED
  BY <1>2 DEF SweepAt

\* What the sweep of a call has still to do after a step of its own.
LEMMA SweepStep ==
    ASSUME TypeInv, RunInv, CallInv, Next, NEW w \in Workers, ApiStep(w)
    PROVE  SweepAt(call[w])'
<1>1. call[w] \in Calls /\ SweepAt(call[w])
  BY DEF TypeInv, CallInv
<1>2. ASSUME NEW c \in Calls, Becomes(w, c) PROVE call'[w] = c
  BY <1>2 DEF Becomes, TypeInv
<1>3. ASSUME call'[w].due = {} PROVE SweepAt(call[w])'
  BY <1>3 DEF SweepAt
<1>4. CASE StartRun(w)
  <2>1. PICK s \in Scenarios : call'[w] = [Idle EXCEPT !.at = "sweep", !.scenario = s, !.todo = runMeta,
                                                    !.due = {r \in ToSet(runMeta) : Settled(r)}]
    BY <1>4, <1>2, StartRunCall DEF Becomes
  <2>2. call'[w].todo = runMeta /\ call'[w].due = {r \in ToSet(runMeta) : Settled(r)}
    BY <2>1, IdleCall DEF Calls
  <2>3. task' = task
    BY <1>4 DEF StartRun, shared
  <2> QED
    BY <2>2, <2>3 DEF SweepAt, Settled
<1>5. CASE SweepNext(w)
  <2> DEFINE r == Head(call[w].todo)
             c == [call[w] EXCEPT !.at = "clean", !.run = r, !.then = "sweep", !.todo = Tail(@)]
             d == [call[w] EXCEPT !.todo = Tail(@)]
  <2>1. /\ (call'[w] = c) \/ (call'[w] = d /\ ~(r \in dir /\ Settled(r)))
        /\ call[w].at = "sweep" /\ call[w].todo \in Seq(Runs) /\ call[w].todo # <<>>
    BY <1>5, <1>2, SweepNextCall DEF Becomes
  <2>2. UNCHANGED <<task, dir, kept>>
    BY <1>5 DEF SweepNext, shared, history
  <2>3. \A q \in ToSet(call[w].todo) : q = r \/ q \in ToSet(Tail(call[w].todo))
    BY <2>1, TailKeys
  <2>4. call'[w].due = call[w].due /\ call'[w].todo = Tail(call[w].todo)
    BY <1>1, <2>1 DEF Calls
  <2>5. call'[w] = c => call'[w].at = "clean" /\ call'[w].run = r
    BY <1>1 DEF Calls
  <2> HIDE DEF c, d, r
  <2>6. ASSUME NEW q \in call[w].due
        PROVE  /\ Settled(q)'
               /\ q \in dir' => q \in kept' \/ q \in ToSet(call'[w].todo) \/ (call'[w].at = "clean" /\ call'[w].run = q)
    <3>1. Settled(q) /\ (q \in dir => q \in kept \/ q \in ToSet(call[w].todo))
      BY <1>1, <2>1 DEF SweepAt
    <3>2. Settled(q)'
      BY <3>1, <2>2 DEF Settled
    <3> QED
      BY <2>1, <2>2, <2>3, <2>4, <2>5, <3>1, <3>2
  <2> QED
    BY <2>4, <2>6 DEF SweepAt
<1>6. CASE MakeWorkspace(w)
  <2>1. PICK r \in Runs : call'[w] = [Idle EXCEPT !.at = "made", !.run = r, !.scenario = call[w].scenario]
    BY <1>6, <1>2, MakeWorkspaceCall DEF Becomes
  <2>2. call'[w].due = {}
    BY <2>1, IdleCall DEF Calls
  <2> QED
    BY <1>3, <2>2
<1>7. CASE RegisterWorkspace(w) \/ CreateTask(w) \/ PopScenario(w)
  <2>1. call'[w].due = call[w].due /\ call'[w].todo = call[w].todo /\ call[w].at # "clean"
    BY <1>1, <1>7 DEF RegisterWorkspace, CreateTask, PopScenario, At, Become, TypeInv, Calls
  <2> QED
    BY <2>1, SweepStays
<1>8. CASE StartRaises(w) \/ RecordMeta(w) \/ Answer(w)
  <2>1. call'[w].due = {}
    BY <1>8, <1>2, EndsCall, IdleCall DEF StartRaises, RecordMeta, Answer, Becomes
  <2> QED
    BY <1>3, <2>1
<1>9. CASE GetRun(w)
  <2>1. PICK r \in Runs : call'[w] = [Idle EXCEPT !.at = "state", !.run = r, !.state = task[r]]
    BY <1>9, <1>2, GetRunCall DEF Becomes
  <2>2. call'[w].due = {}
    BY <2>1, IdleCall DEF Calls
  <2> QED
    BY <1>3, <2>2
<1>10. CASE ReadEvents(w)
  <2>1. call'[w].due = call[w].due /\ call'[w].todo = call[w].todo /\ call[w].at # "clean"
    BY <1>1, <1>10 DEF ReadEvents, At, Become, TypeInv, Calls
  <2> QED
    BY <2>1, SweepStays
<1>11. CASE RemoveTree(w)
  <2>1. /\ call[w].at = "clean" /\ call'[w].due = call[w].due /\ call'[w].todo = call[w].todo
    BY <1>1, <1>11 DEF RemoveTree, At, Become, TypeInv, Calls
  <2>2. \A q : q \in dir' => q \in dir /\ (q = call[w].run => q \in kept') /\ (q \in kept => q \in kept')
    BY <1>11 DEF RemoveTree
  <2>3. task' = task
    BY <1>11 DEF RemoveTree
  <2> QED
    BY <1>1, <2>1, <2>2, <2>3 DEF SweepAt, Settled
<1>12. CASE PopLlm(w)
  <2>1. call'[w] = Cleaned(call[w]) /\ call[w].at = "popllm"
    BY <1>2, <1>12, PopLlmCall DEF Becomes
  <2>2. call'[w].due = call[w].due /\ call'[w].todo = call[w].todo
    BY <1>1, <2>1 DEF Cleaned, Calls
  <2> QED
    BY <2>1, <2>2, SweepStays
<1> QED
  BY <1>4, <1>5, <1>6, <1>7, <1>8, <1>9, <1>10, <1>11, <1>12 DEF ApiStep

\* The calls of the other workers are not touched.
LEMMA OthersWait ==
    ASSUME TypeInv, Next
    PROVE  \/ call' = call
           \/ \E w \in Workers : ApiStep(w) /\ \A v \in Workers : v # w => call'[v] = call[v]
<1>1. ASSUME NEW w \in Workers, ApiStep(w) PROVE \A v \in Workers : v # w => call'[v] = call[v]
  BY <1>1, CallTypes DEF Becomes, TypeInv
<1>2. ASSUME NEW r \in Runs, ThreadStep(r) PROVE call' = call
  BY <1>2 DEF ThreadStep, LookupScenario, LookupLlm, AppendEvent, HarnessEnds, WriteTaskState, ThreadDies
<1> QED
  BY <1>1, <1>2 DEF Next

\* Every step keeps what the calls know.
LEMMA CallStep ==
    ASSUME TypeInv, RunInv, CallInv, ApartInv, Next
    PROVE  CallInv'
<1>1. ASSUME NEW v \in Workers, call'[v] = call[v]
      PROVE  StartAt(call[v])' /\ ReadAt(call[v])' /\ SweepAt(call[v])'
  BY <1>1, WaitingStays, SweepStays
<1>2. ASSUME NEW w \in Workers, ApiStep(w)
      PROVE  StartAt(call[w])' /\ ReadAt(call[w])' /\ SweepAt(call[w])'
  BY <1>2, OwnStep, SweepStep
<1> QED
  BY <1>1, <1>2, OthersWait DEF CallInv

\* Only MakeWorkspace and RegisterWorkspace lead into the middle of start_run.
LEMMA StartsNothing ==
    ASSUME TypeInv, NEW w \in Workers, ApiStep(w), ~MakeWorkspace(w), ~RegisterWorkspace(w)
    PROVE  ~Starting(call'[w])
<1>1. call[w] \in Calls /\ \A c \in Calls : Becomes(w, c) => call'[w] = c
  BY DEF Becomes, TypeInv
<1>2. CASE StartRun(w)
  <2>1. PICK s \in Scenarios : call'[w] = [Idle EXCEPT !.at = "sweep", !.scenario = s, !.todo = runMeta,
                                                    !.due = {r \in ToSet(runMeta) : Settled(r)}]
    BY <1>1, <1>2, StartRunCall DEF Becomes
  <2> QED
    BY <2>1, IdleCall DEF Calls, Starting
<1>3. CASE SweepNext(w)
  <2>1. \/ call'[w] = [call[w] EXCEPT !.at = "clean", !.run = Head(call[w].todo), !.then = "sweep",
                                      !.todo = Tail(call[w].todo)]
        \/ call'[w] = [call[w] EXCEPT !.todo = Tail(call[w].todo)] /\ call[w].at = "sweep"
    BY <1>1, <1>3, SweepNextCall DEF Becomes
  <2> QED
    BY <1>1, <2>1 DEF Calls, Starting
<1>4. CASE StartRaises(w) \/ RecordMeta(w) \/ Answer(w)
  <2>1. call'[w] = Idle
    BY <1>1, <1>4, EndsCall DEF StartRaises, RecordMeta, Answer, Becomes
  <2> QED
    BY <2>1, IdleCall DEF Starting
<1>5. CASE GetRun(w)
  <2>1. PICK r \in Runs : call'[w] = [Idle EXCEPT !.at = "state", !.run = r, !.state = task[r]]
    BY <1>1, <1>5, GetRunCall DEF Becomes
  <2> QED
    BY <2>1, IdleCall DEF Calls, Starting
<1>6. CASE CreateTask(w) \/ RemoveTree(w) \/ PopScenario(w)
  BY <1>1, <1>6 DEF CreateTask, RemoveTree, PopScenario, Become, TypeInv, Calls, Starting
<1>7. CASE ReadEvents(w)
  <2>1. call'[w].at \in {"clean", "answer"}
    BY <1>1, <1>7 DEF ReadEvents, Become, TypeInv, Calls
  <2> QED
    BY <2>1 DEF Starting
<1>8. CASE PopLlm(w)
  <2>1. call'[w].at \in {"sweep", "answer"}
    BY <1>1, <1>8 DEF PopLlm, Become, Cleaned, TypeInv, Calls
  <2> QED
    BY <2>1 DEF Starting
<1> QED
  BY <1>2, <1>3, <1>4, <1>5, <1>6, <1>7, <1>8 DEF ApiStep

\* Every step keeps two calls of start_run apart: a new workspace is nobody else's.
LEMMA ApartStep ==
    ASSUME TypeInv, CallInv, ApartInv, Next
    PROVE  ApartInv'
<1>1. CASE call' = call
  BY <1>1 DEF ApartInv, Starting
<1>2. ASSUME NEW w \in Workers, ApiStep(w), \A v \in Workers : v # w => call'[v] = call[v]
      PROVE  ApartInv'
  <2>1. CASE MakeWorkspace(w)
    <3>1. PICK r \in Runs :
            /\ asked[r] = None
            /\ Becomes(w, [Idle EXCEPT !.at = "made", !.run = r, !.scenario = call[w].scenario])
      BY <2>1, MakeWorkspaceCall
    <3>2. call'[w].run = r
      BY <3>1, IdleCall DEF Becomes, TypeInv, Calls
    <3>3. \A v \in Workers : Starting(call[v]) => call[v].run # r
      BY <3>1 DEF CallInv, StartAt
    <3> QED
      BY <1>2, <3>2, <3>3 DEF ApartInv, Starting
  <2>2. CASE RegisterWorkspace(w)
    <3>1. Starting(call[w]) /\ call'[w].run = call[w].run
      BY <2>2 DEF RegisterWorkspace, At, Become, TypeInv, Calls, Starting
    <3> QED
      BY <1>2, <3>1 DEF ApartInv, Starting
  <2>3. CASE ~MakeWorkspace(w) /\ ~RegisterWorkspace(w)
    <3>1. ~Starting(call'[w])
      BY <1>2, <2>3, StartsNothing
    <3> QED
      BY <1>2, <3>1 DEF ApartInv, Starting
  <2> QED
    BY <2>1, <2>2, <2>3
<1> QED
  BY <1>1, <1>2, OthersWait

\* Every step keeps the answers final.
LEMMA AnswersStep ==
    ASSUME TypeInv, RunInv, CallInv, AnswersInv, Next
    PROVE  AnswersInv'
<1>1. ASSUME NEW a \in answers
      PROVE  a.run \in Runs /\ a.state \in Terminal /\ a.state = task'[a.run] /\ a.events = log'[a.run]
  BY SettledStays DEF AnswersInv, Settled
<1>2. ASSUME NEW a \in answers', a \notin answers
      PROVE  a.run \in Runs /\ a.state \in Terminal /\ a.state = task'[a.run] /\ a.events = log'[a.run]
  <2>1. PICK w \in Workers : Answer(w)
    BY <1>2 DEF Next, ApiStep, ThreadStep, StartRun, SweepNext, MakeWorkspace, RegisterWorkspace,
                CreateTask, StartRaises, RecordMeta, GetRun, ReadEvents, RemoveTree, PopScenario, PopLlm,
                LookupScenario, LookupLlm, AppendEvent, HarnessEnds, WriteTaskState, ThreadDies, history
  <2>2. /\ a = [run |-> call[w].run, state |-> call[w].state, events |-> call[w].events]
        /\ a.state \in Terminal /\ task' = task /\ log' = log /\ call[w].at = "answer"
    BY <1>2, <2>1 DEF Answer, At, shared
  <2> QED
    BY <2>2 DEF CallInv, ReadAt, TypeInv, HasRun
<1> QED
  BY <1>1, <1>2 DEF AnswersInv

\* Every step keeps every directory in somebody's reach.
LEMMA ReachStep ==
    ASSUME TypeInv, DirectoryStaysReclaimable, Next
    PROVE  DirectoryStaysReclaimable'
<1> DEFINE Reached(r) == r \in ToSet(runMeta) \cup failed
           Held(w, r) == call[w].run = r /\ call[w].at \in {"made", "registered", "created"}
<1>1. \A r : Reached(r) => Reached(r)'
  <2>1. ToSet(runMeta) \subseteq ToSet(runMeta')
    <3>1. ASSUME NEW w \in Workers, RecordMeta(w) PROVE ToSet(runMeta) \subseteq ToSet(runMeta')
      BY <3>1, AppendKeys DEF RecordMeta, At, TypeInv, HasRun
    <3>2. CASE runMeta' = runMeta
      BY <3>2
    <3> QED
      BY <3>1, <3>2
         DEF Next, ApiStep, ThreadStep, StartRun, SweepNext, MakeWorkspace, RegisterWorkspace, CreateTask,
             StartRaises, GetRun, ReadEvents, Answer, RemoveTree, PopScenario, PopLlm, LookupScenario,
             LookupLlm, AppendEvent, HarnessEnds, WriteTaskState, ThreadDies, shared
  <2>2. failed \subseteq failed'
    BY DEF Next, ApiStep, ThreadStep, StartRun, SweepNext, MakeWorkspace, RegisterWorkspace, CreateTask,
           StartRaises, RecordMeta, GetRun, ReadEvents, Answer, RemoveTree, PopScenario, PopLlm,
           LookupScenario, LookupLlm, AppendEvent, HarnessEnds, WriteTaskState, ThreadDies, history
  <2> QED
    BY <2>1, <2>2
<1>2. ASSUME NEW w \in Workers, NEW r \in Runs, Held(w, r) PROVE Reached(r)' \/ Held(w, r)'
  <2>1. CASE call'[w] = call[w]
    BY <1>2, <2>1
  <2>2. CASE ApiStep(w)
    <3>1. CASE RegisterWorkspace(w) \/ CreateTask(w)
      BY <1>2, <3>1 DEF RegisterWorkspace, CreateTask, Become, TypeInv, Calls
    <3>2. CASE StartRaises(w)
      BY <1>2, <3>2 DEF StartRaises, At
    <3>3. CASE RecordMeta(w)
      BY <1>2, <3>3, AppendKeys DEF RecordMeta, TypeInv
    <3> QED
      BY <1>2, <2>2, <3>1, <3>2, <3>3
         DEF ApiStep, At, StartRun, SweepNext, MakeWorkspace, GetRun, ReadEvents, Answer, RemoveTree,
             PopScenario, PopLlm
  <2> QED
    BY <2>1, <2>2, OthersWait
<1>3. ASSUME NEW r \in dir', r \notin dir PROVE \E w \in Workers : Held(w, r)'
  <2>1. PICK w \in Workers : MakeWorkspace(w)
    BY <1>3 DEF Next, ApiStep, ThreadStep, StartRun, SweepNext, RegisterWorkspace, CreateTask,
                StartRaises, RecordMeta, GetRun, ReadEvents, Answer, RemoveTree, PopScenario, PopLlm,
                LookupScenario, LookupLlm, AppendEvent, HarnessEnds, WriteTaskState, ThreadDies, shared
  <2>2. PICK q \in Runs : /\ dir' = dir \cup {q}
                          /\ Becomes(w, [Idle EXCEPT !.at = "made", !.run = q, !.scenario = call[w].scenario])
    BY <2>1, MakeWorkspaceCall
  <2>3. call'[w].run = q /\ call'[w].at = "made" /\ q = r
    BY <1>3, <2>2, IdleCall DEF Becomes, TypeInv, Calls
  <2> QED
    BY <2>3
<1>4. dir \subseteq Runs
  BY DEF TypeInv
<1> QED
  BY <1>1, <1>2, <1>3, <1>4 DEF DirectoryStaysReclaimable

(***************************************************************************)
(* The invariant and the theorems                                          *)
(***************************************************************************)
LEMMA Invariant == Spec => []IInv
<1>1. Init => IInv
  <2> SUFFICES ASSUME Init PROVE IInv
    OBVIOUS
  <2>1. \A w \in Workers : call[w] = Idle
    BY DEF Init
  <2>2. TypeInv
    BY <2>1, IdleCall, NoKeys, DemoAssumption DEF Init, TypeInv, ThreadPoints
  <2>3. RunInv
    BY DEF Init, RunInv, Settled, Terminal, None
  <2>4. CallInv /\ ApartInv
    BY <2>1, IdleCall DEF CallInv, ApartInv, StartAt, ReadAt, SweepAt, Starting, Cleaning
  <2>5. AnswersInv /\ DirectoryStaysReclaimable
    BY DEF Init, AnswersInv, DirectoryStaysReclaimable
  <2> QED
    BY <2>2, <2>3, <2>4, <2>5 DEF IInv
<1>2. IInv /\ [Next]_vars => IInv'
  <2>1. CASE Next
    BY <2>1, TypeStep, RunStep, CallStep, ApartStep, AnswersStep, ReachStep DEF IInv
  <2>2. CASE UNCHANGED vars
    BY <2>2 DEF IInv, TypeInv, RunInv, CallInv, ApartInv, AnswersInv, DirectoryStaysReclaimable, StartAt,
                ReadAt, SweepAt, Starting, Cleaning, Settled, vars, shared, run, history
  <2> QED
    BY <2>1, <2>2
<1> QED
  BY <1>1, <1>2, PTL DEF Spec

\* Cleanup without a lock never removes the workspace of a run that is not settled.
THEOREM LiveWorkspaces == Spec => []LiveRunKeepsItsWorkspace
<1>1. IInv => LiveRunKeepsItsWorkspace
  BY DEF IInv, RunInv, LiveRunKeepsItsWorkspace
<1> QED
  BY <1>1, Invariant, PTL

\* Every harness is built from the scenario its start_run was asked for.
THEOREM OwnScenarios == Spec => []RunsItsOwnScenario
<1>1. IInv => RunsItsOwnScenario
  BY DEF IInv, RunInv, RunsItsOwnScenario
<1> QED
  BY <1>1, Invariant, PTL

\* The first done answer a client sees is final.
THEOREM DoneIsFinal == Spec => []DoneAnswerIsFinal
<1>1. IInv => DoneAnswerIsFinal
  BY DEF IInv, AnswersInv, DoneAnswerIsFinal
<1> QED
  BY <1>1, Invariant, PTL

\* A finished sweep has reclaimed what was settled when it began.
THEOREM SweepReclaims == Spec => []SweepReclaimsSettledRuns
<1>1. IInv => SweepReclaimsSettledRuns
  BY NoKeys DEF IInv, CallInv, SweepAt, SweepReclaimsSettledRuns, At
<1> QED
  BY <1>1, Invariant, PTL

\* No directory is lost, except that of a start_run that raised.
THEOREM DirectoriesStayReclaimable == Spec => []DirectoryStaysReclaimable
<1>1. IInv => DirectoryStaysReclaimable
  BY DEF IInv
<1> QED
  BY <1>1, Invariant, PTL

(***************************************************************************)
(* The keys of _run_meta                                                   *)
(***************************************************************************)
Created(w) == call[w].at = "created"

\* A run is recorded once its task exists, by the one call of start_run that created it, so
\* that the keys of the dict are a sequence without repetition.
MetaInv ==
    /\ IsInjective(runMeta)
    /\ \A r \in ToSet(runMeta) : task[r] # "absent"
    /\ \A w \in Workers : Created(w) => task[call[w].run] # "absent" /\ call[w].run \notin ToSet(runMeta)
    /\ \A v, w \in Workers : Created(v) /\ Created(w) /\ call[v].run = call[w].run => v = w

\* A new key at the end repeats none.
LEMMA NewKeyRepeatsNone ==
    ASSUME NEW s \in Seq(Runs), NEW r \in Runs \ ToSet(s), IsInjective(s)
    PROVE  IsInjective(Append(s, r))
<1>1. /\ \A i \in 1..Len(s) : Append(s, r)[i] = s[i]
      /\ Append(s, r)[Len(s) + 1] = r
      /\ DOMAIN s = 1..Len(s) /\ DOMAIN Append(s, r) = 1..(Len(s) + 1) /\ Len(s) \in Nat
  BY AppendProperties, LenProperties
<1>2. \A i \in 1..Len(s) : s[i] # r
  BY <1>1 DEF ToSet
<1>3. \A i \in 1..(Len(s) + 1) : i \in 1..Len(s) \/ i = Len(s) + 1
  BY <1>1
<1>4. \A i, j \in 1..(Len(s) + 1) : Append(s, r)[i] = Append(s, r)[j] => i = j
  BY <1>1, <1>2, <1>3 DEF IsInjective
<1> QED
  BY <1>1, <1>4 DEF IsInjective

\* A task row that exists does not go away.
LEMMA TasksStay ==
    ASSUME TypeInv, Next, NEW r \in Runs, task[r] # "absent"
    PROVE  task'[r] # "absent"
<1>1. CASE \E w \in Workers : CreateTask(w)
  BY <1>1 DEF CreateTask, TypeInv
<1>2. CASE \E q \in Runs : WriteTaskState(q)
  BY <1>2, DemoAssumption DEF WriteTaskState, TypeInv, Terminal
<1>3. CASE task' = task
  BY <1>3
<1> QED
  BY <1>1, <1>2, <1>3
     DEF Next, ApiStep, ThreadStep, StartRun, SweepNext, MakeWorkspace, RegisterWorkspace,
         StartRaises, RecordMeta, GetRun, ReadEvents, Answer, RemoveTree, PopScenario, PopLlm,
         LookupScenario, LookupLlm, AppendEvent, HarnessEnds, ThreadDies, shared

\* Only CreateTask brings a call to the point where it records its run.
LEMMA CreatesNothing ==
    ASSUME TypeInv, NEW w \in Workers, ApiStep(w), ~CreateTask(w)
    PROVE  call'[w].at # "created"
<1>1. CASE MakeWorkspace(w)
  <2>1. PICK r \in Runs :
          Becomes(w, [Idle EXCEPT !.at = "made", !.run = r, !.scenario = call[w].scenario])
    BY <1>1, MakeWorkspaceCall
  <2> QED
    BY <2>1, IdleCall DEF Becomes, TypeInv, Calls
<1>2. CASE RegisterWorkspace(w)
  BY <1>2 DEF RegisterWorkspace, Become, TypeInv, Calls
<1>3. CASE StartRun(w)
  <2>1. PICK s \in Scenarios :
          call'[w] = [Idle EXCEPT !.at = "sweep", !.scenario = s, !.todo = runMeta,
                                  !.due = {r \in ToSet(runMeta) : Settled(r)}]
    BY <1>3, StartRunCall DEF Becomes, TypeInv
  <2> QED
    BY <2>1, IdleCall DEF Calls
<1>4. CASE SweepNext(w)
  <2>1. \/ call'[w] = [call[w] EXCEPT !.at = "clean", !.run = Head(call[w].todo),
                                      !.then = "sweep", !.todo = Tail(call[w].todo)]
        \/ call'[w] = [call[w] EXCEPT !.todo = Tail(call[w].todo)] /\ call[w].at = "sweep"
    BY <1>4, SweepNextCall DEF Becomes, TypeInv
  <2>2. call[w] \in Calls
    BY DEF TypeInv
  <2> QED
    BY <2>1, <2>2 DEF Calls
<1>5. CASE StartRaises(w) \/ RecordMeta(w) \/ Answer(w)
  <2>1. call'[w] = Idle
    BY <1>5, EndsCall DEF StartRaises, RecordMeta, Answer, Becomes, TypeInv
  <2> QED
    BY <2>1, IdleCall
<1>6. CASE GetRun(w)
  <2>1. PICK r \in Runs : call'[w] = [Idle EXCEPT !.at = "state", !.run = r, !.state = task[r]]
    BY <1>6, GetRunCall DEF Becomes, TypeInv
  <2> QED
    BY <2>1, IdleCall DEF Calls
<1>7. CASE RemoveTree(w) \/ PopScenario(w)
  BY <1>7 DEF RemoveTree, PopScenario, Become, TypeInv, Calls
<1>8. CASE ReadEvents(w)
  BY <1>8 DEF ReadEvents, Become, TypeInv, Calls
<1>9. CASE PopLlm(w)
  BY <1>9 DEF PopLlm, Become, Cleaned, TypeInv, Calls
<1> QED
  BY <1>1, <1>2, <1>3, <1>4, <1>5, <1>6, <1>7, <1>8, <1>9 DEF ApiStep

\* Every step keeps the keys apart: only a task that did not exist is recorded next.
LEMMA MetaStep ==
    ASSUME IInv, MetaInv, Next
    PROVE  MetaInv'
<1> USE DEF IInv
<1>t. TypeInv
  OBVIOUS
<1>r. runMeta \in Seq(Runs) /\ ToSet(runMeta) \subseteq Runs
      /\ \A w \in Workers : Created(w) => call[w].run \in Runs
  BY KeysAreRuns DEF TypeInv, HasRun, Created
<1>1. ASSUME NEW w \in Workers, CreateTask(w) PROVE MetaInv'
  <2>1. /\ call[w].run \in Runs /\ task[call[w].run] = "absent"
        /\ call'[w].run = call[w].run /\ call'[w].at = "created"
        /\ task'[call[w].run] = "RUNNING"
    <3>1. call[w] \in Calls /\ call[w].run \in Runs /\ Starting(call[w])
      BY <1>1 DEF TypeInv, HasRun, CreateTask, At, Starting
    <3>2. thread[call[w].run] = None
      BY <3>1 DEF CallInv, StartAt
    <3>3. task[call[w].run] = "absent"
      BY <3>1, <3>2 DEF RunInv
    <3>4. call'[w].run = call[w].run /\ call'[w].at = "created"
      BY <1>1, <3>1 DEF CreateTask, Become, Calls, TypeInv
    <3>5. task'[call[w].run] = "RUNNING"
      BY <1>1, <3>1 DEF CreateTask, TypeInv
    <3> QED
      BY <3>1, <3>3, <3>4, <3>5
  <2>2. runMeta' = runMeta /\ \A v \in Workers : v # w => call'[v] = call[v]
    BY <1>1 DEF CreateTask, Become, TypeInv
  <2>3. call[w].run \notin ToSet(runMeta)
    BY <2>1 DEF MetaInv
  <2>4. \A v \in Workers : Created(v) => call[v].run # call[w].run
    BY <2>1 DEF MetaInv
  <2>5. \A r \in Runs : task[r] # "absent" => task'[r] # "absent"
    BY TasksStay
  <2> QED
    BY <1>r, <2>1, <2>2, <2>3, <2>4, <2>5 DEF MetaInv, Created
<1>2. ASSUME NEW w \in Workers, RecordMeta(w) PROVE MetaInv'
  <2>1. Created(w) /\ runMeta' = Append(runMeta, call[w].run) /\ task' = task
    BY <1>2 DEF RecordMeta, At, Created
  <2>2. IsInjective(runMeta') /\ ToSet(runMeta') = ToSet(runMeta) \cup {call[w].run}
    <3>1. /\ call[w].run \in Runs /\ call[w].run \notin ToSet(runMeta)
          /\ runMeta \in Seq(Runs) /\ IsInjective(runMeta)
      BY <1>r, <2>1 DEF MetaInv
    <3>2. IsInjective(Append(runMeta, call[w].run))
      BY <3>1, NewKeyRepeatsNone
    <3> QED
      BY <2>1, <3>1, <3>2, AppendKeys
  <2>3. call'[w].at # "created" /\ \A v \in Workers : v # w => call'[v] = call[v]
    BY <1>2, IdleCall DEF RecordMeta, Become, TypeInv
  <2>4. \A v \in Workers : v # w /\ Created(v) => call[v].run # call[w].run
    BY <2>1 DEF MetaInv
  <2> QED
    BY <2>1, <2>2, <2>3, <2>4 DEF MetaInv, Created
<1>3. ASSUME runMeta' = runMeta,
             \A v \in Workers : Created(v)' => Created(v) /\ call'[v] = call[v]
      PROVE  MetaInv'
  <2>1. \A r \in Runs : task[r] # "absent" => task'[r] # "absent"
    BY TasksStay
  <2> QED
    BY <1>r, <1>3, <2>1 DEF MetaInv, Created
<1>4. ASSUME NEW w \in Workers, ApiStep(w), ~CreateTask(w), ~RecordMeta(w) PROVE MetaInv'
  <2>1. runMeta' = runMeta
    BY <1>4 DEF ApiStep, StartRun, SweepNext, MakeWorkspace, RegisterWorkspace, StartRaises,
                GetRun, ReadEvents, Answer, RemoveTree, PopScenario, PopLlm, shared
  <2>2. call'[w].at # "created"
    BY <1>4, <1>t, CreatesNothing
  <2>3. \A v \in Workers : v # w => call'[v] = call[v]
    <3>1. PICK c \in Calls : Becomes(w, c)
      BY <1>4, <1>t, CallTypes
    <3> QED
      BY <3>1 DEF Becomes, TypeInv
  <2> QED
    BY <1>3, <2>1, <2>2, <2>3 DEF Created
<1>5. ASSUME NEW r \in Runs, ThreadStep(r) PROVE MetaInv'
  <2>1. runMeta' = runMeta /\ call' = call
    BY <1>5 DEF ThreadStep, LookupScenario, LookupLlm, AppendEvent, HarnessEnds, WriteTaskState,
                ThreadDies, shared
  <2> QED
    BY <1>3, <2>1 DEF Created
<1> QED
  BY <1>1, <1>2, <1>4, <1>5 DEF Next

\* For all runs, workers, scenarios and outcomes: the dicts, the disk and the rows keep their
\* types, and no run is recorded twice in _run_meta, however many calls of start_run overlap.
THEOREM ManagerTypeCorrect == Spec => []TypeOK
<1>1. Init => MetaInv
  <2> SUFFICES ASSUME Init PROVE MetaInv
    OBVIOUS
  <2>1. \A w \in Workers : ~Created(w)
    BY IdleCall DEF Init, Created
  <2>2. IsInjective(<<>>) /\ ToSet(runMeta) = {}
    BY NoKeys, LenProperties DEF Init, IsInjective
  <2> QED
    BY <2>1, <2>2 DEF MetaInv, Init
<1>2. IInv /\ MetaInv /\ [Next]_vars => MetaInv'
  <2>1. ASSUME MetaInv, UNCHANGED vars PROVE MetaInv'
    BY <2>1 DEF MetaInv, Created, vars, shared
  <2> QED
    BY <2>1, MetaStep
<1>3. IInv /\ MetaInv => TypeOK
  BY KeysAreRuns DEF IInv, TypeInv, MetaInv, TypeOK
<1> QED
  BY <1>1, <1>2, <1>3, Invariant, PTL DEF Spec
=============================================================================
