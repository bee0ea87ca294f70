------------------------------ MODULE DemoRuns ------------------------------
(***************************************************************************)
(* DemoRunManager: demo runs, each in a temporary workspace of its own.    *)
(* API worker threads call start_run and get_run concurrently and without  *)
(* a lock; the run itself is a background thread of ApplicationService     *)
(* (module AppService), here reduced to building its harness, appending    *)
(* audit events and writing the terminal task row.  They share the dicts   *)
(* _run_meta, _ws_to_scenario and _ws_llms and the directories under       *)
(* allowed_base.  A run r stands for its workspace too: mkdtemp never      *)
(* returns the same name twice.                                            *)
(***************************************************************************)
EXTENDS Naturals, Sequences, SequencesExt

CONSTANTS
    Runs, Workers,
    Scenarios,   \* the whitelisted scenario ids
    Outcomes,    \* the terminal states runs end in
    MaxEvents    \* audit events of one run

None == "none"

Terminal == {"COMPLETED", "CANCELLED", "FAILED"}

ASSUME DemoAssumption ==
    MaxEvents \in Nat /\ Outcomes \subseteq Terminal /\ {None, "fallback"} \cap Scenarios = {}

VARIABLES
    dir,         \* the workspaces that exist on disk
    runMeta,     \* the keys of _run_meta, in insertion order
    wsScenario,  \* _ws_to_scenario
    wsLlms,      \* the keys of _ws_llms
    task,        \* the state column of the task row
    log,         \* the number of audit events of the run
    thread,      \* where the run thread is
    harness,     \* the scenario the harness of the run was built from
    call,        \* the call each API worker is executing
    asked,       \* history: the scenario start_run was asked for
    failed,      \* history: the runs whose start_run raised after mkdtemp
    kept,        \* history: the runs whose last rmtree left the directory behind
    answers      \* history: the answers of get_run that say done

shared == <<dir, runMeta, wsScenario, wsLlms, task, log>>
run == <<thread, harness>>
history == <<asked, failed, kept, answers>>
vars == <<shared, run, call, history>>

Idle == [at |-> "idle", run |-> None, todo |-> <<>>, due |-> {}, state |-> None, events |-> 0,
         then |-> None, scenario |-> None]

Init ==
    /\ dir = {} /\ runMeta = <<>> /\ wsLlms = {}
    /\ wsScenario = [r \in Runs |-> None]
    /\ task = [r \in Runs |-> "absent"]
    /\ log = [r \in Runs |-> 0]
    /\ thread = [r \in Runs |-> None]
    /\ harness = [r \in Runs |-> None]
    /\ call = [w \in Workers |-> Idle]
    /\ asked = [r \in Runs |-> None]
    /\ failed = {} /\ kept = {} /\ answers = {}

Settled(r) == task[r] \in Terminal
Become(w, c) == call' = [call EXCEPT ![w] = c]
At(w, p) == call[w].at = p

(***************************************************************************)
(* start_run                                                               *)
(***************************************************************************)
\* start_run takes a known scenario and begins the sweep on a copy of _run_meta.
StartRun(w) ==
    /\ At(w, "idle")
    /\ \E s \in Scenarios :
         Become(w, [Idle EXCEPT !.at = "sweep", !.scenario = s, !.todo = runMeta,
                                !.due = {r \in ToSet(runMeta) : Settled(r)}])
    /\ UNCHANGED <<shared, run, history>>

\* Mutant: the sweep does not look at the task state.
SweepNext_AnyRun(w) ==
    /\ At(w, "sweep") /\ call[w].todo # <<>>
    /\ LET r == Head(call[w].todo) IN
         IF r \in dir
         THEN Become(w, [call[w] EXCEPT !.at = "clean", !.run = r, !.then = "sweep",
                                        !.todo = Tail(@)])
         ELSE Become(w, [call[w] EXCEPT !.todo = Tail(@)])
    /\ UNCHANGED <<shared, run, history>>

\* Mutant: the sweep breaks at a run it cannot reclaim instead of continuing.
SweepNext_Break(w) ==
    /\ At(w, "sweep") /\ call[w].todo # <<>>
    /\ LET r == Head(call[w].todo) IN
         IF r \in dir /\ Settled(r)
         THEN Become(w, [call[w] EXCEPT !.at = "clean", !.run = r, !.then = "sweep",
                                        !.todo = Tail(@)])
         ELSE Become(w, [call[w] EXCEPT !.todo = <<>>])
    /\ UNCHANGED <<shared, run, history>>

\* _sweep_orphaned_runs, one run of the copy: skipped when its directory is gone or its
\* task is not terminal, cleaned up otherwise.
SweepNext(w) ==
    /\ At(w, "sweep") /\ call[w].todo # <<>>
    /\ LET r == Head(call[w].todo) IN
         IF r \in dir /\ Settled(r)
         THEN Become(w, [call[w] EXCEPT !.at = "clean", !.run = r, !.then = "sweep",
                                        !.todo = Tail(@)])
         ELSE Become(w, [call[w] EXCEPT !.todo = Tail(@)])
    /\ UNCHANGED <<shared, run, history>>

\* mkdtemp and the fixture, after the sweep.
MakeWorkspace(w) ==
    /\ At(w, "sweep") /\ call[w].todo = <<>>
    /\ \E r \in Runs :
         /\ asked[r] = None
         /\ dir' = dir \cup {r}
         /\ asked' = [asked EXCEPT ![r] = call[w].scenario]
         /\ Become(w, [Idle EXCEPT !.at = "made", !.run = r, !.scenario = call[w].scenario])
    /\ UNCHANGED <<runMeta, wsScenario, wsLlms, task, log, run, failed, kept, answers>>

\* The workspace is registered with its scenario and a fresh MockLLM.
RegisterWorkspace(w) ==
    /\ At(w, "made")
    /\ wsScenario' = [wsScenario EXCEPT ![call[w].run] = call[w].scenario]
    /\ wsLlms' = wsLlms \cup {call[w].run}
    /\ Become(w, [call[w] EXCEPT !.at = "registered"])
    /\ UNCHANGED <<dir, runMeta, task, log, run, history>>

\* create_task inserts the row and starts the run thread.
CreateTask(w) ==
    /\ At(w, "registered")
    /\ task' = [task EXCEPT ![call[w].run] = "RUNNING"]
    /\ thread' = [thread EXCEPT ![call[w].run] = "start"]
    /\ Become(w, [call[w] EXCEPT !.at = "created"])
    /\ UNCHANGED <<dir, runMeta, wsScenario, wsLlms, log, harness, history>>

\* mkdtemp, the fixture or the insert of create_task raises: nothing is undone.
StartRaises(w) ==
    /\ \/ At(w, "sweep") /\ call[w].todo = <<>> /\ failed' = failed
       \/ call[w].at \in {"made", "registered"} /\ failed' = failed \cup {call[w].run}
    /\ Become(w, Idle)
    /\ UNCHANGED <<shared, run, asked, kept, answers>>

\* _run_meta is written when the run thread may already be far ahead.
RecordMeta(w) ==
    /\ At(w, "created")
    /\ runMeta' = Append(runMeta, call[w].run)
    /\ Become(w, Idle)
    /\ UNCHANGED <<dir, wsScenario, wsLlms, task, log, run, history>>

(***************************************************************************)
(* get_run                                                                 *)
(***************************************************************************)
\* The task row is read first,
GetRun(w) ==
    /\ At(w, "idle")
    /\ \E r \in ToSet(runMeta) :
         Become(w, [Idle EXCEPT !.at = "state", !.run = r, !.state = task[r]])
    /\ UNCHANGED <<shared, run, history>>

\* Mutant: get_run cleans up whether the run is done or not.
ReadEvents_AlwaysClean(w) ==
    /\ At(w, "state")
    /\ Become(w, [call[w] EXCEPT !.events = log[call[w].run], !.at = "clean", !.then = "answer"])
    /\ UNCHANGED <<shared, run, history>>

\* then the events, from which the acceptance is evaluated; a settled run is cleaned up.
ReadEvents(w) ==
    /\ At(w, "state")
    /\ Become(w, [call[w] EXCEPT !.events = log[call[w].run],
                                 !.at = IF call[w].state \in Terminal THEN "clean" ELSE "answer",
                                 !.then = IF call[w].state \in Terminal THEN "answer" ELSE None])
    /\ UNCHANGED <<shared, run, history>>

\* Mutant: the answer reads the task row again, after the events.
Answer_FreshState(w) ==
    /\ At(w, "answer")
    /\ answers' = answers \cup
         {a \in {[run |-> call[w].run, state |-> task[call[w].run], events |-> call[w].events]} :
            a.state \in Terminal}
    /\ Become(w, Idle)
    /\ UNCHANGED <<shared, run, asked, failed, kept>>

Answer(w) ==
    /\ At(w, "answer")
    /\ answers' = answers \cup
         {a \in {[run |-> call[w].run, state |-> call[w].state, events |-> call[w].events]} :
            a.state \in Terminal}
    /\ Become(w, Idle)
    /\ UNCHANGED <<shared, run, asked, failed, kept>>

(***************************************************************************)
(* _cleanup_workspace                                                      *)
(***************************************************************************)
\* rmtree with ignore_errors: it may leave the directory behind.
RemoveTree(w) ==
    /\ At(w, "clean")
    /\ \/ dir' = dir \ {call[w].run} /\ kept' = kept \ {call[w].run}
       \/ call[w].run \in dir /\ dir' = dir /\ kept' = kept \cup {call[w].run}
    /\ Become(w, [call[w] EXCEPT !.at = "pop"])
    /\ UNCHANGED <<runMeta, wsScenario, wsLlms, task, log, run, asked, failed, answers>>

\* The entries of both dicts are dropped, one after the other; _run_meta is not evicted.
PopScenario(w) ==
    /\ At(w, "pop")
    /\ wsScenario' = [wsScenario EXCEPT ![call[w].run] = None]
    /\ Become(w, [call[w] EXCEPT !.at = "popllm"])
    /\ UNCHANGED <<dir, runMeta, wsLlms, task, log, run, history>>

\* The caller goes on: with the next run of the sweep, or with the answer of get_run.
Cleaned(c) == IF c.then = "sweep" THEN [c EXCEPT !.at = "sweep", !.run = None, !.then = None]
                                  ELSE [c EXCEPT !.at = "answer", !.then = None]

\* Mutant: the cleanup evicts the run from _run_meta too.
PopLlm_EvictMeta(w) ==
    /\ At(w, "popllm")
    /\ wsLlms' = wsLlms \ {call[w].run}
    /\ runMeta' = Remove(runMeta, call[w].run)
    /\ Become(w, Cleaned(call[w]))
    /\ UNCHANGED <<dir, wsScenario, task, log, run, history>>

PopLlm(w) ==
    /\ At(w, "popllm")
    /\ wsLlms' = wsLlms \ {call[w].run}
    /\ Become(w, Cleaned(call[w]))
    /\ UNCHANGED <<dir, runMeta, wsScenario, task, log, run, history>>

(***************************************************************************)
(* The run thread                                                          *)
(***************************************************************************)
\* _harness_factory looks the scenario up, or falls back to the keyless harness,
LookupScenario(r) ==
    /\ thread[r] = "start"
    /\ IF wsScenario[r] = None
       THEN harness' = [harness EXCEPT ![r] = "fallback"]
            /\ thread' = [thread EXCEPT ![r] = "running"]
       ELSE harness' = [harness EXCEPT ![r] = wsScenario[r]]
            /\ thread' = [thread EXCEPT ![r] = "llm"]
    /\ UNCHANGED <<shared, call, history>>

\* then takes the MockLLM of the workspace; without an entry the thread dies of a KeyError.
LookupLlm(r) ==
    /\ thread[r] = "llm"
    /\ thread' = [thread EXCEPT ![r] = IF r \in wsLlms THEN "running" ELSE "keyerror"]
    /\ UNCHANGED <<shared, harness, call, history>>

AppendEvent(r) ==
    /\ thread[r] = "running" /\ log[r] < MaxEvents
    /\ log' = [log EXCEPT ![r] = @ + 1]
    /\ UNCHANGED <<dir, runMeta, wsScenario, wsLlms, task, run, call, history>>

\* harness.run returns or raises: no event follows.
HarnessEnds(r) ==
    /\ thread[r] = "running"
    /\ thread' = [thread EXCEPT ![r] = "ended"]
    /\ UNCHANGED <<shared, harness, call, history>>

\* The terminal state is the last thing the thread writes.
WriteTaskState(r) ==
    /\ thread[r] = "ended"
    /\ \E s \in Outcomes : task' = [task EXCEPT ![r] = s]
    /\ thread' = [thread EXCEPT ![r] = "done"]
    /\ UNCHANGED <<dir, runMeta, wsScenario, wsLlms, log, harness, call, history>>

\* open_db before the factory, or the last update, raises: the row stays RUNNING.
ThreadDies(r) ==
    /\ thread[r] \in {"start", "ended"}
    /\ thread' = [thread EXCEPT ![r] = "dead"]
    /\ UNCHANGED <<shared, harness, call, history>>

ApiStep(w) ==
    \/ StartRun(w) \/ SweepNext(w) \/ MakeWorkspace(w) \/ RegisterWorkspace(w) \/ CreateTask(w)
    \/ StartRaises(w) \/ RecordMeta(w) \/ GetRun(w) \/ ReadEvents(w) \/ Answer(w)
    \/ RemoveTree(w) \/ PopScenario(w) \/ PopLlm(w)

ThreadStep(r) ==
    \/ LookupScenario(r) \/ LookupLlm(r) \/ AppendEvent(r) \/ HarnessEnds(r)
    \/ WriteTaskState(r) \/ ThreadDies(r)

Next == (\E w \in Workers : ApiStep(w)) \/ (\E r \in Runs : ThreadStep(r))

Spec == Init /\ [][Next]_vars

(***************************************************************************)
(* Properties                                                              *)
(***************************************************************************)
\* Every variable holds a value of its kind; the dict _run_meta has no key twice.
TypeOK ==
    /\ dir \subseteq Runs /\ wsLlms \subseteq Runs /\ ToSet(runMeta) \subseteq Runs
    /\ IsInjective(runMeta)
    /\ wsScenario \in [Runs -> Scenarios \cup {None}]
    /\ asked \in [Runs -> Scenarios \cup {None}]
    /\ harness \in [Runs -> Scenarios \cup {None, "fallback"}]
    /\ task \in [Runs -> Terminal \cup {"absent", "RUNNING"}]
    /\ log \in [Runs -> 0..MaxEvents]

\* get_run and the sweep of a concurrent start_run both remove workspaces and no lock
\* is held: the workspace of a run that is not settled is on disk as long as it runs.
LiveRunKeepsItsWorkspace == \A r \in Runs : task[r] = "RUNNING" => r \in dir

\* "Real demo runs never hit this path" of _fallback_harness: every harness is built from
\* the scenario start_run was asked for, and its factory never misses the MockLLM, although
\* other calls pop the entries of the dicts it reads.
RunsItsOwnScenario ==
    \A r \in Runs : harness[r] \in {None, asked[r]} /\ thread[r] # "keyerror"

\* A client stops polling at the first done answer of get_run: its state and the events
\* behind its acceptance verdict are the final ones.
DoneAnswerIsFinal ==
    \A a \in answers : a.state = task[a.run] /\ a.events = log[a.run]

\* "this bounds accumulation to the still-running + not-yet-swept set": when the sweep of a
\* start_run is over, no run that was settled when it began has a directory, unless rmtree
\* itself failed on it.
SweepReclaimsSettledRuns ==
    \A w \in Workers : At(w, "sweep") /\ call[w].todo = <<>> =>
        \A r \in call[w].due : r \in dir => r \in kept

\* A directory is always in the reach of a later sweep, the one of a failed rmtree too,
\* except that of a start_run that raised after mkdtemp.
DirectoryStaysReclaimable ==
    \A r \in dir :
        \/ r \in ToSet(runMeta) \cup failed
        \/ \E w \in Workers : call[w].run = r /\ call[w].at \in {"made", "registered", "created"}

=============================================================================
