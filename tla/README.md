# AegisCode: a TLA+ verification project

AegisCode is a governed coding agent: a loop asks a language model for one action at
a time, a policy engine allows, denies or asks a human for each of them, and everything is
written to an audit log that a REST service, a web page and a demo manager show. This
directory holds TLA+ models of its core, TLC runs over small instances and TLAPS proofs.

## 1. The system

| component | state | operations | depends on |
|---|---|---|---|
| agent loop (`loop/harness.py`, `loop/termination.py`, `feedback/classifier.py`) | counters, progress tracker, recent steps, last feedback | `run`, `_complete_with_retry`, `_append_step`, `decide_termination`, `classify` | LLM, dispatcher, approval resolver, audit log |
| dispatcher and approval binding (`governance/dispatcher.py`, `governance/approval.py`) | none (the approved fingerprint lives in the loop) | `dispatch`, `execute_approved`, `validate_resume` | tool registry, fence, engine, tools |
| policy engine (`governance/factory.py`, `engine.py`, `command_rules.py`, `command_lexer.py`) | the configured rules | `evaluate`, `judge_command` | configuration |
| path fence (`governance/path_fence.py`) | none | `check_path` | host file system |
| application service (`service/app_service.py`) | `_cancel_flags`, `_approval_events`, `_approvals_lock`, one thread per task | `create_task`, `cancel`, `decide`, the approval resolver, `_run_in_thread`, `_project_steps` | loop, repositories |
| persistence (`persistence/`) | tables `tasks`, `steps`, `approval_requests`, `audit_events` | insert, update_state, list | SQLite |
| audit chain (`audit/`) | hash-chained `audit_events` | `append`, `verify_chain` | SQLite |
| demo manager (`demo/service.py`) | `_run_meta`, `_ws_to_scenario`, `_ws_llms`, temporary directories | `start_run`, `get_run`, the sweep, the cleanup, the harness factory | application service |
| REST API (`service/api.py`) | none | eight task endpoints, three demo endpoints | service, demo manager |
| web page, task view (`service/webui/app.js`) | `taskId`, `lastEventId`, `pollTimer`, the event list, the approvals panel | submit, `poll`, `decide` | REST API |
| web page, demo view (same file) | `demoRunId`, `demoTimer`, the Start button, the verdict banner, the panels | `runDemo`, `pollDemo`, `renderAcceptance`, decide | REST API |
| demo scenarios (`demo/scenarios.py`, `demos/`) | the files of a demo workspace | the scripts, the check commands, the acceptance conditions, `make demo` | loop, tools, MockLLM |
| CLI and assembly (`cli.py`, `service/assembly.py`, `config/loader.py`) | `aegis.yaml` | `init`, `config`, `key`, `run`, `serve`, `demo`, `build_service` | configuration, credentials, service |
| credentials (`credentials/`) | `credentials.json` or the system keyring | `get`, `set`, `delete`, `status` | |
| memory, tools, parser, prompt builder, LLM adapters, redactor, scripts | see section 7 | | |

Who runs concurrently: API calls run on worker threads, each asynchronous task on a thread
of its own with its own SQLite connection, and the page's polls overlap with each other and
with its timer. Threads share the dicts of the service and of the demo manager and the
tables; only `_approval_events` is guarded by a lock.

What is hard in it, and what would make it wrong (`PROJECT.json` lists each hazard at its
line):

* **the loop**: five counters of which three can go back or stand still, retries, parse
  errors that do not advance the step, an action object that can change while a human
  thinks, a tool that runs before its events are appended, exceptions everywhere. It is
  correct when it runs only what was proposed and permitted, stops, and leaves a log that
  tells the truth;
* **the approval handshake**: registration, insert, wait, timeout, decision and `ev.set()`
  in any order, a failing insert or update, a decision after the timeout, a crash. It is correct when
  no wakeup is lost and every answer has a cause;
* **rule evaluation**: overlapping rules, abbreviations, spellings;
* **demo runs**: cleanup without a lock next to a factory that reads the same dicts;
* **the page**: answers that arrive late or out of order, for a task or a demo the page has
  turned away from. It is correct when it loses no event, never keeps a dead button, and a
  green banner is true;
* **the audit chain**: a reader that walks it while it grows, rows lost, edited or copied. It is
  correct when a healthy chain never raises an alarm and an accepted one is genuine;
* **the demos**: an acceptance that is computed from the log must not be fooled by an exception,
  a timeout, a cancellation or a human who decides otherwise;
* **the command line**: processes that share files and a database, and can be killed between
  truncating a file and writing it.

## 2. Modules

| module | models | extends |
|---|---|---|
| `GovernedRun` | abstract: what a run promises the person who starts it | |
| `Harness` | `HarnessCore.run` with dispatcher, approval binding and audit log; implements `GovernedRun` | |
| `StepViews` | `_project_steps` and `_summarize_steps` as functions of the loop's log | `Harness` |
| `ApprovalGate` | abstract: what an approval service promises the loop | |
| `AppService` | `ApplicationService` in asynchronous mode; implements `ApprovalGate` | |
| `CommandRules` | tiers of the default policy, `judge_command` | |
| `AuditChain` | `append`, `verify_chain` and damage to stored rows | |
| `DemoRuns` | `DemoRunManager` with concurrent API workers | |
| `DemoScenarios` | the three demos and their acceptance conditions | instances of `Harness` |
| `WebUI` | the task view of the page against the endpoints | |
| `DemoView` | the demo view of the page against the demo endpoints | |
| `CommandLine` | the commands with configuration, credentials and the synchronous mode | |
| `HarnessProofs`, `CommandRulesProofs`, `AuditChainProofs`, `AppServiceProofs`, `CommandLineProofs`, `DemoViewProofs`, `DemoRunsProofs`, `WebUIProofs` | theorems | the module they are named after |
| `MCParts` | one instance for `CommandRules`, `CommandLine` and `DemoScenarios` | `CommandRules`, `CommandLine`; an instance of `DemoScenarios` |
| the other `MC...` and their `.cfg` | the instance TLC checks | the module it is named after |

An operator whose name has an underscore and a suffix (`Wins_FirstMatch`) is a plausible bug
of the operator before the underscore. It is used nowhere in a specification; substituting it
must break the property it was written for, which shows that the property can fail.

### Harness

One behaviour is one call of `run`. `pc` is the point in the turn; an action is the code
between two audit appends or two calls of the outside world, because the process, the audit
log or a tool can fail there.

| action | code |
|---|---|
| `CheckTermination`, `CheckCancel` | top of the turn: clock and limits, cancel flag |
| `LlmAttemptFails`, `LlmGivesUp` | `_complete_with_retry` |
| `ReplyUnparsable`, `FeedbackUnparsable`, `ReplyAction` | parse error or action, with ACTION_PROPOSED |
| `Dispatch`, `RecordVerdict`, `FeedbackDenied` | `dispatch` (the tool runs inside it), GOVERNANCE_DECISION, denial |
| `ResolverRejects`, `ResolverApproves`, `RecordRejected`, `ExecuteApproved`, `RecordSuperseded`, `RecordApproved` | the approval branch; the resolver may hand back a changed action |
| `RecordExecuted`, `FinishAccepted`, `FinishRejected`, `ClassifyResult`, `FeedbackResult` | TOOL_EXECUTED, finish, counters, FEEDBACK |
| `TurnRaises`, `RunRaises` | the exception handler of the turn, and one that leaves `run` |
| `ClockExpires`, `UserCancels` | the environment |

The model may answer any action or garbage; tools give any result of `Outcomes`; the fence
answers by itself for the actions in `Fenced`. Prompts and feedback are reduced to their tag.

`GovernedRun` says what matters to the person, without log, retries and failure counters: a turn proposes
one action at most and calls it at most once, and only if the policy allows it or the person has
approved that action; one call at most comes after a stop was asked for; the reason the run ends
with is the truth. The refinement mapping reads the phase of a turn off `pc` (`runPhase`), the
proposal off `action` as long as the turn may still call it (`runProposal`) and the calls off
`ran` (`runCalls`). In it an approval counts only while `action` is what `approved_fp` is bound
to: a resolver that hands back a changed action has refused.

### AppService and ApprovalGate

A step is what happens between two points where another thread can run: taking the lock and
registering the Event, the insert under the lock, the wait, the return of the wait, the
timeout, the rejection of the overdue row, and on the other side the update, the lookup under
the lock and the `set()` of `decide()`. `InsertRaises`, `ResolverRaises` (the update of an
overdue row, or the reading of a decided one, meets a busy database), `UpdateRaises`,
`ThreadDies` and `Crash` are the failures. The harness is reduced to asking for approvals and
ending; an exception of the resolver ends it with INTERNAL_ERROR.

`ApprovalGate` says in five actions what the loop relies on. The refinement mapping
(`gateStatus`, `gateVotes`) reads the status of a request off the row, the thread and the
answer returned.

### CommandRules

An action is judged in one step by the tiers, or, for `run_command`, by the lexer's verdict,
the allowlist and then one step per rule. A word is its dashes, its name and whether a value
follows; arguments and rule tokens are sets because the code only quantifies over them.

### AuditChain

`ReadPrev` and `InsertRow` are the two statements of `append`; the walk of `verify_chain` goes
row by row over the result of one SELECT while the run thread keeps appending. `LoseRow`,
`EditRow` and `CopyRow` are what can happen to stored rows; an edited row carries hashes that
were once computed, those of other rows included. SHA-256 is taken as injective: a hash is the
sequence of the bodies that were hashed into it.

### DemoRuns

API workers execute `start_run` (copy of `_run_meta`, sweep, `mkdtemp`, registration,
`create_task`, `_run_meta`) and `get_run` (task row, events, cleanup, answer) step by step,
next to the run threads. `rmtree` may leave the directory behind, and a start may raise.

### DemoScenarios

Each demo is an instance of `Harness` with its real limits and tools (`Guardrail`, `Repair`,
`Binding`). `Surroundings` adds to each step of the loop what the loop leaves open: the next
line of the MockLLM script, the resolver of the binding demo, what a write leaves on disk, and
that the tests pass exactly when the file on disk is right. `web` distinguishes the page, where
a human decides and can cancel, from `make demo`. `SuccessConditions` is the acceptance over
the log, `Contract` what `demos/run_demos.py` demands.

### WebUI and DemoView

The page's variables, its polls in flight (each with the request it awaits and the answer
once it is served) and the tables the endpoints read. Requests are served and answered in any
order, and fail. The event list is kept as the set of event ids it contains: overlapping polls
can put an event into the list twice, which the model does not tell apart. In `DemoView` each of
the three requests of a `pollDemo` names the run the page shows at that moment, as the code
does, so one poll can mix the answers of two runs.

### CommandLine

A process is one command in a terminal of its own; the processes share `aegis.yaml`,
`credentials.json` and the database, and `Killed` ends one at any step. `init` and `key` write
a file by truncating and filling it, in two steps; `key clear` reports success also when it
could do neither (`ClearKey`). A configuration loads with any provider: it is `Refused` by
`build_llm`, not by the schema. `run` and `serve` load the configuration, `Build` the service
and, for `run`, go through `create_task` in the synchronous mode, whose resolver has nobody to
ask and rejects, or raises while another process holds the database (`ResolverRaises`).
`PanelDecides` is a `serve` on the same database. `serve` in demo mode takes POST /tasks with its
copy of the sample project, which may outlive a refusal because `rmtree` ignores its errors.

### MCParts

`CommandRules`, `CommandLine` and `DemoScenarios` have no state in common and only invariants to
check, so one run explores them side by side: `part` is chosen in the initial state, the
variables of the other two parts rest at one value at which their properties say nothing. Every
step is a step of one of the three, so the states of the run are
those of three separate ones.

## 3. Runs

| run | instance | shows |
|---|---|---|
| `loop` | six actions (one per class of the policy, two that need approval, one unknown), 3 steps, fair | only proposed and permitted actions run; the log justifies and shows each execution; a stop is honoured; TERMINATION is last; the step summary shows what ran; the limits bound the work; no step is missing from the prompt; the loop implements `GovernedRun`; the run ends |
| `service` | one task with two approvals, two users with one decision each, one crash, fair | no lost wakeup, answers have causes and leave nothing behind; every task settles; the handshake implements `ApprovalGate` |
| `audit_chain` | two tasks with three rows and one, one reader, one damage | an intact chain verifies at any moment, an accepted chain is genuine, a count taken before anchors it |
| `demo_runs` | two runs, two workers | cleanup never touches a live run and reclaims settled ones; a done answer is final |
| `parts`, rules | commands of up to two arguments, lists of up to two of 14 rules | the most restrictive rule wins, and variations of a command are not judged milder |
| `parts`, commands | two processes that run any of the seven commands, one key | the exit code of `run` agrees with the database |
| `parts`, demos | the real scripts and limits, unscaled | an accepted run did what it claims, an undisturbed demo passes, what was refused never runs |
| `webui` | two polls in flight, two tasks, two events, one failure, fair | the watermark is the newest event shown, no gap below it, polling stops |
| `demo_view` | two polls in flight, two starts (one interactive), one failure, fair | one timer, a disabled Start is attended and comes back, a green banner rests on a passed run |
| `service_late_decision` | violation | a late decision rewrites the REJECTED row of an overdue request |
| `webui_final_events` | violation | the event that ends the task may never be shown |
| `demo_view_green` | violation | an old run's verdict turns the new run's banner green |
| `loop_failure_streak` | violation | a repeated action is not counted as the failure it was |
| `demo_acceptance` | violation | the page accepts a demo whose approved write failed, `make demo` does not |

**Why the bounds are enough.** The loop treats steps uniformly; three steps let a counter grow,
reset and reach its limit (2) with every order of success, failure, repetition, denial and
parse error, and the proofs lift the central properties to every limit. In the handshake a
decision races with one resolver at a time: a second approval is what can be confused with the
first, a second user is what can decide late. Tasks share only the lock and the dicts, whose
entries are keyed by the approval; `AppServiceProofs` proves the safety properties and the
refinement for all numbers of tasks and users. In `audit_chain` three rows are the least that
have a first, a middle and a last one to damage, and the second task is the one whose rows can
turn up among them. In `demo_runs` two runs are needed for a sweep that meets a live and a
settled one; the end states CANCELLED and FAILED are treated alike by the manager, so one of
them is enough. On the page two polls are enough to overtake each other, and two starts to have an
earlier and a later run. Two processes let two commands meet on a file, and a panel on the approval of
a `run`; what a process leaves in the rows touches no third one. `DemoRunsProofs`, `DemoViewProofs`, `WebUIProofs`, `CommandLineProofs` and
`AuditChainProofs` lift the safety properties of these runs to all sizes. Symmetry is used
only where no liveness is checked.

`CHECK_DEADLOCK FALSE` is set where the system may rest: no user has to create a task or press
a button, a judgement ends with its verdict, a command with its exit code, and the rows of a
chain reach their bound. `loop`, `demo_runs` and `parts` check for
deadlock; in `parts` the rules and the commands have a step that rests, the demos have none.

## 4. Fairness

* `Harness!FairSpec`: the run thread goes on. A model call has the client's timeout, commands
  and tests have `command_timeout_sec`, and an approval wait is bounded (3600 s by
  default), so no step of the thread blocks for ever. Neither the clock nor the user is
  assumed to act.
* `AppService!FairSpec`: each task thread and each `decide()` call that has begun goes on.
  The resolver's wait can always time out, and the lock is released by `with`. Users are not
  assumed to decide anything. The process may crash, which `TaskSettles` excepts.
* `WebUI!FairSpec`: requests are answered or fail, and the browser fires the interval timer.
  Failures are bounded; a server that never answers again would keep the timer for ever.
* `DemoView!FairSpec`: the same for the demo view, and the runs on the server and their
  approvals settle, which is what `RunTerminates` and `TaskSettles` say of them (an approval
  nobody decides times out).

## 5. Proofs

Each proof module proves an invariant that is inductive, with one step per action, and derives
the listed theorems from it. Lemmas about what an operator returns or keeps come first.

**`HarnessProofs`**, for all sets of actions, policies, outcomes and limits
(`ActionsAssumption`, `LimitsAssumption`):

| theorem | inductive invariant, and why it is needed |
|---|---|
| `TypeCorrect` | `TypeOK` is inductive |
| `WorkIsBounded` | `RepliesInv`: replies are bounded by `step * retry limit + invalid actions` at each point of the turn, because neither counter is monotone alone; `CallsInv`: at most one call per step |
| `StopIsHonoured` | `LateInv`: past the checks of a turn no call has been late yet |
| `OnlyProposedRun` | `BindingInv`: the action at hand, and during an approval its fingerprint, were proposed at this step and are not denied |
| `ExecutionsAreJustified` | `JustifiedInv`: at the points before a TOOL_EXECUTED the justification is already in the log |
| `TerminationIsUnique` | `EndInv`: a run that is not over has no TERMINATION in its log |
| `ExecutionsAreAudited` | `AuditedInv`: at each point of the turn, whether the call of this turn has its event yet, so that calls and events can be counted against each other |
| `FailuresMatchTheLog` (what the counter counts, not what SPEC.md:130 says: section 6) | `StreakInv`: at the feedback of a step, when the counter is adjusted and the outcome not yet logged, whether they agree, differ by one or the counter is 0 |
| `PromptIsComplete` | `PromptInv` with `RepliesInv`: the steps shown and the rejected finishes together are the steps completed, and with at most `max_steps` of them the trimming never cuts |
| `SummariesAreCoherent` | `EventsInv`: a step has one TOOL_EXECUTED at most, and the newest proposal, decision and approval of its step are those that let it run, since only FEEDBACK and TERMINATION follow it; `TurnInv`: what the log already shows of the turn under way |
| `ImplementsGovernedRun` | `GovernedInv` (the person is asked only about what the policy sends to them, and is shown the action of the turn; only `finish` reaches the finish checks), with `RepliesInv` for the limit and `LateInv` for the one late call |
| `RunUsesUpItsSteps` | `RepliesInv` for the variant `Remaining`: the replies still paid for times the longest turn, plus the way (`Position`) to the next reply |

The refinement is proved action by action: `PhaseTable` says what phase each `pc` stands for, so
that a step that leaves phase, proposal and calls alone is a stutter, and each of the others is
the action of `GovernedRun` of the same meaning.

The lemmas about the growth of the log (`Kept`, `EmitKeeps`), about the indices of its events of
one kind (`IndexSets`, with which a count grows by one or stays) and about products of the limits
(`BudgetArith`) are shared. `RunUsesUpItsSteps` is what `RunTerminates` rests on, for all limits: a
thread that keeps running takes no more than the steps it counts. The proof of
`FailuresMatchTheLog` does not go through if a tool may return a result of category
NO_PROGRESS: the feedback of such a failure is taken for a repetition. No tool of the code
returns one, only the loop itself, which is why `ToolResults` excludes it.

**`CommandRulesProofs`**, for all lists of rules and commands (`RulesAssumption`):
`MostRestrictiveWins` from the loop invariant `LoopInv` (the winner is the first of the most
restrictive matching rules before `i`) and `ReturnInv` (`JudgementTypeCorrect` bounds index and
winner), and from it `MoreArguments`, `Abbreviations` and `Spellings`, each with a lemma that the
changed command still matches the rule that won.

**`AuditChainProofs`**, for all tasks, contents, readers, appends and damages
(`ChainAssumption`): `ChainTypeCorrect`, `AcceptedChainsAreGenuine`, `FreshCountAnchors` and
`IntactChainsVerify`. Genuineness rests on `IssuedInv` (a computed hash ends in a body of the
task it was computed for) and `WalkInv` (the walk holds the hash that stands for the rows it has
passed). The count rests on `GrowthInv` (a hash is no longer than the list of its task's
appends, and one as long stands for exactly that list) and `AnchorInv` (every hash a call with a
count can meet, and that has its length, stands for the appends counted). That intact chains
verify rests on `TableInv` (the rows of a task that nobody changed are chained, and so is the
one about to be added) and `IntactInv` (so are the rows a reader took from such a task). None of
the properties is inductive, because a reader holds an old result of its SELECT while the table
changes.

**`AppServiceProofs`**, for all tasks, users, approvals, decisions and crashes
(`ActorsAssumption`): `ServiceTypeCorrect`, `NoWakeupIsLost`, `OutcomesHaveCauses`,
`AnswersAreSettled` and `ImplementsGate`. `ThreadInv` says how far an approval has come by the
point its thread is at: when its row is written, its deadline passed; `EventInv`, that an Event
is registered only for the current approval of a run that has yet to forget it or whose resolver
raised; `RowInv` says that what a row says has a cause, that an approval not yet asked for or stored
(`Fresh`) has no row, and that only the current one of a run is PENDING, and past its resolver
only when that raised (`Pends`); `CallInv`, that a `decide()` past its update names a row with a
verdict. The refinement is proved step by step: a
step that changes neither answers, votes nor deadlines, stores no row and lets no resolver begin
or cease to wait is a stutter (`StatusKept`); each of the others is the action of the gate of
the same meaning. Three further theorems are about the rows: `ThreadsUseUpTheirWork` gives the
variant behind `TaskSettles` (`Work`: six steps for each approval the run can still ask for, plus
the way of the thread to its end) and says that a thread without work has written a terminal row
or died early; `TaskRowsAreFinal`, that nothing changes a terminal row; `OneApprovalPends`, that a
task has one PENDING approval at most. The first two rest on `RowFollowsThread`.

**`CommandLineProofs`**, for all processes, keys and commands, without an assumption:
`ExitCodesAreTrue` from `RunAt` (what the task and the approval of a `run` are at each point,
after a resolver that raised as well). `OthersStay` states once that a command leaves alone what
belongs to the other processes. `CommandsTypeCorrect` types the variables.

**`DemoViewProofs`**, for all polls, starts and failures (`DemoPageAssumption`):
`StartIsAttended` from `StartInv`, and `GreenRestsOnARun` from `VerdictInv` (a passed verdict the
page holds, in an answer or in its banner, is that of some run). `ClickInv` says that the clicks
are numbered without a gap and no run starts twice, without which the state of a run could go
back; `PollInv`, that nothing polls and no approval is decided before the page has a run, on which
`DemoViewTypeCorrect` rests too. `DisabledStartComesNearer` gives the variants behind
`StartComesBack`: a poll in flight has `StepsLeft` until its end; while Start is disabled the
POSTs in flight (`Posts`) only become fewer, and one is used up whenever the page turns to another
run; and while the run shown has ended, a poll that ends without enabling Start is one of
`LostPolls`, the polls that will not learn of that end and the requests that can still fail.
`PollChanges` lists the ways a poll can change, and `EndedStays` (from `ClickInv`) keeps a poll
that is told of the end from being told otherwise later.

**`DemoRunsProofs`**, for all runs, workers, scenarios and outcomes (`DemoAssumption`):
`LiveWorkspaces`, `OwnScenarios`, `DoneIsFinal`, `SweepReclaims`,
`DirectoriesStayReclaimable` and `ManagerTypeCorrect`. `RunInv` says what the dicts and the disk
hold for a run in each state, `CallInv` what a worker has done at each point of its call (`StartAt`, `ReadAt`,
`SweepAt`), `ApartInv` that no two calls start the same run, and `AnswersInv` that the answers
kept are final. `CallInv` is needed because a worker goes on with what it has read: cleanup is
called for a run that was settled then, which is enough only because a settled run stays
settled. The dict `_run_meta` is modelled by the sequence of its keys; `MetaInv` justifies that,
showing that no run is recorded twice.

**`WebUIProofs`**, for all polls, tasks, events and failures (`PageAssumption`):
`PageTypeCorrect`, `WatermarkIsNewest` and `NoGaps`. `NamesInv` says that all the page names has
been created, `CountInv` that events and tasks are numbered without a gap and every task was
submitted, and `GapInv` that an answer on its way has every event between the watermark it was
asked with and its newest one, and that the watermark has not been lowered since: without it
an answer could raise the watermark over an event nobody has fetched. That two timers never run
at once is part of `PageTypeCorrect`. `EndedTasksStopTheTimer` gives the variants behind
`PollingStops`: a poll in flight (`InFlightInv`) has `StepsLeft` until its end, and while the
timer outlives the task of the page, a poll that ends without stopping the timer is one of
`LostPolls`: the polls whose last answer speaks of another task or of a time when the task was
running, and the requests that can still fail. None becomes stale any more, because a poll asks
for the task the page shows and a state that is terminal stays so.

**Only model-checked**: the liveness properties (`RunTerminates`, `TaskSettles`,
`PollingStops`, `StartComesBack`), because the prover reaches neither fairness nor ENABLED (the
variants behind them are proved, as `RunUsesUpItsSteps`, `ThreadsUseUpTheirWork`,
`EndedTasksStopTheTimer` and `DisabledStartComesNearer`, which leaves to TLC that what fairness
covers is taken: the steps of a thread, the answer to a request, the next tick of a timer); and the three properties of `DemoScenarios`, which has no constants: its instance is the
real one, so that TLC's answer is complete for it.

## 6. Findings

1. `decide()` overwrites the row of an overdue request (`service_late_decision`): the row says
   APPROVED although the action was refused and the docstring calls REJECTED terminal.
2. The page can stop polling before it has fetched the last events (`webui_final_events`).
3. A poll of the previous demo that is answered after Re-run writes its verdict into the new
   run's banner, which can turn green before the new run has passed (`demo_view_green`).
4. A repeated action is neither a consecutive failure nor the end of a streak
   (`loop_failure_streak`); SPEC.md:130 counts every failure and clears with every success.
5. The page's acceptance of the binding demo and the checks of `make demo` differ
   (`demo_acceptance`): a write that was approved and then failed with an OSError is logged
   APPROVED, which the page's condition labels "approved and executed", while `make demo` looks
   at the file as well. app.js:472-473 and the consistency test say that the two agree.

Not stated as runs, met while reading:

* `_project_steps` and `latest_action_step_index` compare the stored `EventType.X` with `X`: the
  steps table stays empty, a completed task has `step_count` 0 and every approval row step 0;
* the FEEDBACK of a tool run is filed under the next step; a failed step can show the one before;
* SPEC.md:222 and 395 describe the rules as first-match, the code and its comments as
  most-restrictive (`CommandRules` follows the code);
* SPEC.md:145 asks for INVALID_ACTION on an unknown tool, the loop feeds POLICY_DENIED back; a
  tool that raises ends the run, where SPEC.md:152 asks for TOOL_ERROR;
* the docstring of the resolver (app_service.py:278-279) says that an overdue row never stays
  PENDING; when the update of line 309 raises, it does, its Event stays registered and the task
  ends FAILED (`ResolverRaises`; `ResolvedIsSettled` says that this is the only way). The same
  update of the synchronous resolver (line 261) can leave a PENDING row behind a `run` that
  returns 0;
* `key clear` reports success whatever the backend raised (store.py:16-20);
* an unknown provider is refused as a missing key (`NoKeyError`), and only by `run` and by a
  `serve` outside demo mode;
* a `start_run` that raises leaves a directory that no sweep finds (`failed` in `DemoRuns`), and
  `demo_mode.py:5` says the ephemeral copy is cleaned up on completion, which happens only when the
  request is refused;
* the docstring of `persistence/db.py` (13-14) gives each thread a connection of its own, while
  `assembly.py:155` hands one `MemoryStore(conn)` to all of them.

## 7. Not modelled

* path fence and the effects of tools on the host: symbolic links and processes of the operating
  system; they are inputs of `Harness`;
* parser, prompt builder, redactor, credential scanner: functions from text to text;
* LLM adapters and the keyring: external services; of the former `Harness` keeps that a call
  answers anything, or fails and is retried;
* `key status`, `demo`, `--watch`, `demo3_symlink_escape`, `demo4_superseded` and the scripts
  for a deployed server: they print, or drive other parts with fixed inputs;
* memory: `retrieve` and its refresh are straight-line SQL; the loop uses the rows as prompt text.

What the models leave out on purpose: `CommandLine` follows the assembly, which builds the
credential store with an empty environment and without dotenv, so those layers never apply; a
`key set` killed between truncating and writing loses the old key, and two saves that overlap
may leave a file that cannot be read ("torn"): no document promises otherwise, and no property
speaks of the file beyond what a `run` answers when it finds no key. In `AuditChain` a suffix that is lost and followed by new appends is accepted by a
verification without a count: `AcceptedIsGenuine` promises a genuine beginning, and
`CountAnchorsChain` needs the count. `DoneAnswerIsFinal` speaks of one process: after a restart
the manager knows none of its runs.

## 8. Plan

Done: everything of section 2 with the proofs of section 5. What remains, in this order:

1. a composition of `Harness` with `AppService`'s resolver, so that the events of an approval
   and its row are related;
2. `MemoryStore`: retrieval, refresh and limit, and which memories can starve;
3. the lifetime of `serve`: what a restart finds in the tables of an earlier process.
