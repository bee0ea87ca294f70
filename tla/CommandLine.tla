---------------------------- MODULE CommandLine ----------------------------
(***************************************************************************)
(* The command line (aegiscode/cli.py) with what its commands call:        *)
(* config/loader.py, credentials/backend.py and store.py, the assembly of  *)
(* a service, and create_task in sync mode.  Each process runs one command *)
(* in a terminal of its own; they share aegis.yaml, credentials.json and   *)
(* the database of one AEGIS_HOME, and each can be killed at any step.  A  *)
(* `serve` in demo mode also takes POST /tasks with its ephemeral copy.    *)
(***************************************************************************)
EXTENDS Naturals, FiniteSets

CONSTANTS
    Procs,      \* the commands, one process each
    Keys,       \* API keys
    Runnable    \* what a process may run: members of CommandNames

CommandNames == {"init", "init --force", "config", "key set", "key clear", "run", "serve"}

EmptyKey == "empty"     \* what the prompt returns when the user just presses return
NoKey == "none"

VARIABLES
    provider,   \* AEGIS_LLM_PROVIDER: "unset", "mock" or "bogus"
    demoMode,   \* AEGIS_DEMO_MODE=1
    tmpAllowed, \* serve: the temp directory lies inside the allowed base
    yaml,       \* aegis.yaml: "absent", "" (truncated), the template, or what a user made of it:
                \* "mock", "broken" (refused), "list" (not a mapping)
    creds,      \* credentials.json: the stored key, NoKey, or "torn" while it is truncated
    task,       \* the row of the task a `run` or a POST /tasks created: its state
    approval,   \* the latest approval row of the task: its state
    copy,       \* POST /tasks: the ephemeral copy of the sample project exists
    command,    \* what each process runs
    at,         \* where it is
    code,       \* its exit code, or why it ended
    llm,        \* run and serve: the provider of the configuration they loaded
    value,      \* key set: what the user has entered
    stale,      \* the saves whose truncated file somebody else has written meanwhile
    answer      \* the answer to POST /tasks

world == <<provider, demoMode, tmpAllowed>>
files == <<yaml, creds>>
rows == <<task, approval, copy, answer>>
locals == <<llm, value>>
lineVars == <<world, files, rows, command, at, code, locals, stale>>

TERMINAL == {"COMPLETED", "FAILED"}
Saving == {p \in Procs : at[p] = "write"}

LineInit ==
    /\ provider \in {"unset", "mock", "bogus"}
    /\ demoMode \in BOOLEAN /\ tmpAllowed \in BOOLEAN
    /\ yaml \in {"absent", "template", "mock", "broken", "list"}
    /\ creds = NoKey
    /\ task = [p \in Procs |-> "absent"] /\ approval = [p \in Procs |-> "none"]
    /\ copy = [p \in Procs |-> FALSE] /\ answer = [p \in Procs |-> "none"]
    /\ command \in [Procs -> Runnable]
    /\ at = [p \in Procs |-> "start"] /\ code = [p \in Procs |-> "none"]
    /\ llm = [p \in Procs |-> "none"] /\ value = [p \in Procs |-> NoKey]
    /\ stale = {}

\* Process p, at the given point of one of the commands.
Runs(p, names, point) == command[p] \in names /\ at[p] = point
Goto(p, point) == at' = [at EXCEPT ![p] = point] /\ UNCHANGED code
Exit(p, c) == at' = [at EXCEPT ![p] = "exit"] /\ code' = [code EXCEPT ![p] = c]

(***************************************************************************)
(* Configuration                                                           *)
(***************************************************************************)
\* load_config and load_defaults: the environment overrides the file and the defaults.
EffectiveProvider ==
    IF provider # "unset" THEN provider
    ELSE IF yaml = "mock" THEN "mock" ELSE "openai"

\* The provider is a plain string: an unknown one loads like any other.  A truncated file is
\* an empty document; the schema refuses a broken one with a ConfigError, and a document that
\* is not a mapping raises something else, which no command catches.
ConfigLoads == yaml \notin {"broken", "list"}
ConfigFailure == IF yaml = "broken" THEN "2" ELSE "raised"

\* init refuses to overwrite an existing file without --force.
InitCheck(p) ==
    /\ Runs(p, {"init", "init --force"}, "start")
    /\ IF yaml # "absent" /\ command[p] = "init" THEN Exit(p, "1") ELSE Goto(p, "scaffold")
    /\ UNCHANGED <<world, files, rows, command, locals, stale>>

\* write_text truncates the file ...
InitTruncate(p) ==
    /\ Runs(p, {"init", "init --force"}, "scaffold")
    /\ yaml' = ""
    /\ Goto(p, "fill")
    /\ UNCHANGED <<world, creds, rows, command, locals, stale>>

\* ... and fills it.
InitFill(p) ==
    /\ Runs(p, {"init", "init --force"}, "fill")
    /\ yaml' = "template"
    /\ Goto(p, "validate")
    /\ UNCHANGED <<world, creds, rows, command, locals, stale>>

\* The scaffold is loaded again.  An exception would not be caught, but no command writes a
\* file that does not load.
InitValidate(p) ==
    /\ Runs(p, {"init", "init --force"}, "validate")
    /\ Exit(p, IF ConfigLoads THEN "0" ELSE ConfigFailure)
    /\ UNCHANGED <<world, files, rows, command, locals, stale>>

\* `config` needs the file; it validates and summarises it.
ConfigSummary(p) ==
    /\ Runs(p, {"config"}, "start")
    /\ Exit(p, IF yaml = "absent" THEN "2" ELSE IF ConfigLoads THEN "0" ELSE ConfigFailure)
    /\ UNCHANGED <<world, files, rows, command, locals, stale>>

(***************************************************************************)
(* Credentials                                                             *)
(***************************************************************************)
\* JsonFileBackend._load: a file that cannot be read or parsed counts as empty.
Load == IF creds = "torn" THEN NoKey ELSE creds

\* The prompt of `key set`: without a key nothing is stored.
EnterKey(p) ==
    /\ Runs(p, {"key set"}, "start")
    /\ \E k \in Keys \cup {EmptyKey} :
          IF k = EmptyKey THEN Exit(p, "1") /\ UNCHANGED value
          ELSE Goto(p, "truncate") /\ value' = [value EXCEPT ![p] = k]
    /\ UNCHANGED <<world, files, rows, command, llm, stale>>

\* CredentialStore.clear catches every exception of the backend: the file may stay as it is
\* and the command still reports success.
ClearKey(p) ==
    /\ Runs(p, {"key clear"}, "start")
    /\ Goto(p, "truncate") \/ Exit(p, "0")
    /\ UNCHANGED <<world, files, rows, command, locals, stale>>

\* _save opens the file with O_TRUNC; what _load found in it before holds no other key ...
TruncateCredentials(p) ==
    /\ at[p] = "truncate"
    /\ creds' = "torn"
    /\ stale' = {}
    /\ Goto(p, "write")
    /\ UNCHANGED <<world, yaml, rows, command, locals>>

\* ... and dumps the new content.  Over a content that another save has written since, a
\* shorter one leaves a tail that cannot be parsed.
WriteCredentials(p) ==
    LET new == IF command[p] = "key set" THEN value[p] ELSE NoKey IN
    /\ at[p] = "write"
    /\ creds' \in IF p \in stale THEN {new, "torn"} ELSE {new}
    /\ stale' = Saving \ {p}
    /\ Exit(p, "0")
    /\ UNCHANGED <<world, yaml, rows, command, locals>>

(***************************************************************************)
(* run and serve                                                           *)
(***************************************************************************)
LoadConfig(p) ==
    /\ Runs(p, {"run", "serve"}, "start")
    /\ IF ConfigLoads THEN Goto(p, "build") ELSE Exit(p, ConfigFailure)
    /\ llm' = [llm EXCEPT ![p] = IF ConfigLoads THEN EffectiveProvider ELSE "none"]
    /\ UNCHANGED <<world, files, rows, command, value, stale>>

\* The DemoRunManager that serves in demo mode has an LLM of its own.
BuildsLlm(p) == ~(command[p] = "serve" /\ demoMode)

\* NoKeyError of build_llm: a real provider without a key, or, with one, an unknown provider.
Refused(p) == BuildsLlm(p) /\ llm[p] # "mock" /\ (Load \notin Keys \/ llm[p] = "bogus")

\* build_service, with the database opened before the key is read.
Build(p) ==
    /\ Runs(p, {"run", "serve"}, "build")
    /\ IF Refused(p) THEN Exit(p, "no key")
       ELSE Goto(p, IF command[p] = "run" THEN "create" ELSE "serving")
    /\ UNCHANGED <<world, files, rows, command, locals, stale>>

\* create_task: a workspace outside an allowed_base pinned by the configuration, or the
\* insert, raises before there is a row.
CreateTask(p) ==
    /\ Runs(p, {"run"}, "create")
    /\ \/ Exit(p, "raised") /\ UNCHANGED task
       \/ Goto(p, "inline") /\ task' = [task EXCEPT ![p] = "RUNNING"]
    /\ UNCHANGED <<world, files, approval, copy, answer, command, locals, stale>>

\* The harness factory, or a statement after the run, raises: nothing settles the row.
RunRaises(p) ==
    /\ Runs(p, {"run"}, "inline") \/ Runs(p, {"run"}, "failing")
    /\ Exit(p, "raised")
    /\ UNCHANGED <<world, files, rows, command, locals, stale>>

\* The sync resolver inserts a PENDING row ...
AskApproval(p) ==
    /\ Runs(p, {"run"}, "inline") /\ llm[p] # "mock"
    /\ approval' = [approval EXCEPT ![p] = "PENDING"]
    /\ Goto(p, "asked")
    /\ UNCHANGED <<world, files, task, copy, answer, command, locals, stale>>

\* Mutant: without a decision function the row is left alone.
RejectUnasked_RowKept(p) ==
    /\ Runs(p, {"run"}, "asked")
    /\ Goto(p, "inline")
    /\ UNCHANGED <<world, files, rows, command, locals, stale>>

\* ... and rejects it, for nobody was given the decision.
RejectUnasked(p) ==
    /\ Runs(p, {"run"}, "asked")
    /\ approval' = [approval EXCEPT ![p] = "REJECTED"]
    /\ Goto(p, "inline")
    /\ UNCHANGED <<world, files, task, copy, answer, command, locals, stale>>

\* While another process holds the database the insert or the update of the resolver raises,
\* and the row, if there is one, stays PENDING; the harness ends with INTERNAL_ERROR.
ResolverRaises(p) ==
    /\ Runs(p, {"run"}, "asked") \/ (Runs(p, {"run"}, "inline") /\ llm[p] # "mock")
    /\ Goto(p, "failing")
    /\ UNCHANGED <<world, files, rows, command, locals, stale>>

\* The run is over, by an exception of the harness too, and the row is settled; the mock
\* provider has no script, which is an LLM_ERROR.
FinishRun(p) ==
    /\ Runs(p, {"run"}, "inline") \/ Runs(p, {"run"}, "failing")
    /\ \E s \in IF llm[p] = "mock" \/ at[p] = "failing" THEN {"FAILED"} ELSE TERMINAL :
          task' = [task EXCEPT ![p] = s]
    /\ Exit(p, "0")
    /\ UNCHANGED <<world, files, approval, copy, answer, command, locals, stale>>

\* A decision posted to a panel on the same database rewrites the row of any task.
PanelDecides(p, q) ==
    /\ Runs(p, {"serve"}, "serving")
    /\ approval[q] # "none"
    /\ \E s \in {"APPROVED", "REJECTED"} : approval' = [approval EXCEPT ![q] = s]
    /\ UNCHANGED <<world, files, task, copy, answer, command, at, code, locals, stale>>

(***************************************************************************)
(* POST /tasks in demo mode                                                *)
(***************************************************************************)
\* In demo mode the sentinel "demo" is accepted and the sample project copied; anything else
\* is refused, and a copy that fails half-way is answered with 500 and left behind.  (Outside
\* demo mode a request goes to create_task as it is: AppService.)
CopySample(p) ==
    /\ Runs(p, {"serve"}, "serving")
    /\ demoMode /\ answer[p] = "none"
    /\ \/ answer' = [answer EXCEPT ![p] = "400"] /\ UNCHANGED <<copy, at>>
       \/ /\ \E c \in BOOLEAN : copy' = [copy EXCEPT ![p] = c]
          /\ answer' = [answer EXCEPT ![p] = "500"] /\ UNCHANGED at
       \/ copy' = [copy EXCEPT ![p] = TRUE] /\ at' = [at EXCEPT ![p] = "copied"]
          /\ UNCHANGED answer
    /\ UNCHANGED <<world, files, task, approval, command, code, locals, stale>>

\* create_task on the copy: only when it is refused outside the allowed base is the copy
\* removed again, by an rmtree whose errors are ignored; an exception of the database is
\* answered with 500.
CreateFromCopy(p) ==
    /\ Runs(p, {"serve"}, "copied")
    /\ Goto(p, "serving")
    /\ \/ answer' = [answer EXCEPT ![p] = "500"] /\ UNCHANGED <<task, copy>>
       \/ /\ ~tmpAllowed /\ answer' = [answer EXCEPT ![p] = "400"]
          /\ \E c \in BOOLEAN : copy' = [copy EXCEPT ![p] = c]
          /\ UNCHANGED task
       \/ /\ tmpAllowed /\ answer' = [answer EXCEPT ![p] = "200"]
          /\ task' = [task EXCEPT ![p] = "RUNNING"] /\ UNCHANGED copy
    /\ UNCHANGED <<world, files, approval, command, locals, stale>>

\* The fallback harness has an empty script: the run fails with LLM_ERROR.
FallbackEnds(p) ==
    /\ Runs(p, {"serve"}, "serving")
    /\ task[p] = "RUNNING"
    /\ task' = [task EXCEPT ![p] = "FAILED"]
    /\ UNCHANGED <<world, files, approval, copy, answer, command, at, code, locals, stale>>

\* A process is interrupted or killed, or dies of an error of the file system or of the
\* database that its command does not catch.
Killed(p) ==
    /\ at[p] # "exit"
    /\ Exit(p, "killed")
    /\ UNCHANGED <<world, files, rows, command, locals, stale>>

Scaffold(p) == InitCheck(p) \/ InitTruncate(p) \/ InitFill(p) \/ InitValidate(p)
Key(p) == EnterKey(p) \/ ClearKey(p) \/ TruncateCredentials(p) \/ WriteCredentials(p)
RunTask(p) == CreateTask(p) \/ RunRaises(p) \/ AskApproval(p) \/ RejectUnasked(p)
              \/ ResolverRaises(p) \/ FinishRun(p)
Serve(p) == CopySample(p) \/ CreateFromCopy(p) \/ FallbackEnds(p)
            \/ \E q \in Procs : PanelDecides(p, q)

LineNext ==
    \E p \in Procs : \/ Scaffold(p) \/ ConfigSummary(p) \/ Key(p) \/ LoadConfig(p) \/ Build(p)
                     \/ RunTask(p) \/ Serve(p) \/ Killed(p)

LineSpec == LineInit /\ [][LineNext]_lineVars

(***************************************************************************)
(* Properties                                                              *)
(***************************************************************************)
\* The exit code of `run` tells the truth about the database, whatever a panel on the same
\* database decides in the meantime: a run that reports a bad configuration, a missing key or
\* an unknown provider has created no task, and one that reports success has a settled task
\* and left no approval waiting for somebody, except when it could not write its own
\* rejection: then the task has FAILED.
RunExitCodeIsTrue ==
    \A p \in Procs : command[p] = "run" =>
        /\ code[p] \in {"2", "no key"} => task[p] = "absent" /\ approval[p] = "none"
        /\ code[p] = "0" => task[p] \in TERMINAL
        /\ code[p] = "0" /\ approval[p] = "PENDING" => task[p] = "FAILED"
=============================================================================
