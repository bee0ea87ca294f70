------------------------------ MODULE MCParts ------------------------------
(***************************************************************************)
(* Three parts without a common state, side by side in one run: the policy *)
(* engine's verdict on a command (commands of up to two arguments, lists   *)
(* of up to two rules, three allowlisted spellings of two programs and one *)
(* program that is not), the commands of the command line in two           *)
(* terminals, and the demos with their real scripts and limits.  Init      *)
(* chooses the part; the variables of the other two rest.                  *)
(***************************************************************************)
EXTENDS CommandRules, CommandLine, TLC

CONSTANTS git, py, py3, rm

Word(d, n, v) == [dashes |-> d, name |-> n, value |-> v]
MCNames == {<<>>, <<1>>, <<1, 2>>, <<1, 3>>}

\* Rules shaped like the defaults: git reset --hard, git push, python -c.
MCRules ==
    {[argv0 |-> git, args |-> s, decision |-> d] :
        s \in {{Word(0, <<1>>, FALSE)}, {Word(0, <<1>>, FALSE), Word(2, <<1, 2>>, FALSE)}},
        d \in {"ALLOW", "REQUIRE_APPROVAL", "DENY"}}
    \cup {[argv0 |-> a, args |-> s, decision |-> d] :
        a \in {py, py3}, s \in {{}, {Word(1, <<1>>, FALSE)}}, d \in {"ALLOW_WITH_AUDIT", "DENY"}}
MCRuleLists == {<<>>} \cup {<<r>> : r \in MCRules} \cup {<<r, s>> : r, s \in MCRules}

MCWords ==
    {Word(0, <<1>>, FALSE), Word(0, <<1, 2>>, FALSE), Word(1, <<1>>, FALSE), Word(1, <<1, 2>>, FALSE)}
    \cup {Word(2, n, FALSE) : n \in MCNames} \cup {Word(2, <<1>>, TRUE)}

Command(lex, a, s) == [lex |-> lex, argv0 |-> a, args |-> s]
Act(t, l, c) == [tool |-> t, listed |-> l, command |-> c]
MCTools == {"run_command", "finish", "run_tests", "read_file", "write_file", "other"}
MCActions ==
    {Act(t, l, Command("empty", rm, {})) : t \in MCTools, l \in BOOLEAN}
    \cup {Act("run_command", FALSE, Command(x, git, {})) : x \in Lexed}
    \cup {Act("run_command", FALSE, Command("ok", a, s)) :
            a \in {git, py, py3, rm}, s \in {x \in SUBSET MCWords : Cardinality(x) <= 2}}

MCDefaults == [readonly |-> "ALLOW", write |-> "REQUIRE_APPROVAL", command |-> "DENY"]

VARIABLES
    part,   \* "rules", "commands" or "demos"
    \* the variables of DemoScenarios
    scenario, web, disk, round3, undisturbed, pc, c, attempts, loopAction, loopVerdict,
    approved_fp, result, tracker, recent_steps, last_feedback, audit, reason, expired,
    cancelled, ran, replies

Demos == INSTANCE DemoScenarios WITH action <- loopAction, verdict <- loopVerdict

demoVars == <<scenario, web, disk, round3, undisturbed, pc, c, attempts, loopAction, loopVerdict,
              approved_fp, result, tracker, recent_steps, last_feedback, audit, reason, expired,
              cancelled, ran, replies>>

RulesRest ==
    /\ action = "rest" /\ rules = <<>> /\ i = 0 /\ winner = 0 /\ verdict = Undecided
LineRests ==
    /\ provider = "rest" /\ demoMode = FALSE /\ tmpAllowed = FALSE /\ yaml = "rest"
    /\ creds = "rest" /\ task = <<>> /\ approval = <<>> /\ copy = <<>>
    /\ command = [p \in Procs |-> "rest"]
    /\ at = <<>> /\ code = <<>> /\ llm = <<>> /\ value = <<>> /\ stale = {} /\ answer = <<>>
DemosRest ==
    /\ scenario = "rest" /\ web = FALSE /\ disk = <<>> /\ round3 = FALSE /\ undisturbed = FALSE
    /\ pc = "rest" /\ c = 0 /\ attempts = 0 /\ loopAction = "rest" /\ loopVerdict = "rest"
    /\ approved_fp = "rest" /\ result = "rest" /\ tracker = "rest" /\ recent_steps = <<>>
    /\ last_feedback = "rest" /\ audit = <<>> /\ reason = "rest" /\ expired = FALSE
    /\ cancelled = FALSE /\ ran = <<>> /\ replies = 0

PartsInit ==
    \/ part = "rules" /\ LineRests /\ DemosRest /\ Init
    \/ part = "commands" /\ RulesRest /\ DemosRest /\ LineInit
    \/ part = "demos" /\ RulesRest /\ LineRests /\ Demos!Init

PartsNext ==
    \/ part = "rules" /\ Next /\ UNCHANGED <<part, lineVars, demoVars>>
    \/ part = "commands" /\ LineNext /\ UNCHANGED <<part, vars, demoVars>>
    \/ part = "demos" /\ Demos!Next /\ UNCHANGED <<part, vars, lineVars>>
    \* A judgement ends with its verdict, a command with its exit code; a demo run goes on.
    \/ part # "demos" /\ UNCHANGED <<part, vars, lineVars, demoVars>>

PartsSpec == PartsInit /\ [][PartsNext]_<<part, vars, lineVars, demoVars>>

\* DemoScenarios: a run the acceptance conditions accept has done what the demo claims.
AcceptanceIsGroundTruth == part = "demos" => Demos!AcceptanceIsGroundTruth

\* DemoScenarios: a run nothing disturbs passes the contract and the acceptance conditions.
UndisturbedDemoPasses == part = "demos" => Demos!UndisturbedDemoPasses

\* DemoScenarios: the dangerous and the changed actions never execute.
RefusedActionsNeverRun == part = "demos" => Demos!RefusedActionsNeverRun
=============================================================================
