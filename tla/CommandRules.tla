---------------------------- MODULE CommandRules ----------------------------
(***************************************************************************)
(* The verdict of the policy engine on one action: the tiers of the        *)
(* default function for every tool, and judge_command for run_command,     *)
(* with its lexer check, its allowlist and its loop over the configured    *)
(* rules, one rule per step.                                               *)
(*                                                                         *)
(* A word is its leading dashes, its name (a sequence of letters) and      *)
(* whether "=value" follows.  The arguments of a command and the tokens of *)
(* a rule are sets: the code only asks for all tokens whether any argument *)
(* matches.                                                                *)
(***************************************************************************)
EXTENDS Naturals, Sequences

CONSTANTS
    Names,         \* the names words are made of, sequences of letters
    Tools,         \* the tools an action can name
    Argv0s,        \* the programs commands name
    PythonFamily,  \* the spellings python3, python3.12, ... among them
    Python,        \* the spelling they are folded to
    Allowlist,     \* governance.command_allowlist
    RuleLists,     \* the values of governance.command_rules considered
    Actions,       \* the actions considered
    Defaults       \* governance.default_decisions: readonly, write and command

Decisions == {"ALLOW", "ALLOW_WITH_AUDIT", "REQUIRE_APPROVAL", "DENY"}
Words == [dashes : 0..2, name : Names, value : BOOLEAN]
\* No rule token of the configuration carries a "=value".
Tokens == {t \in Words : ~t.value}
Rules == [argv0 : Argv0s, args : SUBSET Tokens, decision : Decisions]

\* What lex_command makes of the command string: refused for a shell metastructure,
\* for unbalanced quotes or as empty, or split into argv.
Lexed == {"meta", "unbalanced", "empty", "ok"}
Commands == [lex : Lexed, argv0 : Argv0s, args : SUBSET Words]

ASSUME RulesAssumption ==
    /\ Names \subseteq Seq(Nat)
    /\ PythonFamily \subseteq Argv0s
    /\ RuleLists \subseteq Seq(Rules)
    /\ Actions \subseteq [tool : Tools, listed : BOOLEAN, command : Commands]
    /\ Defaults \in [{"readonly", "write", "command"} -> Decisions]

ReadonlyTools == {"read_file", "list_files", "search_text"}

IsPrefixOf(s, t) == Len(s) <= Len(t) /\ \A k \in 1..Len(s) : s[k] = t[k]

\* _norm_argv0
NormArgv0(a) == IF a \in PythonFamily THEN Python ELSE a

\* Mutant: a long option matches only when it is spelled out.
ArgMatches_NoAbbreviation(tok, arg) ==
    \/ tok.dashes = 0 /\ arg = tok
    \/ tok.dashes = 2 /\ arg.dashes = 2 /\ arg.name = tok.name
    \/ tok.dashes = 1 /\ arg.dashes = 1 /\ IsPrefixOf(tok.name, arg.name)

\* _arg_matches: a positional token is compared exactly, a long option matches each of its
\* non-empty abbreviations with or without a value, a short one everything attached to it.
ArgMatches(tok, arg) ==
    \/ tok.dashes = 0 /\ arg = tok
    \/ /\ tok.dashes = 2 /\ arg.dashes = 2
       /\ arg.name # <<>> /\ IsPrefixOf(arg.name, tok.name)
    \/ tok.dashes = 1 /\ arg.dashes = 1 /\ IsPrefixOf(tok.name, arg.name)

\* Mutant: the rule is satisfied by one of its tokens when the command has arguments.
RuleMatches_EveryArg(rule, command) ==
    /\ NormArgv0(rule.argv0) = NormArgv0(command.argv0)
    /\ \A tok \in rule.args : \A arg \in command.args : ArgMatches(tok, arg)

\* Mutant: the rule names the program as it was typed.
RuleMatches_RawArgv0(rule, command) ==
    /\ rule.argv0 = command.argv0
    /\ \A tok \in rule.args : \E arg \in command.args : ArgMatches(tok, arg)

\* _rule_matches
RuleMatches(rule, command) ==
    /\ NormArgv0(rule.argv0) = NormArgv0(command.argv0)
    /\ \A tok \in rule.args : \E arg \in command.args : ArgMatches(tok, arg)

\* _SEVERITY
Severity(d) ==
    CASE d = "ALLOW" -> 0
      [] d = "ALLOW_WITH_AUDIT" -> 1
      [] d = "REQUIRE_APPROVAL" -> 2
      [] OTHER -> 3

VARIABLES
    action,   \* its tool; listed: the path of write_file starts with an entry of
              \* write_allowlist_dirs; command: the command of run_command
    rules,    \* the configured rules
    i,        \* the rule the loop looks at next
    winner,   \* the index of the rule that wins so far, 0 for None
    verdict   \* the GovernanceVerdict returned

vars == <<action, rules, i, winner, verdict>>

Undecided == [decision |-> "none", rule |-> "none", index |-> 0]
Verdict(d, r) == [decision |-> d, rule |-> r, index |-> 0]

Init ==
    /\ action \in Actions /\ rules \in RuleLists
    /\ i = 0 /\ winner = 0
    /\ verdict = Undecided

Return(v) == verdict' = v /\ UNCHANGED <<action, rules, i, winner>>
Started == i > 0

\* The tiers of _default_fn for the tools other than run_command; the engine has no rules
\* of its own.
JudgeTool ==
    /\ verdict = Undecided /\ action.tool # "run_command"
    /\ \/ action.tool = "finish" /\ Return(Verdict("ALLOW", "TIER_FINISH"))
       \/ action.tool = "run_tests" /\ Return(Verdict("ALLOW", "TIER_SENSOR"))
       \/ action.tool \in ReadonlyTools /\ Return(Verdict(Defaults["readonly"], "TIER_READONLY"))
       \/ action.tool = "write_file" /\ action.listed /\ Return(Verdict("ALLOW", "TIER_WRITE_ALLOWLISTED"))
       \/ action.tool = "write_file" /\ ~action.listed /\ Return(Verdict(Defaults["write"], "TIER_WRITE"))
       \/ action.tool \notin ReadonlyTools \cup {"finish", "run_tests", "write_file"}
          /\ Return(Verdict(Defaults["command"], "TIER_DEFAULT"))

\* The command is refused before any rule is looked at, or the loop starts.
LexCommand ==
    /\ verdict = Undecided /\ action.tool = "run_command" /\ ~Started
    /\ \/ action.command.lex # "ok" /\ Return(Verdict("DENY", "CMD_STRUCT"))
       \/ action.command.lex = "ok" /\ action.command.argv0 \notin Allowlist
          /\ Return(Verdict("DENY", "CMD_ALLOWLIST"))
       \/ /\ action.command.lex = "ok" /\ action.command.argv0 \in Allowlist
          /\ i' = 1
          /\ UNCHANGED <<action, rules, winner, verdict>>

\* Mutant: the first rule that matches wins.
Wins_FirstMatch(k) == RuleMatches(rules[k], action.command) /\ winner = 0

\* The rule replaces the winner only when it is more restrictive.
Wins(k) ==
    /\ RuleMatches(rules[k], action.command)
    /\ winner = 0 \/ Severity(rules[k].decision) > Severity(rules[winner].decision)

\* One turn of the loop over the rules.
TryRule ==
    /\ verdict = Undecided /\ Started /\ i <= Len(rules)
    /\ winner' = IF Wins(i) THEN i ELSE winner
    /\ i' = i + 1
    /\ UNCHANGED <<action, rules, verdict>>

\* The loop is over.
ReturnWinner ==
    /\ verdict = Undecided /\ Started /\ i > Len(rules)
    /\ \/ winner # 0
          /\ Return([decision |-> rules[winner].decision, rule |-> "CMD_RULE", index |-> winner])
       \/ winner = 0 /\ Return(Verdict("ALLOW", "CMD_DEFAULT_ALLOWED"))

Next == JudgeTool \/ LexCommand \/ TryRule \/ ReturnWinner

Spec == Init /\ [][Next]_vars

(***************************************************************************)
(* Properties                                                              *)
(***************************************************************************)
\* The loop index and the winner stay within the rules, and only decisions are returned.
TypeOK ==
    /\ action \in [tool : Tools, listed : BOOLEAN, command : Commands]
    /\ rules \in Seq(Rules)
    /\ i \in 0..(Len(rules) + 1) /\ winner \in 0..Len(rules)
    /\ verdict = Undecided \/ verdict.decision \in Decisions

\* The rules that match a command, and the most restrictive of the decisions they ask for:
\* what the comment "Most-restrictive-wins precedence: DENY dominates regardless of list
\* order" promises, without a loop.
Matching(c) == {k \in 1..Len(rules) : RuleMatches(rules[k], c)}
AtLeast(c, d) == \E k \in Matching(c) : Severity(rules[k].decision) >= Severity(d)
Judged == verdict # Undecided /\ Started

\* No matching rule is more restrictive than the verdict, the rule named by the verdict
\* matches and is the first of its severity, and ALLOW by default means that none matches.
VerdictIsMostRestrictive ==
    Judged =>
        /\ \A k \in Matching(action.command) :
             Severity(rules[k].decision) <= Severity(verdict.decision)
        /\ verdict.rule = "CMD_DEFAULT_ALLOWED" => Matching(action.command) = {}
        /\ verdict.rule = "CMD_RULE" =>
             /\ verdict.index \in Matching(action.command)
             /\ \A k \in Matching(action.command) :
                  Severity(rules[k].decision) = Severity(verdict.decision) => verdict.index <= k

\* "Every rule token must be satisfied by SOME arg": an argument more never makes the verdict
\* milder, whatever rules it makes match in addition.
MoreArgumentsNeverRelax ==
    Judged /\ verdict.decision # "ALLOW" =>
        \A w \in Words :
            AtLeast([action.command EXCEPT !.args = @ \cup {w}], verdict.decision)

\* Abbreviating a long option ("--h / --ha for --hard"), or giving it a value, never makes
\* the verdict milder: the replaced word still matches what the word matched.
AbbreviationNeverRelaxes ==
    Judged /\ verdict.decision # "ALLOW" =>
        \A w \in action.command.args, short \in Words :
            (w.dashes = 2 /\ short.dashes = 2 /\ short.name # <<>> /\ IsPrefixOf(short.name, w.name))
            => AtLeast([action.command EXCEPT !.args = (@ \ {w}) \cup {short}], verdict.decision)

\* "python3 / python3.12 are the SAME interpreter": two allowlisted spellings of one program
\* are judged by the same rules.
SpellingsJudgedAlike ==
    Judged => \A a \in Allowlist : NormArgv0(a) = NormArgv0(action.command.argv0) =>
                  Matching([action.command EXCEPT !.argv0 = a]) = Matching(action.command)
=============================================================================
