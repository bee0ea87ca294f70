------------------------- MODULE CommandRulesProofs -------------------------
(***************************************************************************)
(* What the loop of judge_command computes, for every list of rules and    *)
(* every command.                                                          *)
(***************************************************************************)
EXTENDS CommandRules, TLAPS

Sev(k) == Severity(rules[k].decision)
Match(k) == RuleMatches(rules[k], action.command)

\* The loop invariant: the winner is the first of the most restrictive matching rules
\* before i.
LoopInv ==
    /\ winner < i \/ winner = 0
    /\ winner = 0 => \A k \in 1..Len(rules) : k < i => ~Match(k)
    /\ winner # 0 =>
         /\ Match(winner)
         /\ \A k \in 1..Len(rules) : k < i /\ Match(k) =>
              Sev(k) <= Sev(winner) /\ (Sev(k) = Sev(winner) => winner <= k)

\* What is returned after the loop.
ReturnInv ==
    Judged =>
        /\ i > Len(rules)
        /\ \/ winner = 0 /\ verdict = Verdict("ALLOW", "CMD_DEFAULT_ALLOWED")
           \/ winner # 0 /\ verdict = [decision |-> rules[winner].decision,
                                       rule |-> "CMD_RULE", index |-> winner]

\* The loop runs only for commands, and a verdict given without it leaves i at 0.
ToolInv == action.tool # "run_command" => i = 0

IInv == TypeOK /\ LoopInv /\ ReturnInv /\ ToolInv

\* The severity of a decision is a number, and 0 only for ALLOW.
LEMMA SeverityNat ==
    \A d : Severity(d) \in 0..3 /\ (Severity(d) = 0 => d = "ALLOW")
BY DEF Severity

\* A rule of the list asks for a decision and has tokens.
LEMMA RuleOf ==
    ASSUME NEW s \in Seq(Rules), NEW k \in 1..Len(s)
    PROVE  s[k].decision \in Decisions /\ s[k].args \subseteq Tokens
<1>1. s[k] \in Rules
  OBVIOUS
<1> QED
  BY <1>1 DEF Rules

\* The loop starts with no winner, on well-typed input.
LEMMA InitEstablishes == Init => IInv
<1> SUFFICES ASSUME Init PROVE IInv
  OBVIOUS
<1>1. rules \in Seq(Rules) /\ action \in [tool : Tools, listed : BOOLEAN, command : Commands]
  BY RulesAssumption DEF Init
<1>2. TypeOK
  BY <1>1 DEF Init, TypeOK
<1>3. LoopInv /\ ReturnInv /\ ToolInv
  BY <1>1 DEF Init, LoopInv, ReturnInv, ToolInv, Judged
<1> QED
  BY <1>2, <1>3 DEF IInv

\* Every step of the judgement keeps the types and the loop invariant.
LEMMA StepPreserves == IInv /\ [Next]_vars => IInv'
<1> SUFFICES ASSUME IInv, [Next]_vars PROVE IInv'
  OBVIOUS
<1>0. /\ TypeOK /\ LoopInv /\ ReturnInv /\ ToolInv
      /\ i \in Nat /\ winner \in Nat /\ Len(rules) \in Nat
  BY DEF IInv, TypeOK
<1>a. ASSUME UNCHANGED <<action, rules, i, winner>>, verdict' # verdict => i = 0,
             verdict' = Undecided \/ verdict'.decision \in Decisions
      PROVE  IInv'
  <2>1. TypeOK' /\ ToolInv'
    BY <1>0, <1>a DEF TypeOK, ToolInv
  <2>2. LoopInv'
    BY <1>0, <1>a DEF LoopInv, Match, Sev
  <2>3. ReturnInv'
    BY <1>0, <1>a DEF ReturnInv, Judged, Started
  <2> QED
    BY <2>1, <2>2, <2>3 DEF IInv
<1>1. CASE JudgeTool
  <2>1. \E d \in Decisions : \E r : Return(Verdict(d, r))
    <3>1. "ALLOW" \in Decisions /\ \A t \in {"readonly", "write", "command"} : Defaults[t] \in Decisions
      BY RulesAssumption DEF Decisions
    <3> QED
      BY <1>1, <3>1 DEF JudgeTool
  <2>2. UNCHANGED <<action, rules, i, winner>> /\ verdict'.decision \in Decisions
    BY <2>1 DEF Return, Verdict
  <2> QED
    BY <1>0, <1>1, <1>a, <2>2 DEF JudgeTool, ToolInv
<1>2. CASE LexCommand
  <2>1. CASE i' = 1 /\ UNCHANGED <<action, rules, winner, verdict>>
    <3>1. i = 0 /\ action.tool = "run_command" /\ verdict = Undecided
      BY <1>0, <1>2 DEF LexCommand, Started
    <3>2. winner = 0
      BY <1>0, <3>1 DEF LoopInv
    <3>3. TypeOK' /\ ToolInv'
      BY <1>0, <2>1, <3>1 DEF TypeOK, ToolInv
    <3>4. LoopInv'
      BY <1>0, <2>1, <3>2 DEF LoopInv, Match
    <3>5. ReturnInv'
      BY <2>1, <3>1 DEF ReturnInv, Judged
    <3> QED
      BY <3>3, <3>4, <3>5 DEF IInv
  <2>2. CASE \E r : Return(Verdict("DENY", r))
    <3>1. UNCHANGED <<action, rules, i, winner>> /\ verdict'.decision \in Decisions
      BY <2>2 DEF Return, Verdict, Decisions
    <3> QED
      BY <1>0, <1>2, <1>a, <3>1 DEF LexCommand, Started
  <2>3. \/ Return(Verdict("DENY", "CMD_STRUCT")) \/ Return(Verdict("DENY", "CMD_ALLOWLIST"))
        \/ i' = 1 /\ UNCHANGED <<action, rules, winner, verdict>>
    BY <1>2 DEF LexCommand
  <2> QED
    BY <2>1, <2>2, <2>3
<1>3. CASE TryRule
  <2>1. /\ verdict = Undecided /\ i > 0 /\ i <= Len(rules)
        /\ i' = i + 1 /\ winner' = IF Wins(i) THEN i ELSE winner
        /\ UNCHANGED <<action, rules, verdict>>
    BY <1>3 DEF TryRule, Started
  <2>2. TypeOK' /\ ToolInv'
    BY <1>0, <2>1 DEF TypeOK, ToolInv
  <2>3. ReturnInv'
    BY <2>1 DEF ReturnInv, Judged
  <2>4. \A k : Match(k)' = Match(k) /\ Sev(k)' = Sev(k) /\ Sev(k) \in 0..3
    BY <2>1, SeverityNat DEF Match, Sev
  <2>5. Wins(i) <=> Match(i) /\ (winner = 0 \/ Sev(i) > Sev(winner))
    BY DEF Wins, Match, Sev
  <2>6. LoopInv'
    <3>1. CASE Wins(i)
      <4>1. winner' = i /\ winner' < i' /\ winner' # 0
        BY <1>0, <2>1, <3>1
      <4>2. (Match(winner))'
        BY <2>1, <2>4, <2>5, <3>1, <4>1 DEF Match
      <4>3. ASSUME NEW k \in 1..Len(rules), k < i + 1, Match(k)
            PROVE  Sev(k) <= Sev(i) /\ (Sev(k) = Sev(i) => i <= k)
        BY <1>0, <2>1, <2>4, <2>5, <3>1, <4>3 DEF LoopInv
      <4> QED
        BY <1>0, <2>1, <4>1, <4>2, <4>3 DEF LoopInv, Match, Sev
    <3>2. CASE ~Wins(i)
      <4>1. winner' = winner
        BY <2>1, <3>2
      <4>2. CASE winner = 0
        <5>1. \A k \in 1..Len(rules) : k < i + 1 => ~Match(k)
          BY <1>0, <2>5, <3>2, <4>2 DEF LoopInv
        <5> QED
          BY <2>1, <4>1, <4>2, <5>1 DEF LoopInv, Match
      <4>3. CASE winner # 0
        <5>1. winner < i + 1 /\ Match(winner)
          BY <1>0, <4>3 DEF LoopInv
        <5>2. ASSUME NEW k \in 1..Len(rules), k < i + 1, Match(k)
              PROVE  Sev(k) <= Sev(winner) /\ (Sev(k) = Sev(winner) => winner <= k)
          BY <1>0, <2>4, <2>5, <3>2, <4>3, <5>2 DEF LoopInv
        <5> QED
          BY <1>0, <2>1, <4>1, <4>3, <5>1, <5>2 DEF LoopInv, Match, Sev
      <4> QED
        BY <4>2, <4>3
    <3> QED
      BY <3>1, <3>2
  <2> QED
    BY <2>2, <2>3, <2>6 DEF IInv
<1>4. CASE ReturnWinner
  <2>1. UNCHANGED <<action, rules, i, winner>> /\ i > Len(rules)
    BY <1>4 DEF ReturnWinner, Return
  <2>2. \/ winner = 0 /\ verdict' = Verdict("ALLOW", "CMD_DEFAULT_ALLOWED")
        \/ winner # 0 /\ verdict' = [decision |-> rules[winner].decision,
                                     rule |-> "CMD_RULE", index |-> winner]
    BY <1>4 DEF ReturnWinner, Return
  <2>3. verdict'.decision \in Decisions
    <3>1. CASE winner = 0
      BY <2>2, <3>1 DEF Verdict, Decisions
    <3>2. CASE winner # 0
      <4>1. winner \in 1..Len(rules) /\ rules \in Seq(Rules)
        BY <1>0, <3>2 DEF TypeOK
      <4> QED
        BY <2>2, <3>2, <4>1, RuleOf
    <3> QED
      BY <3>1, <3>2
  <2>4. TypeOK' /\ ToolInv'
    BY <1>0, <2>1, <2>3 DEF TypeOK, ToolInv
  <2>5. LoopInv'
    BY <1>0, <2>1 DEF LoopInv, Match, Sev
  <2>6. ReturnInv'
    BY <2>1, <2>2 DEF ReturnInv, Verdict
  <2> QED
    BY <2>4, <2>5, <2>6 DEF IInv
<1>5. CASE UNCHANGED vars
  BY <1>0, <1>5, <1>a DEF vars, TypeOK
<1> QED
  BY <1>1, <1>2, <1>3, <1>4, <1>5 DEF Next

\* The judgement of an action keeps its loop invariant.
THEOREM LoopInvariant == Spec => []IInv
<1>1. Init => IInv
  BY InitEstablishes
<1>2. IInv /\ [Next]_vars => IInv'
  BY StepPreserves
<1> QED
  BY <1>1, <1>2, PTL DEF Spec

\* The index and the winner of the loop stay within the rules.
THEOREM JudgementTypeCorrect == Spec => []TypeOK
<1>1. IInv => TypeOK
  BY DEF IInv
<1> QED
  BY <1>1, LoopInvariant, PTL

\* The loop invariant at the end of the loop is the promise.
LEMMA VerdictFollows == IInv => VerdictIsMostRestrictive
<1> SUFFICES ASSUME IInv, Judged PROVE VerdictIsMostRestrictive
  BY DEF VerdictIsMostRestrictive
<1>1. /\ i > Len(rules) /\ i \in Nat /\ winner \in 0..Len(rules) /\ Len(rules) \in Nat
      /\ rules \in Seq(Rules)
  BY DEF IInv, TypeOK, ReturnInv
<1>2. CASE winner = 0
  <2>1. verdict = Verdict("ALLOW", "CMD_DEFAULT_ALLOWED")
    BY <1>2 DEF IInv, ReturnInv
  <2>2. Matching(action.command) = {}
    BY <1>1, <1>2 DEF IInv, LoopInv, Matching, Match
  <2> QED
    BY <2>1, <2>2 DEF VerdictIsMostRestrictive, Verdict
<1>3. CASE winner # 0
  <2>1. verdict = [decision |-> rules[winner].decision, rule |-> "CMD_RULE", index |-> winner]
    BY <1>3 DEF IInv, ReturnInv
  <2>2. winner \in Matching(action.command)
    BY <1>1, <1>3 DEF IInv, LoopInv, Matching, Match
  <2>3. \A k \in Matching(action.command) :
          Sev(k) <= Sev(winner) /\ (Sev(k) = Sev(winner) => winner <= k)
    BY <1>1, <1>3 DEF IInv, LoopInv, Matching, Match
  <2> QED
    BY <2>1, <2>2, <2>3 DEF VerdictIsMostRestrictive, Sev
<1> QED
  BY <1>2, <1>3

\* judge_command returns the first of the most restrictive matching rules, whatever the
\* rules, their number and their order.
THEOREM MostRestrictiveWins == Spec => []VerdictIsMostRestrictive
BY LoopInvariant, VerdictFollows, PTL

\* A verdict of judge_command other than ALLOW is that of a matching rule.
LEMMA VerdictHasRule ==
    ASSUME IInv, Judged, verdict.decision # "ALLOW"
    PROVE  \E k \in Matching(action.command) : rules[k].decision = verdict.decision
<1>1. winner # 0 /\ verdict.decision = rules[winner].decision
  BY DEF IInv, ReturnInv, Verdict
<1>2. winner \in Matching(action.command)
  BY <1>1 DEF IInv, TypeOK, LoopInv, Matching, Match
<1> QED
  BY <1>1, <1>2

\* Whoever keeps every matched rule matched keeps the severity.
LEMMA SeverityKept ==
    ASSUME IInv, Judged, verdict.decision # "ALLOW", NEW c,
           \A k \in Matching(action.command) : RuleMatches(rules[k], c)
    PROVE  AtLeast(c, verdict.decision)
<1>1. PICK k \in Matching(action.command) : rules[k].decision = verdict.decision
  BY VerdictHasRule
<1>2. k \in Matching(c)
  BY <1>1 DEF Matching
<1>3. Severity(rules[k].decision) >= Severity(verdict.decision)
  BY <1>1, SeverityNat
<1> QED
  BY <1>2, <1>3 DEF AtLeast

\* Adding an argument to a command never makes the verdict milder, for every list of rules.
THEOREM MoreArguments == Spec => []MoreArgumentsNeverRelax
<1>1. IInv => MoreArgumentsNeverRelax
  <2> SUFFICES ASSUME IInv, Judged, verdict.decision # "ALLOW", NEW w \in Words
               PROVE  AtLeast([action.command EXCEPT !.args = @ \cup {w}], verdict.decision)
    BY DEF MoreArgumentsNeverRelax
  <2> DEFINE c == [action.command EXCEPT !.args = @ \cup {w}]
  <2>1. c.argv0 = action.command.argv0 /\ c.args = action.command.args \cup {w}
    BY DEF IInv, TypeOK, Commands
  <2>2. \A k \in Matching(action.command) : RuleMatches(rules[k], c)
    BY <2>1 DEF Matching, RuleMatches
  <2> QED
    BY <2>2, SeverityKept
<1> QED
  BY <1>1, LoopInvariant, PTL

\* A word matches whatever a longer spelling of it matched.
LEMMA AbbreviationMatches ==
    ASSUME NEW tok \in Words, NEW w \in Words, NEW short \in Words,
           w.dashes = 2, short.dashes = 2, short.name # <<>>, IsPrefixOf(short.name, w.name),
           ArgMatches(tok, w), tok.dashes # 0
    PROVE  ArgMatches(tok, short)
<1>1. tok.dashes = 2 /\ IsPrefixOf(w.name, tok.name)
  BY DEF ArgMatches
<1>2. short.name \in Seq(Nat) /\ w.name \in Seq(Nat) /\ tok.name \in Seq(Nat)
  BY RulesAssumption DEF Words
<1>3. IsPrefixOf(short.name, tok.name)
  BY <1>1, <1>2 DEF IsPrefixOf
<1> QED
  BY <1>1, <1>3 DEF ArgMatches

\* Abbreviating a long option never makes the verdict milder, for every list of rules.
THEOREM Abbreviations == Spec => []AbbreviationNeverRelaxes
<1>1. IInv => AbbreviationNeverRelaxes
  <2> SUFFICES ASSUME IInv, Judged, verdict.decision # "ALLOW",
                      NEW w \in action.command.args, NEW short \in Words,
                      w.dashes = 2, short.dashes = 2, short.name # <<>>,
                      IsPrefixOf(short.name, w.name)
               PROVE  AtLeast([action.command EXCEPT !.args = (@ \ {w}) \cup {short}],
                              verdict.decision)
    BY DEF AbbreviationNeverRelaxes
  <2> DEFINE c == [action.command EXCEPT !.args = (@ \ {w}) \cup {short}]
  <2>1. /\ c.argv0 = action.command.argv0
        /\ c.args = (action.command.args \ {w}) \cup {short}
        /\ action.command.args \subseteq Words /\ w \in Words
    BY DEF IInv, TypeOK, Commands
  <2>2. ASSUME NEW k \in Matching(action.command) PROVE RuleMatches(rules[k], c)
    <3>1. RuleMatches(rules[k], action.command) /\ rules[k].args \subseteq Tokens
      BY <2>2, RuleOf DEF Matching, IInv, TypeOK
    <3>2. ASSUME NEW tok \in rules[k].args PROVE \E arg \in c.args : ArgMatches(tok, arg)
      <4>1. PICK arg \in action.command.args : ArgMatches(tok, arg)
        BY <3>1, <3>2 DEF RuleMatches
      <4>2. CASE arg # w
        BY <2>1, <4>1, <4>2
      <4>3. CASE arg = w
        <5>1. tok \in Words /\ ~tok.value
          BY <3>1, <3>2 DEF Tokens
        <5>2. CASE tok.dashes # 0
          BY <2>1, <4>1, <4>3, <5>1, <5>2, AbbreviationMatches
        <5>3. CASE tok.dashes = 0
          BY <4>1, <4>3, <5>3 DEF ArgMatches
        <5> QED
          BY <5>2, <5>3
      <4> QED
        BY <4>2, <4>3
    <3> QED
      BY <2>1, <3>1, <3>2 DEF RuleMatches
  <2> QED
    BY <2>2, SeverityKept
<1> QED
  BY <1>1, LoopInvariant, PTL

\* Two spellings of one interpreter are judged by the same rules.
THEOREM Spellings == Spec => []SpellingsJudgedAlike
<1>1. IInv => SpellingsJudgedAlike
  <2> SUFFICES ASSUME IInv, NEW a \in Allowlist, NormArgv0(a) = NormArgv0(action.command.argv0)
               PROVE  Matching([action.command EXCEPT !.argv0 = a]) = Matching(action.command)
    BY DEF SpellingsJudgedAlike
  <2> DEFINE c == [action.command EXCEPT !.argv0 = a]
  <2>1. c.argv0 = a /\ c.args = action.command.args
    BY DEF IInv, TypeOK, Commands
  <2>2. \A k \in 1..Len(rules) :
          RuleMatches(rules[k], c) <=> RuleMatches(rules[k], action.command)
    BY <2>1 DEF RuleMatches
  <2> QED
    BY <2>2 DEF Matching
<1> QED
  BY <1>1, LoopInvariant, PTL
=============================================================================
