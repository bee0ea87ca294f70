-------------------------- MODULE CommandLineProofs --------------------------
(***************************************************************************)
(* Proofs about the command line for every set of processes, of keys and   *)
(* of commands.                                                            *)
(***************************************************************************)
EXTENDS CommandLine, TLAPS

Points == {"start", "scaffold", "fill", "validate", "truncate", "write", "build", "create",
           "inline", "asked", "failing", "serving", "copied", "exit"}
Codes == {"none", "0", "1", "2", "raised", "no key", "killed"}

\* The variables the proofs read are functions of the processes.
TypeOK ==
    /\ command \in [Procs -> Runnable]
    /\ at \in [Procs -> Points]
    /\ code \in [Procs -> Codes]
    /\ task \in [Procs -> TERMINAL \cup {"absent", "RUNNING"}]
    /\ approval \in [Procs -> {"none", "PENDING", "APPROVED", "REJECTED"}]
    /\ copy \in [Procs -> BOOLEAN]
    /\ answer \in [Procs -> {"none", "200", "400", "500"}]
    /\ value \in [Procs -> Keys \cup {EmptyKey, NoKey}]

\* What a `run` has left behind at each point of its way, and with each exit code.
RunAt(p) ==
    command[p] = "run" =>
        /\ at[p] \in {"start", "build", "create", "inline", "asked", "failing", "exit"}
        /\ at[p] \in {"start", "build", "create"} => task[p] = "absent" /\ approval[p] = "none"
        /\ at[p] = "inline" => approval[p] # "PENDING"
        /\ at[p] # "exit" => code[p] = "none"
        /\ code[p] \in {"2", "no key"} => task[p] = "absent" /\ approval[p] = "none"
        /\ code[p] = "0" => task[p] \in TERMINAL
        /\ code[p] = "0" /\ approval[p] = "PENDING" => task[p] = "FAILED"

IInv == TypeOK /\ \A p \in Procs : RunAt(p)

\* A step of p's own command, without a decision posted to its panel.
Alone(p) ==
    \/ Scaffold(p) \/ ConfigSummary(p) \/ Key(p) \/ LoadConfig(p) \/ Build(p) \/ RunTask(p)
    \/ CopySample(p) \/ CreateFromCopy(p) \/ FallbackEnds(p) \/ Killed(p)

Same(p) ==
    /\ command'[p] = command[p] /\ at'[p] = at[p] /\ code'[p] = code[p] /\ value'[p] = value[p]
    /\ task'[p] = task[p] /\ approval'[p] = approval[p] /\ copy'[p] = copy[p]
    /\ answer'[p] = answer[p]

(***************************************************************************)
(* One step                                                                *)
(***************************************************************************)
\* A command leaves alone what belongs to the others.
LEMMA OthersStay ==
    ASSUME TypeOK, NEW p \in Procs, Alone(p), NEW q \in Procs, q # p
    PROVE  Same(q)
<1> USE DEF TypeOK, Same, Runs, Goto, Exit, world, files, rows, locals
<1>1. ASSUME InitCheck(p) PROVE Same(q)
  BY <1>1 DEF InitCheck
<1>2. ASSUME InitTruncate(p) PROVE Same(q)
  BY <1>2 DEF InitTruncate
<1>3. ASSUME InitFill(p) PROVE Same(q)
  BY <1>3 DEF InitFill
<1>4. ASSUME InitValidate(p) PROVE Same(q)
  BY <1>4 DEF InitValidate, ConfigFailure
<1>5. ASSUME ConfigSummary(p) PROVE Same(q)
  BY <1>5 DEF ConfigSummary, ConfigFailure
<1>6. ASSUME EnterKey(p) PROVE Same(q)
  BY <1>6 DEF EnterKey
<1>7. ASSUME ClearKey(p) PROVE Same(q)
  BY <1>7 DEF ClearKey
<1>8. ASSUME TruncateCredentials(p) PROVE Same(q)
  BY <1>8 DEF TruncateCredentials
<1>9. ASSUME WriteCredentials(p) PROVE Same(q)
  BY <1>9 DEF WriteCredentials
<1>10. ASSUME LoadConfig(p) PROVE Same(q)
  BY <1>10 DEF LoadConfig, ConfigFailure
<1>11. ASSUME Build(p) PROVE Same(q)
  BY <1>11 DEF Build
<1>12. ASSUME CreateTask(p) PROVE Same(q)
  BY <1>12 DEF CreateTask
<1>13. ASSUME RunRaises(p) PROVE Same(q)
  BY <1>13 DEF RunRaises
<1>14. ASSUME AskApproval(p) PROVE Same(q)
  BY <1>14 DEF AskApproval
<1>15. ASSUME RejectUnasked(p) PROVE Same(q)
  BY <1>15 DEF RejectUnasked
<1>16. ASSUME FinishRun(p) PROVE Same(q)
  BY <1>16 DEF FinishRun
<1>17. ASSUME CopySample(p) PROVE Same(q)
  BY <1>17 DEF CopySample
<1>18. ASSUME CreateFromCopy(p) PROVE Same(q)
  BY <1>18 DEF CreateFromCopy
<1>19. ASSUME FallbackEnds(p) PROVE Same(q)
  BY <1>19 DEF FallbackEnds
<1>20. ASSUME Killed(p) PROVE Same(q)
  BY <1>20 DEF Killed
<1>21. ASSUME ResolverRaises(p) PROVE Same(q)
  BY <1>21 DEF ResolverRaises
<1> QED
  BY <1>1, <1>2, <1>3, <1>4, <1>5, <1>6, <1>7, <1>8, <1>9, <1>10, <1>11,
     <1>12, <1>13, <1>14, <1>15, <1>16, <1>17, <1>18, <1>19, <1>20, <1>21 DEF Alone, Scaffold, Key, RunTask

\* Every command keeps the types.
LEMMA TypeStep ==
    ASSUME TypeOK, NEW p \in Procs, Alone(p)
    PROVE  TypeOK'
<1> USE DEF TypeOK, Points, Codes, TERMINAL, Runs, Goto, Exit, world, files, rows, locals
<1>1. ASSUME InitCheck(p) PROVE TypeOK'
  BY <1>1 DEF InitCheck
<1>2. ASSUME InitTruncate(p) PROVE TypeOK'
  BY <1>2 DEF InitTruncate
<1>3. ASSUME InitFill(p) PROVE TypeOK'
  BY <1>3 DEF InitFill
<1>4. ASSUME InitValidate(p) PROVE TypeOK'
  BY <1>4 DEF InitValidate, ConfigFailure
<1>5. ASSUME ConfigSummary(p) PROVE TypeOK'
  BY <1>5 DEF ConfigSummary, ConfigFailure
<1>6. ASSUME EnterKey(p) PROVE TypeOK'
  <2>1. value' \in [Procs -> Keys \cup {EmptyKey, NoKey}]
    BY <1>6 DEF EnterKey
  <2>2. /\ at' \in [Procs -> Points]
        /\ code' \in [Procs -> Codes]
    BY <1>6 DEF EnterKey
  <2> QED
    BY <2>1, <2>2, <1>6 DEF EnterKey
<1>7. ASSUME ClearKey(p) PROVE TypeOK'
  BY <1>7 DEF ClearKey
<1>8. ASSUME TruncateCredentials(p) PROVE TypeOK'
  BY <1>8 DEF TruncateCredentials
<1>9. ASSUME WriteCredentials(p) PROVE TypeOK'
  BY <1>9 DEF WriteCredentials
<1>10. ASSUME LoadConfig(p) PROVE TypeOK'
  BY <1>10 DEF LoadConfig, ConfigFailure
<1>11. ASSUME Build(p) PROVE TypeOK'
  BY <1>11 DEF Build
<1>12. ASSUME CreateTask(p) PROVE TypeOK'
  BY <1>12 DEF CreateTask
<1>13. ASSUME RunRaises(p) PROVE TypeOK'
  BY <1>13 DEF RunRaises
<1>14. ASSUME AskApproval(p) PROVE TypeOK'
  BY <1>14 DEF AskApproval
<1>15. ASSUME RejectUnasked(p) PROVE TypeOK'
  BY <1>15 DEF RejectUnasked
<1>16. ASSUME FinishRun(p) PROVE TypeOK'
  <2>1. PICK s \in TERMINAL : task' = [task EXCEPT ![p] = s]
    BY <1>16 DEF FinishRun
  <2>2. task' \in [Procs -> TERMINAL \cup {"absent", "RUNNING"}]
    BY <2>1
  <2> QED
    BY <2>2, <1>16 DEF FinishRun
<1>17. ASSUME CopySample(p) PROVE TypeOK'
  BY <1>17 DEF CopySample
<1>18. ASSUME CreateFromCopy(p) PROVE TypeOK'
  BY <1>18 DEF CreateFromCopy
<1>19. ASSUME FallbackEnds(p) PROVE TypeOK'
  BY <1>19 DEF FallbackEnds
<1>20. ASSUME Killed(p) PROVE TypeOK'
  BY <1>20 DEF Killed
<1>21. ASSUME ResolverRaises(p) PROVE TypeOK'
  BY <1>21 DEF ResolverRaises
<1> QED
  BY <1>1, <1>2, <1>3, <1>4, <1>5, <1>6, <1>7, <1>8, <1>9, <1>10, <1>11,
     <1>12, <1>13, <1>14, <1>15, <1>16, <1>17, <1>18, <1>19, <1>20, <1>21 DEF Alone, Scaffold, Key, RunTask

\* A step of a `run` keeps what it has left behind.
LEMMA RunStep ==
    ASSUME TypeOK, NEW p \in Procs, Alone(p), RunAt(p)
    PROVE  RunAt(p)'
<1> USE DEF RunAt, TypeOK, TERMINAL, Runs, Goto, Exit, world, files, rows, locals
<1>1. ASSUME InitCheck(p) PROVE RunAt(p)'
  BY <1>1 DEF InitCheck
<1>2. ASSUME InitTruncate(p) PROVE RunAt(p)'
  BY <1>2 DEF InitTruncate
<1>3. ASSUME InitFill(p) PROVE RunAt(p)'
  BY <1>3 DEF InitFill
<1>4. ASSUME InitValidate(p) PROVE RunAt(p)'
  BY <1>4 DEF InitValidate, ConfigFailure
<1>5. ASSUME ConfigSummary(p) PROVE RunAt(p)'
  BY <1>5 DEF ConfigSummary, ConfigFailure
<1>6. ASSUME EnterKey(p) PROVE RunAt(p)'
  BY <1>6 DEF EnterKey
<1>7. ASSUME ClearKey(p) PROVE RunAt(p)'
  BY <1>7 DEF ClearKey
<1>8. ASSUME TruncateCredentials(p) PROVE RunAt(p)'
  BY <1>8 DEF TruncateCredentials
<1>9. ASSUME WriteCredentials(p) PROVE RunAt(p)'
  BY <1>9 DEF WriteCredentials
<1>10. ASSUME LoadConfig(p) PROVE RunAt(p)'
  BY <1>10 DEF LoadConfig, ConfigFailure
<1>11. ASSUME Build(p) PROVE RunAt(p)'
  BY <1>11 DEF Build
<1>12. ASSUME CreateTask(p) PROVE RunAt(p)'
  BY <1>12 DEF CreateTask
<1>13. ASSUME RunRaises(p) PROVE RunAt(p)'
  BY <1>13 DEF RunRaises
<1>14. ASSUME AskApproval(p) PROVE RunAt(p)'
  BY <1>14 DEF AskApproval
<1>15. ASSUME RejectUnasked(p) PROVE RunAt(p)'
  BY <1>15 DEF RejectUnasked
<1>16. ASSUME FinishRun(p) PROVE RunAt(p)'
  BY <1>16 DEF FinishRun
<1>17. ASSUME CopySample(p) PROVE RunAt(p)'
  BY <1>17 DEF CopySample
<1>18. ASSUME CreateFromCopy(p) PROVE RunAt(p)'
  BY <1>18 DEF CreateFromCopy
<1>19. ASSUME FallbackEnds(p) PROVE RunAt(p)'
  BY <1>19 DEF FallbackEnds
<1>20. ASSUME Killed(p) PROVE RunAt(p)'
  BY <1>20 DEF Killed
<1>21. ASSUME ResolverRaises(p) PROVE RunAt(p)'
  BY <1>21 DEF ResolverRaises
<1> QED
  BY <1>1, <1>2, <1>3, <1>4, <1>5, <1>6, <1>7, <1>8, <1>9, <1>10, <1>11,
     <1>12, <1>13, <1>14, <1>15, <1>16, <1>17, <1>18, <1>19, <1>20, <1>21 DEF Alone, Scaffold, Key, RunTask

\* A decision posted to a panel changes the row of an approval that was asked for.
LEMMA PanelStep ==
    ASSUME IInv, NEW p \in Procs, NEW q \in Procs, PanelDecides(p, q)
    PROVE  IInv'
<1> USE DEF PanelDecides, Runs, world, files, locals
<1>1. TypeOK'
  <2>1. PICK s \in {"APPROVED", "REJECTED"} : approval' = [approval EXCEPT ![q] = s]
    OBVIOUS
  <2> QED
    BY <2>1 DEF IInv, TypeOK
<1>2. ASSUME NEW r \in Procs PROVE RunAt(r)'
  <2>1. approval'[r] = approval[r] \/ (approval[r] # "none" /\ approval'[r] \in {"APPROVED", "REJECTED"})
    BY DEF IInv, TypeOK
  <2> QED
    BY <2>1 DEF IInv, RunAt
<1> QED
  BY <1>1, <1>2 DEF IInv

\* The invariant holds of every reachable state.
LEMMA Invariant == LineSpec => []IInv
<1>1. LineInit => IInv
  <2> SUFFICES ASSUME LineInit PROVE IInv
    OBVIOUS
  <2>1. TypeOK
    BY DEF LineInit, TypeOK, Points, Codes
  <2>2. ASSUME NEW p \in Procs PROVE RunAt(p)
    BY DEF LineInit, RunAt
  <2> QED
    BY <2>1, <2>2 DEF IInv
<1>2. IInv /\ [LineNext]_lineVars => IInv'
  <2> SUFFICES ASSUME IInv, [LineNext]_lineVars PROVE IInv'
    OBVIOUS
  <2>1. ASSUME NEW p \in Procs, Alone(p) PROVE IInv'
    <3>1. TypeOK'
      BY <2>1, TypeStep DEF IInv
    <3>2. RunAt(p)'
      BY <2>1, RunStep DEF IInv
    <3>3. ASSUME NEW q \in Procs, q # p PROVE RunAt(q)'
      <4>1. Same(q)
        BY <2>1, <3>3, OthersStay DEF IInv
      <4> QED
        BY <4>1 DEF IInv, RunAt, Same
    <3> QED
      BY <3>1, <3>2, <3>3 DEF IInv
  <2>2. CASE UNCHANGED lineVars
    <3>1. TypeOK'
      BY <2>2 DEF IInv, TypeOK, lineVars, rows, locals
    <3>2. ASSUME NEW p \in Procs PROVE RunAt(p)'
      BY <2>2 DEF IInv, RunAt, lineVars, rows
    <3> QED
      BY <3>1, <3>2 DEF IInv
  <2> QED
    BY <2>1, <2>2, PanelStep DEF LineNext, Alone, Serve
<1> QED
  BY <1>1, <1>2, PTL DEF LineSpec

(***************************************************************************)
(* The properties                                                          *)
(***************************************************************************)
\* For all processes, keys and commands: the rows, the exit codes, the answers and the entered
\* keys keep their types.
THEOREM CommandsTypeCorrect == LineSpec => []TypeOK
<1>1. IInv => TypeOK
  BY DEF IInv
<1> QED
  BY <1>1, Invariant, PTL

\* The exit code of `run` agrees with the database, however many panels decide on it and
\* wherever the resolver raises.
THEOREM ExitCodesAreTrue == LineSpec => []RunExitCodeIsTrue
<1>1. IInv => RunExitCodeIsTrue
  BY DEF IInv, RunAt, RunExitCodeIsTrue
<1> QED
  BY <1>1, Invariant, PTL
=============================================================================
