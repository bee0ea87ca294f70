---------------------------- MODULE GovernedRun ----------------------------
(***************************************************************************)
(* What a run of the agent promises the person who starts it, whatever the *)
(* model answers: in each turn at most one action is proposed, and it is   *)
(* called at most once, and only if the policy allows it or the person     *)
(* approved exactly that action; there are at most Budget turns; at most   *)
(* one call is made after a stop was asked for; the run is COMPLETED only  *)
(* by a finish action that governance let through; and it ends once.       *)
(***************************************************************************)
EXTENDS Naturals, Sequences

CONSTANTS Actions, Finish, Policy, Reasons, Budget

VARIABLES
    phase,      \* idle, asked, proposed, waiting, approved, settled, refused, over
    proposal,   \* the action the turn may still call or has called: at most one
    calls,      \* the calls of tools so far, and whether a stop had been asked for
    turns,      \* the turns that have counted
    stopping,   \* the time is up or the person has cancelled
    outcome     \* the reason the run ended with, "none" before that

runVars == <<phase, proposal, calls, turns, stopping, outcome>>

RunInit ==
    /\ phase = "idle"
    /\ proposal = {}
    /\ calls = <<>>
    /\ turns = 0
    /\ stopping \in BOOLEAN
    /\ outcome = "none"

Move(from, to) == phase = from /\ phase' = to

Ask ==
    /\ Move("idle", "asked")
    /\ turns < Budget
    /\ UNCHANGED <<proposal, calls, turns, stopping, outcome>>

\* The answer proposes nothing: the turn does not count.
ProposeNothing ==
    /\ Move("asked", "idle")
    /\ UNCHANGED <<proposal, calls, turns, stopping, outcome>>

Propose(a) ==
    /\ Move("asked", "proposed")
    /\ proposal' = {a}
    /\ UNCHANGED <<calls, turns, stopping, outcome>>

Consult ==
    /\ Move("proposed", "waiting")
    /\ \A a \in proposal : Policy[a] = "REQUIRE_APPROVAL"
    /\ UNCHANGED <<proposal, calls, turns, stopping, outcome>>

\* The person approves the proposal as it was shown.
Approve ==
    /\ Move("waiting", "approved")
    /\ UNCHANGED <<proposal, calls, turns, stopping, outcome>>

Allowed(a) == Policy[a] \in {"ALLOW", "ALLOW_WITH_AUDIT"}

\* The one call of the turn.
Call(a) ==
    /\ a \in proposal
    /\ \/ Move("proposed", "settled") /\ Allowed(a)
       \/ Move("approved", "settled")
    /\ \A i \in 1..Len(calls) : ~calls[i].late
    /\ calls' = Append(calls, [action |-> a, late |-> stopping])
    /\ UNCHANGED <<proposal, turns, stopping, outcome>>

\* What was approved cannot be called any more.
Fail ==
    /\ Move("approved", "settled")
    /\ UNCHANGED <<proposal, calls, turns, stopping, outcome>>

\* The policy or the person says no, or the action is no longer the one that was shown.
Refuse ==
    /\ phase \in {"proposed", "waiting"} /\ phase' = "refused"
    /\ proposal' = {}
    /\ UNCHANGED <<calls, turns, stopping, outcome>>

CloseTurn ==
    /\ phase \in {"settled", "refused"} /\ phase' = "idle"
    /\ turns' = turns + 1
    /\ proposal' = {}
    /\ UNCHANGED <<calls, stopping, outcome>>

\* Each reason is the truth about the run it ends.
Justified(r) ==
    /\ r = "COMPLETED" => phase = "settled" /\ proposal = {Finish}
    /\ r \in {"TIMEOUT", "CANCELLED"} => phase = "idle" /\ stopping
    /\ r = "MAX_STEPS" => phase = "idle" /\ turns = Budget

End(r) ==
    /\ phase # "over" /\ phase' = "over"
    /\ Justified(r)
    /\ outcome' = r
    /\ proposal' = {}
    /\ UNCHANGED <<calls, turns, stopping>>

RequestStop ==
    /\ phase # "over"
    /\ ~stopping /\ stopping' = TRUE
    /\ UNCHANGED <<phase, proposal, calls, turns, outcome>>

RunNext ==
    \/ Ask \/ ProposeNothing \/ Consult \/ Approve \/ Fail \/ Refuse \/ CloseTurn \/ RequestStop
    \/ \E a \in Actions : Propose(a) \/ Call(a)
    \/ \E r \in Reasons : End(r)

RunSpec == RunInit /\ [][RunNext]_runVars
=============================================================================
