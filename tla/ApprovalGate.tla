---------------------------- MODULE ApprovalGate ----------------------------
(***************************************************************************)
(* What the approval service promises the agent loop: a request is asked   *)
(* once and answered at most once; it is answered "approved" only if a     *)
(* user voted to approve it before the answer, and "rejected" only if a    *)
(* user voted to reject it or the time to answer ran out.  A request whose *)
(* process died, or whose wait ended in an exception, is never answered.   *)
(***************************************************************************)
CONSTANT Requests

VARIABLES
    status,   \* per request: none, open, overdue, approved, rejected, abandoned
    votes     \* per request: the verdicts users have cast on it so far

gateVars == <<status, votes>>

GateInit ==
    /\ status = [r \in Requests |-> "none"]
    /\ votes = [r \in Requests |-> {}]

Unanswered(r) == status[r] \in {"open", "overdue"}

Ask(r) ==
    /\ status[r] = "none"
    /\ status' = [status EXCEPT ![r] = "open"]
    /\ UNCHANGED votes

Vote(r, verdict) ==
    /\ status[r] # "none"
    /\ votes' = [votes EXCEPT ![r] = @ \cup {verdict}]
    /\ UNCHANGED status

\* The time to answer runs out.
Expire(r) ==
    /\ status[r] = "open"
    /\ status' = [status EXCEPT ![r] = "overdue"]
    /\ UNCHANGED votes

Answer(r, verdict) ==
    /\ \/ status[r] = "open" /\ verdict \in votes[r]
       \/ status[r] = "overdue" /\ verdict = "rejected"
    /\ status' = [status EXCEPT ![r] = verdict]
    /\ UNCHANGED votes

\* Nobody waits for some of the requests any more.
Abandon(rs) ==
    /\ \A r \in rs : Unanswered(r)
    /\ status' = [r \in Requests |-> IF r \in rs THEN "abandoned" ELSE status[r]]
    /\ UNCHANGED votes

GateNext ==
    \/ \E r \in Requests :
          \/ Ask(r) \/ Expire(r)
          \/ \E verdict \in {"approved", "rejected"} : Vote(r, verdict) \/ Answer(r, verdict)
    \/ \E rs \in SUBSET Requests : Abandon(rs)

GateSpec == GateInit /\ [][GateNext]_gateVars
=============================================================================
