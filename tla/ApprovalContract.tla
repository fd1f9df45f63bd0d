-------------------------- MODULE ApprovalContract --------------------------
(***************************************************************************)
(* What an approval queue promises the tool call that waits on it: one     *)
(* decision per request, made while the request is open, handed over       *)
(* unchanged unless the caller has gone, and in place of a decision only   *)
(* the deadline's denial.  PendingApprovals implements it.                 *)
(***************************************************************************)
CONSTANTS
    Requests,
    Decisions,
    HasDeadline   \* the queue was built with a timeout

VARIABLES
    standing,   \* "new", "open", "decided" or "closed"
    verdict     \* the decision, or why there is none

vars == <<standing, verdict>>

Init ==
    /\ standing = [r \in Requests |-> "new"]
    /\ verdict = [r \in Requests |-> "none"]

Move(r, to, v) ==
    /\ standing' = [standing EXCEPT ![r] = to]
    /\ verdict' = [verdict EXCEPT ![r] = v]

Open(r) == standing[r] = "new" /\ Move(r, "open", "none")

Decide(r) == standing[r] = "open" /\ \E d \in Decisions : Move(r, "decided", d)

HandOver(r) == standing[r] = "decided" /\ Move(r, "closed", verdict[r])

Expire(r) == HasDeadline /\ standing[r] = "open" /\ Move(r, "closed", "timeout")

Withdraw(r) == standing[r] \in {"open", "decided"} /\ Move(r, "closed", "withdrawn")

Next == \E r \in Requests : Open(r) \/ Decide(r) \/ HandOver(r) \/ Expire(r) \/ Withdraw(r)

Fairness ==
    \A r \in Requests : WF_vars(HandOver(r) \/ Expire(r))

Spec == Init /\ [][Next]_vars /\ Fairness
=============================================================================
