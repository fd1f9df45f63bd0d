------------------------- MODULE MCPendingApprovals -------------------------
(* Small instances of PendingApprovals: two requests of one name, in one   *)
(* chat or in two, and two replies.                                        *)
EXTENDS PendingApprovals

CONSTANTS r1, r2, a1, a2, chatA, chatB, git

OneName == [r \in Requests |-> git]
TwoChats == [r \in Requests |-> IF r = r1 THEN chatA ELSE chatB]
NoScope == [r \in Requests |-> "None"]
BothGates == [r \in Requests |-> IF r = r1 THEN "Command" ELSE "MediumRisk"]
=============================================================================
