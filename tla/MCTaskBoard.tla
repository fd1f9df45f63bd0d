----------------------------- MODULE MCTaskBoard -----------------------------
(* A small instance of TaskBoard: two agents, one of which knows its id,   *)
(* and two requests over a task in any status and subtasks made under it.  *)
EXTENDS TaskBoard, TLC

CONSTANTS t1, t2, t3, a1, a2, w1, w2

\* Nobody's, or one agent's, to be reviewed by the other agent or by a person.
FewHands ==
    {[assignee |-> Nobody, reviewer |-> Nobody, human |-> FALSE],
     [assignee |-> a1, reviewer |-> a2, human |-> FALSE],
     [assignee |-> a1, reviewer |-> Nobody, human |-> TRUE]}

Interchangeable == Permutations(Web) \cup Permutations(Tasks \ {First})
=============================================================================
