----------------------------- MODULE TaskBoard ------------------------------
(***************************************************************************)
(* The task board: rows of SQLite (tasks/store.rs) moved by the tools of   *)
(* agents (tools/task_*.rs) and by the gateway (gateway/task_handlers.rs). *)
(*                                                                         *)
(* A caller reads the row, checks the move against what it read, and then  *)
(* writes by id without looking again: reading and writing are two         *)
(* actions, and any other connection can come between them.  Handlers of   *)
(* the gateway hold the lock of the shared configuration from their read   *)
(* to their write; tools hold nothing.  A call that is refused, or whose   *)
(* write fails, leaves the board alone; only failing writes are steps.     *)
(***************************************************************************)
EXTENDS Naturals, FiniteSets

CONSTANTS
    Tasks,     \* identifiers, each used for one task at most
    First,     \* the task that is on the board at the start
    Agents,    \* agents, each running one tool at a time
    Named,     \* the agents whose process has a RANTAICLAW_AGENT_ID
    Web,       \* requests of the gateway
    Nobody,    \* no assignee, no reviewer, no parent, no employee named
    Hands,     \* a bound: in whose hands rows come at all
    MaxCalls   \* a bound: the calls of one caller

ASSUME BoardAssumption ==
    /\ First \in Tasks /\ Agents \cap Web = {} /\ MaxCalls \in Nat
    /\ Nobody \notin Agents \cup Tasks
    /\ Hands \subseteq [assignee : Agents \cup {Nobody}, reviewer : Agents \cup {Nobody},
                        human : BOOLEAN]

VARIABLES
    board,      \* the table of tasks
    call,       \* the call each caller is in
    calls,      \* how many calls each caller has begun
    writer,     \* history: who last changed a row
    byTool      \* history: tasks made by create_subtask

history == <<writer, byTool>>
vars == <<board, call, calls, history>>

Callers == Agents \cup Web
Statuses == {"TODO", "IN_PROGRESS", "IN_REVIEW", "DONE", "CANCELLED"}
Row == [status : Statuses, hands : Hands, parent : Tasks \cup {Nobody}]
NoRow(why) == [status |-> why, hands |-> Nobody, parent |-> Nobody]
Unused == NoRow("UNUSED")
Deleted == NoRow("DELETED")
OnBoard(t) == board[t] \notin {Unused, Deleted}

Actions == {"approve", "changes", "reject"}
Wants == [op : {"move"}, to : Statuses] \cup [op : {"review"}, action : Actions]
         \cup [op : {"complete", "subtask"}]
Idle == [at |-> "idle"]

\* validate_transition.
ValidTransition(from, to) ==
    \/ from = "TODO" /\ to = "IN_PROGRESS"
    \/ from = "IN_PROGRESS" /\ to \in {"IN_REVIEW", "DONE", "CANCELLED"}
    \/ from = "IN_REVIEW" /\ to \in {"IN_PROGRESS", "DONE", "CANCELLED"}
    \/ from = "CANCELLED" /\ to = "TODO"

\* apply_review, of a task that is IN_REVIEW.
Reviewed(action) ==
    CASE action = "approve" -> "DONE" [] action = "changes" -> "IN_PROGRESS"
      [] action = "reject" -> "CANCELLED"

-----------------------------------------------------------------------------
BoardInit ==
    /\ \E row \in {r \in Row : r.parent = Nobody} :
           board = [t \in Tasks |-> IF t = First THEN row ELSE Unused]
    /\ call = [c \in Callers |-> Idle] /\ calls = [c \in Callers |-> 0]
    /\ writer = [t \in Tasks |-> Nobody] /\ byTool = {}

\* get_task, and the checks on what it returned.
Reads(c, t, want) ==
    /\ call[c] = Idle /\ calls[c] < MaxCalls /\ OnBoard(t)
    /\ calls' = [calls EXCEPT ![c] = @ + 1]
    /\ call' = [call EXCEPT ![c] = [at |-> "read", task |-> t, want |-> want, seen |-> board[t]]]
    /\ UNCHANGED <<board, history>>

\* The lock of the shared configuration, which handlers hold to their end.
Unlocked == \A w \in Web : call[w] = Idle

\* update_task: the columns of the patch, of the row with this id; an error if the
\* row has gone.
Write(c, t, row) == IF OnBoard(t)
                    THEN board' = [board EXCEPT ![t] = row] /\ writer' = [writer EXCEPT ![t] = c]
                    ELSE UNCHANGED <<board, writer>>

Return(c) == call' = [call EXCEPT ![c] = Idle]

Under(c, op) == call[c].at = "read" /\ call[c].want.op = op

-----------------------------------------------------------------------------
(* The tools.                                                              *)

\* Whoever completes the task hands it over for review.
NeedsReview(row) == row.hands.human \/ row.hands.reviewer # Nobody

\* update_task_status: from IN_REVIEW to DONE only through review_task.
\* Mutant: not barred.
ReadToMoveAny(a, t) ==
    \E to \in Statuses :
        /\ ValidTransition(board[t].status, to)
        /\ Reads(a, t, [op |-> "move", to |-> to])

ReadToMove(a, t) ==
    \E to \in Statuses :
        /\ ValidTransition(board[t].status, to)
        /\ ~(board[t].status = "IN_REVIEW" /\ to = "DONE")
        /\ Reads(a, t, [op |-> "move", to |-> to])

\* review_task: not by whom the task is assigned to, as far as the process knows who it
\* is; without a RANTAICLAW_AGENT_ID nothing is compared.
ReadToReview(a, t) ==
    \E action \in Actions :
        /\ board[t].status = "IN_REVIEW"
        /\ a \in Named => board[t].hands.assignee # a
        /\ Reads(a, t, [op |-> "review", action |-> action])

\* complete_subtask.
AfterWork(row) == IF NeedsReview(row) THEN "IN_REVIEW" ELSE "DONE"

ReadToComplete(a, t) ==
    /\ board[t].status # "TODO" => ValidTransition(board[t].status, AfterWork(board[t]))
    /\ Reads(a, t, [op |-> "complete"])

\* create_subtask: one level deep.
ReadParent(a, t) ==
    /\ board[t].parent = Nobody
    /\ Reads(a, t, [op |-> "subtask"])

\* The write of a move: a tool patches the status alone, handle_update_task whatever else
\* its request carries.
Move(c) ==
    /\ Under(c, "move")
    /\ \E hands \in Hands :
           /\ (c \in Agents /\ OnBoard(call[c].task)) => hands = board[call[c].task].hands
           /\ Write(c, call[c].task,
                    [board[call[c].task] EXCEPT !.status = call[c].want.to, !.hands = hands])
    /\ Return(c)
    /\ UNCHANGED <<calls, byTool>>

Review(c) ==
    /\ Under(c, "review")
    /\ Write(c, call[c].task,
             [board[call[c].task] EXCEPT !.status = Reviewed(call[c].want.action)])
    /\ Return(c)
    /\ UNCHANGED <<calls, byTool>>

\* A task that was still TODO is advanced first.
Advance(a) ==
    /\ Under(a, "complete") /\ call[a].seen.status = "TODO"
    /\ Write(a, call[a].task, [board[call[a].task] EXCEPT !.status = "IN_PROGRESS"])
    /\ call' = [call EXCEPT ![a] = IF OnBoard(call[a].task)
                                   THEN [call[a] EXCEPT !.seen.status = "IN_PROGRESS"] ELSE Idle]
    /\ UNCHANGED <<calls, byTool>>

\* Mutant: a task that was TODO is not advanced first.
CompleteAtOnce(a) ==
    /\ Under(a, "complete")
    /\ Write(a, call[a].task, [board[call[a].task] EXCEPT !.status = AfterWork(call[a].seen)])
    /\ Return(a)
    /\ UNCHANGED <<calls, byTool>>

Complete(a) ==
    /\ Under(a, "complete") /\ call[a].seen.status # "TODO"
    /\ Write(a, call[a].task, [board[call[a].task] EXCEPT !.status = AfterWork(call[a].seen)])
    /\ Return(a)
    /\ UNCHANGED <<calls, byTool>>

\* create_task: the foreign key refuses a parent that has gone.
Insert(t, row) ==
    /\ board[t] = Unused
    /\ row.parent \in {Nobody} \cup {p \in Tasks : OnBoard(p)}
    /\ board' = [board EXCEPT ![t] = row]

CreateSubtask(a) ==
    \E t \in Tasks, hands \in {h \in Hands : h.reviewer = Nobody} :
        /\ Under(a, "subtask")
        /\ Insert(t, [status |-> "TODO", hands |-> hands, parent |-> call[a].task])
        /\ writer' = [writer EXCEPT ![t] = a]
        /\ byTool' = byTool \cup {t}
        /\ Return(a)
        /\ UNCHANGED calls

\* The write or the insert fails: the database is busy, or a key is missing.
Fail(c) ==
    /\ call[c].at = "read"
    /\ Return(c)
    /\ UNCHANGED <<board, calls, history>>

-----------------------------------------------------------------------------
(* The gateway.                                                            *)

\* handle_update_task, of a status.
\* Mutant: beside another handler.
PutBeside(w, t) ==
    \E to \in Statuses :
        /\ ValidTransition(board[t].status, to)
        /\ Reads(w, t, [op |-> "move", to |-> to])

PutStatus(w, t) ==
    \E to \in Statuses :
        /\ Unlocked /\ ValidTransition(board[t].status, to)
        /\ Reads(w, t, [op |-> "move", to |-> to])

\* handle_update_task, of an assignee, a reviewer or human_review: nothing is read.
PutPerson(w, t) ==
    \E hands \in Hands :
        /\ Unlocked /\ calls[w] < MaxCalls /\ OnBoard(t)
        /\ calls' = [calls EXCEPT ![w] = @ + 1]
        /\ Write(w, t, [board[t] EXCEPT !.hands = hands])
        /\ UNCHANGED <<call, byTool>>

\* handle_review_task: not by whom the request names, if that is the task's reviewer.
ReviewRequest(w, t) ==
    \E action \in Actions, actor \in Agents \cup {Nobody} :
        /\ Unlocked /\ board[t].status = "IN_REVIEW"
        /\ actor # Nobody => actor # board[t].hands.reviewer
        /\ Reads(w, t, [op |-> "review", action |-> action])

\* handle_create_task, with a parent at any depth or with none, and the tool create_task,
\* which takes no lock and gives no parent.
CreateTask(c) ==
    \E t \in Tasks, hands \in Hands, parent \in Tasks \cup {Nobody} :
        /\ calls[c] < MaxCalls
        /\ IF c \in Web THEN Unlocked ELSE parent = Nobody /\ call[c] = Idle
        /\ Insert(t, [status |-> "TODO", hands |-> hands, parent |-> parent])
        /\ calls' = [calls EXCEPT ![c] = @ + 1]
        /\ writer' = [writer EXCEPT ![t] = c]
        /\ UNCHANGED <<call, byTool>>

\* ON DELETE CASCADE: the task and all below it.
Closed(S) == \A u \in Tasks : (OnBoard(u) /\ board[u].parent \in S) => u \in S
Doomed(t) == {u \in Tasks : \A S \in SUBSET Tasks : (t \in S /\ Closed(S)) => u \in S}

\* Mutant: no foreign keys on this connection.
DeleteAlone(w, t) ==
    /\ Unlocked /\ calls[w] < MaxCalls /\ OnBoard(t)
    /\ board' = [board EXCEPT ![t] = Deleted]
    /\ calls' = [calls EXCEPT ![w] = @ + 1]
    /\ UNCHANGED <<call, history>>

Delete(w, t) ==
    /\ Unlocked /\ calls[w] < MaxCalls /\ OnBoard(t)
    /\ board' = [u \in Tasks |-> IF u \in Doomed(t) THEN Deleted ELSE board[u]]
    /\ calls' = [calls EXCEPT ![w] = @ + 1]
    /\ UNCHANGED <<call, history>>

-----------------------------------------------------------------------------
Tool(a) ==
    \/ \E t \in Tasks : ReadToMove(a, t) \/ ReadToReview(a, t) \/ ReadToComplete(a, t) \/ ReadParent(a, t)
    \/ Advance(a) \/ Complete(a) \/ CreateSubtask(a) \/ CreateTask(a)

Handler(w) ==
    \/ \E t \in Tasks : PutStatus(w, t) \/ PutPerson(w, t) \/ ReviewRequest(w, t) \/ Delete(w, t)
    \/ CreateTask(w)

BoardNext ==
    \/ \E a \in Agents : Tool(a)
    \/ \E w \in Web : Handler(w)
    \/ \E c \in Callers : Move(c) \/ Review(c) \/ Fail(c)

BoardSpec == BoardInit /\ [][BoardNext]_vars

-----------------------------------------------------------------------------
(* Properties.                                                             *)

\* Every variable keeps its type.
TypeOK ==
    /\ board \in [Tasks -> Row \cup {Unused, Deleted}]
    /\ \A c \in Callers :
           \/ call[c] = Idle
           \/ /\ call[c].at = "read" /\ call[c].task \in Tasks
              /\ call[c].want \in Wants /\ call[c].seen \in Row
    /\ calls \in [Callers -> 0..MaxCalls]
    /\ writer \in [Tasks -> Callers \cup {Nobody}]
    /\ byTool \subseteq Tasks

\* The step in which c writes the row of t, which is no longer the one it has read.
WritesOver(c, t) ==
    /\ call[c].at = "read" /\ call[c].task = t /\ call[c].seen # board[t]
    /\ call'[c] # call[c]

\* "DONE -> (terminal)", and the other moves of validate_transition: a task makes
\* none but these, whatever tool or handler moves it, unless the row changed between
\* the read and the write of the call (update_task does not look again).
IllegalMovesAreRaces ==
    [][\A t \in Tasks :
           (OnBoard(t) /\ OnBoard(t)' /\ board'[t].status # board[t].status)
               => \/ ValidTransition(board[t].status, board'[t].status)
                  \/ \E c \in Callers : WritesOver(c, t)]_vars

\* Handlers of the gateway never race each other (state.config.lock()): when one
\* writes over a row it has not read, an agent's tool wrote that row.
HandlersAreSerial ==
    [][\A t \in Tasks, w \in Web :
           (OnBoard(t) /\ WritesOver(w, t)) => writer[t] \in Agents]_vars

\* A subtask is on the board only with its parent, and one made by an agent hangs
\* from a task that is no subtask itself, though its parent was read before and may
\* have been deleted since.
SubtasksHaveParents ==
    \A t \in Tasks :
        (OnBoard(t) /\ board[t].parent # Nobody)
            => /\ OnBoard(board[t].parent)
               /\ t \in byTool => board[board[t].parent].parent = Nobody

AwaitsReview(row) == row.status = "IN_REVIEW" /\ NeedsReview(row)

\* "Block IN_REVIEW -> DONE via status update - must go through review_task tool"
\* (update_task_status), and complete_subtask does not get round it: a task that is in
\* review and has somebody to review it is taken to DONE by a review, by the operator
\* through the gateway, or by a call that had read it when it was not (not yet in
\* review, or with nobody to review it), and by nothing else that agents do.
ReviewsAreNotSkipped ==
    [][\A t \in Tasks :
           (OnBoard(t) /\ AwaitsReview(board[t]) /\ board'[t].status = "DONE")
               => \E c \in Callers :
                      /\ call[c].at = "read" /\ call[c].task = t /\ call'[c] # call[c]
                      /\ c \in Web \/ call[c].want.op = "review" \/ ~AwaitsReview(call[c].seen)]_vars
=============================================================================
