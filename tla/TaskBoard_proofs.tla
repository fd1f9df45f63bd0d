--------------------------- MODULE TaskBoard_proofs --------------------------
(***************************************************************************)
(* The task board for every set of tasks, agents and requests: its types,  *)
(* the parents of subtasks, which moves are made, that reviews are not     *)
(* skipped, and that the handlers of the gateway never race each other.    *)
(***************************************************************************)
EXTENDS TaskBoard, TLAPS

CallRecord == [at : {"read"}, task : Tasks, want : Wants, seen : Row]

Typed == TypeOK /\ call \in [Callers -> CallRecord \cup {Idle}]

Reading(c) == call[c].at = "read"

\* What a call has made sure of, of the row it has read.
Checked(c, row, want) ==
    /\ want.op = "move" => /\ ValidTransition(row.status, want.to)
                           /\ (c \in Agents /\ want.to = "DONE") => row.status # "IN_REVIEW"
    /\ want.op = "review" => row.status = "IN_REVIEW"
    /\ want.op = "complete" => row.status = "TODO" \/ ValidTransition(row.status, AfterWork(row))
    /\ want.op = "subtask" => c \in Agents /\ row.parent = Nobody

CheckedInv == \A c \in Callers : Reading(c) => Checked(c, call[c].seen, call[c].want)

\* An identifier that is not used yet is in no call and in no history.
FreshInv ==
    \A t \in Tasks :
        board[t] = Unused => /\ t \notin byTool
                             /\ \A c \in Callers : Reading(c) => call[c].task # t

\* The lock of the configuration, and what it buys: a row that has changed under a
\* handler was changed by a tool.
SerialInv ==
    /\ \A v, w \in Web : Reading(v) /\ Reading(w) => v = w
    /\ \A w \in Web :
           (Reading(w) /\ OnBoard(call[w].task))
               => call[w].seen = board[call[w].task] \/ writer[call[w].task] \in Agents

\* An agent that splits a task finds it at the top.
PartInv ==
    \A a \in Agents :
        (Reading(a) /\ OnBoard(call[a].task) /\ call[a].want.op = "subtask")
            => board[call[a].task].parent = Nobody

BoardInv == Typed /\ CheckedInv /\ FreshInv /\ SerialInv /\ PartInv /\ SubtasksHaveParents

-----------------------------------------------------------------------------
(* The shapes a step can have.                                             *)

\* A call reads its row.
Looks(c) ==
    \E t \in Tasks, want \in Wants :
        /\ Reads(c, t, want) /\ Checked(c, board[t], want)
        /\ c \in Web => Unlocked

\* What a call makes of the row: it hangs where it hung, its status follows from the
\* one that was read, and an agent that ends a task awaiting review has reviewed it.
Rewritten(c, old, new) ==
    /\ new \in Row /\ new.parent = old.parent
    /\ call[c].seen = old => ValidTransition(old.status, new.status)
    /\ (c \in Agents /\ new.status = "DONE" /\ call[c].want.op # "review")
           => ~AwaitsReview(call[c].seen)

\* A call writes a status, and the hands of its patch.
Moves(c) ==
    /\ Reading(c) /\ call[c].want.op # "subtask"
    /\ \E row :
           /\ Write(c, call[c].task, row)
           /\ OnBoard(call[c].task) => Rewritten(c, board[call[c].task], row)
    /\ \/ Return(c)
       \/ /\ call[c].want.op = "complete" /\ call[c].seen.status = "TODO" /\ c \in Agents
          /\ call' = [call EXCEPT ![c] = [call[c] EXCEPT !.seen.status = "IN_PROGRESS"]]
          /\ OnBoard(call[c].task)
    /\ UNCHANGED <<calls, byTool>>

LEMMA IdleOrReading ==
    ASSUME Typed, NEW c \in Callers
    PROVE  /\ call[c] = Idle \/ call[c] \in CallRecord
           /\ Reading(c) <=> call[c] \in CallRecord
           /\ Reading(c) <=> call[c] # Idle
           /\ Reading(c) => /\ call[c].task \in Tasks /\ call[c].want \in Wants
                            /\ call[c].seen \in Row
  BY DEF Typed, CallRecord, Idle, Reading

LEMMA WantTyped ==
    ASSUME NEW want \in Wants
    PROVE  /\ want.op = "move" => want.to \in Statuses
           /\ want.op = "review" => want.action \in Actions
  BY DEF Wants

LEMMA MovesTo ==
    /\ \A action \in Actions : /\ Reviewed(action) \in Statuses
                               /\ ValidTransition("IN_REVIEW", Reviewed(action))
    /\ \A row : /\ AfterWork(row) \in Statuses /\ ValidTransition("IN_PROGRESS", AfterWork(row))
                /\ AwaitsReview(row) => AfterWork(row) # "DONE"
    /\ \A from, to : ValidTransition(from, to) => to \in Statuses
  BY DEF Actions, Reviewed, Statuses, ValidTransition, AfterWork, AwaitsReview

LEMMA RowOnBoard ==
    ASSUME TypeOK, NEW t \in Tasks
    PROVE  OnBoard(t) <=> board[t] \in Row
  BY DEF TypeOK, OnBoard, Row, Statuses, Unused, Deleted, NoRow

LEMMA ShapeOfReads ==
    ASSUME Typed, NEW c \in Callers, NEW t \in Tasks,
           \/ c \in Agents /\ (ReadToMove(c, t) \/ ReadToReview(c, t)
                               \/ ReadToComplete(c, t) \/ ReadParent(c, t))
           \/ c \in Web /\ (PutStatus(c, t) \/ ReviewRequest(c, t))
    PROVE  Looks(c)
<1>1. CASE c \in Agents /\ ReadToMove(c, t)
  <2>1. PICK to \in Statuses : /\ ValidTransition(board[t].status, to)
                               /\ ~(board[t].status = "IN_REVIEW" /\ to = "DONE")
                               /\ Reads(c, t, [op |-> "move", to |-> to])
    BY <1>1 DEF ReadToMove
  <2> QED
    BY <1>1, <2>1, BoardAssumption DEF Looks, Wants, Checked
<1>2. CASE c \in Agents /\ ReadToReview(c, t)
  <2>1. PICK action \in Actions : /\ board[t].status = "IN_REVIEW"
                                  /\ Reads(c, t, [op |-> "review", action |-> action])
    BY <1>2 DEF ReadToReview
  <2> QED
    BY <1>2, <2>1, BoardAssumption DEF Looks, Wants, Checked
<1>3. CASE c \in Agents /\ ReadToComplete(c, t)
  BY <1>3, BoardAssumption DEF ReadToComplete, Looks, Wants, Checked
<1>4. CASE c \in Agents /\ ReadParent(c, t)
  BY <1>4, BoardAssumption DEF ReadParent, Looks, Wants, Checked
<1>5. CASE c \in Web /\ PutStatus(c, t)
  <2>1. PICK to \in Statuses : /\ Unlocked /\ ValidTransition(board[t].status, to)
                               /\ Reads(c, t, [op |-> "move", to |-> to])
    BY <1>5 DEF PutStatus
  <2>2. c \notin Agents
    BY <1>5, BoardAssumption
  <2> QED
    BY <1>5, <2>1, <2>2 DEF Looks, Wants, Checked
<1>6. CASE c \in Web /\ ReviewRequest(c, t)
  <2>1. PICK action \in Actions : /\ Unlocked /\ board[t].status = "IN_REVIEW"
                                  /\ Reads(c, t, [op |-> "review", action |-> action])
    BY <1>6 DEF ReviewRequest
  <2>2. c \notin Agents
    BY <1>6, BoardAssumption
  <2> QED
    BY <1>6, <2>1, <2>2 DEF Looks, Wants, Checked
<1> QED
  BY <1>1, <1>2, <1>3, <1>4, <1>5, <1>6

\* A row with another status.
LEMMA Restated ==
    ASSUME NEW row \in Row, NEW s \in Statuses
    PROVE  /\ [row EXCEPT !.status = s] \in Row
           /\ [row EXCEPT !.status = s].status = s /\ [row EXCEPT !.status = s].parent = row.parent
  BY DEF Row

LEMMA ShapeOfWrites ==
    ASSUME Typed, CheckedInv, NEW c \in Callers,
           Move(c) \/ Review(c) \/ (c \in Agents /\ (Advance(c) \/ Complete(c)))
    PROVE  Moves(c)
<1> DEFINE t == call[c].task
<1>1. Reading(c) /\ call[c].want \in Wants /\ Checked(c, call[c].seen, call[c].want) /\ t \in Tasks
  BY IdleOrReading DEF Move, Review, Advance, Complete, Under, Reading, CheckedInv
<1>2. OnBoard(t) => board[t] \in Row
  BY <1>1, RowOnBoard DEF Typed
<1>3. CASE Move(c)
  <2>1. call[c].want.op = "move" /\ call[c].want.to \in Statuses
    BY <1>1, <1>3, WantTyped DEF Move, Under
  <2>2. PICK hands \in Hands :
           Write(c, t, [board[t] EXCEPT !.status = call[c].want.to, !.hands = hands])
    BY <1>3 DEF Move
  <2> DEFINE row == [board[t] EXCEPT !.status = call[c].want.to, !.hands = hands]
  <2>3. OnBoard(t) => /\ row \in Row /\ row.status = call[c].want.to
                      /\ row.parent = board[t].parent
    BY <1>2, <2>1 DEF Row
  <2> HIDE DEF row
  <2>4. OnBoard(t) => Rewritten(c, board[t], row)
    BY <1>1, <2>1, <2>3 DEF Rewritten, Checked, AwaitsReview
  <2>5. Return(c) /\ UNCHANGED <<calls, byTool>>
    BY <1>3 DEF Move
  <2>6. Write(c, t, row)
    BY <2>2 DEF row
  <2> QED
    BY <1>1, <2>1, <2>4, <2>5, <2>6 DEF Moves
<1>4. CASE Review(c)
  <2> DEFINE s == Reviewed(call[c].want.action)
             row == [board[t] EXCEPT !.status = s]
  <2>1. call[c].want.op = "review" /\ call[c].want.action \in Actions
    BY <1>1, <1>4, WantTyped DEF Review, Under
  <2>2. s \in Statuses /\ (call[c].seen = board[t] => ValidTransition(board[t].status, s))
    BY <1>1, <2>1, MovesTo DEF Checked
  <2> HIDE DEF s
  <2>3. OnBoard(t) => row \in Row /\ row.status = s /\ row.parent = board[t].parent
    BY <1>2, <2>2, Restated
  <2>4. Write(c, t, row) /\ Return(c) /\ UNCHANGED <<calls, byTool>>
    BY <1>4 DEF Review, s
  <2> HIDE DEF row
  <2>5. OnBoard(t) => Rewritten(c, board[t], row)
    BY <2>1, <2>2, <2>3 DEF Rewritten
  <2> QED
    BY <1>1, <2>1, <2>4, <2>5 DEF Moves
<1>5. CASE c \in Agents /\ Advance(c)
  <2> DEFINE row == [board[t] EXCEPT !.status = "IN_PROGRESS"]
  <2>1. call[c].want.op = "complete" /\ call[c].seen.status = "TODO"
    BY <1>5 DEF Advance, Under
  <2>2. "IN_PROGRESS" \in Statuses /\ ValidTransition("TODO", "IN_PROGRESS")
    BY DEF Statuses, ValidTransition
  <2>3. OnBoard(t) => row \in Row /\ row.status = "IN_PROGRESS" /\ row.parent = board[t].parent
    BY <1>2, <2>2, Restated
  <2>4. /\ Write(c, t, row) /\ UNCHANGED <<calls, byTool>>
        /\ \/ Return(c)
           \/ /\ call' = [call EXCEPT ![c] = [call[c] EXCEPT !.seen.status = "IN_PROGRESS"]]
              /\ OnBoard(t)
    BY <1>5 DEF Advance, Return
  <2> HIDE DEF row
  <2>5. OnBoard(t) => Rewritten(c, board[t], row)
    BY <2>1, <2>2, <2>3 DEF Rewritten
  <2> QED
    BY <1>1, <1>5, <2>1, <2>4, <2>5 DEF Moves
<1>6. CASE c \in Agents /\ Complete(c)
  <2> DEFINE s == AfterWork(call[c].seen)
             row == [board[t] EXCEPT !.status = s]
  <2>1. call[c].want.op = "complete" /\ call[c].seen.status # "TODO"
    BY <1>6 DEF Complete, Under
  <2>2. /\ s \in Statuses /\ ValidTransition(call[c].seen.status, s)
        /\ AwaitsReview(call[c].seen) => s # "DONE"
    BY <1>1, <2>1, MovesTo DEF Checked
  <2> HIDE DEF s
  <2>3. OnBoard(t) => row \in Row /\ row.status = s /\ row.parent = board[t].parent
    BY <1>2, <2>2, Restated
  <2>4. Write(c, t, row) /\ Return(c) /\ UNCHANGED <<calls, byTool>>
    BY <1>6 DEF Complete, s
  <2> HIDE DEF row
  <2>5. OnBoard(t) => Rewritten(c, board[t], row)
    BY <2>2, <2>3 DEF Rewritten
  <2> QED
    BY <1>1, <2>1, <2>4, <2>5 DEF Moves
<1> QED
  BY <1>3, <1>4, <1>5, <1>6

LEMMA Shapes ==
    ASSUME Typed, CheckedInv, BoardNext
    PROVE  \/ \E c \in Callers : Looks(c) \/ Moves(c) \/ Fail(c) \/ CreateTask(c)
           \/ \E a \in Agents : CreateSubtask(a)
           \/ \E w \in Web : \E t \in Tasks : PutPerson(w, t) \/ Delete(w, t)
<1>1. Agents \subseteq Callers /\ Web \subseteq Callers
  BY DEF Callers
<1>2. ASSUME NEW a \in Agents, Tool(a)
      PROVE  Looks(a) \/ Moves(a) \/ CreateSubtask(a) \/ CreateTask(a)
  BY <1>1, <1>2, ShapeOfReads, ShapeOfWrites DEF Tool
<1>3. ASSUME NEW w \in Web, Handler(w)
      PROVE  Looks(w) \/ CreateTask(w) \/ \E t \in Tasks : PutPerson(w, t) \/ Delete(w, t)
  BY <1>1, <1>3, ShapeOfReads DEF Handler
<1>4. ASSUME NEW c \in Callers, Move(c) \/ Review(c)
      PROVE  Moves(c)
  BY <1>4, ShapeOfWrites
<1> QED
  BY <1>1, <1>2, <1>3, <1>4 DEF BoardNext

-----------------------------------------------------------------------------
(* What each shape does to the rows.                                       *)

LEMMA MovesRows ==
    ASSUME Typed, NEW c \in Callers, Moves(c)
    PROVE  /\ board' \in [Tasks -> Row \cup {Unused, Deleted}]
           /\ writer' \in [Tasks -> Callers \cup {Nobody}]
           /\ \A t \in Tasks :
                  \/ board'[t] = board[t] /\ writer'[t] = writer[t]
                  \/ /\ t = call[c].task /\ OnBoard(t) /\ Rewritten(c, board[t], board'[t])
                     /\ writer'[t] = c
           /\ \A t \in Tasks : (OnBoard(t)' <=> OnBoard(t)) /\ (board'[t] = Unused <=> board[t] = Unused)
<1> DEFINE t == call[c].task
<1>1. /\ board \in [Tasks -> Row \cup {Unused, Deleted}]
      /\ writer \in [Tasks -> Callers \cup {Nobody}]
  BY DEF Typed, TypeOK
<1>2. PICK row : Write(c, t, row) /\ (OnBoard(t) => Rewritten(c, board[t], row))
  BY DEF Moves
<1>3. t \in Tasks
  BY IdleOrReading DEF Moves
<1>4. CASE ~OnBoard(t)
  <2>1. board' = board /\ writer' = writer
    BY <1>2, <1>4 DEF Write
  <2> QED
    BY <1>1, <2>1 DEF OnBoard
<1>5. CASE OnBoard(t)
  <2>1. Rewritten(c, board[t], row) /\ row \in Row
    BY <1>2, <1>5 DEF Rewritten
  <2>2. row \notin {Unused, Deleted}
    BY <2>1 DEF Row, Statuses, Unused, Deleted, NoRow
  <2>3. board' = [board EXCEPT ![t] = row] /\ writer' = [writer EXCEPT ![t] = c]
    BY <1>2, <1>5 DEF Write
  <2>4. /\ board' \in [Tasks -> Row \cup {Unused, Deleted}]
        /\ writer' \in [Tasks -> Callers \cup {Nobody}]
    BY <1>1, <1>3, <2>1, <2>3
  <2>5. ASSUME NEW u \in Tasks
        PROVE  /\ u # t => board'[u] = board[u] /\ writer'[u] = writer[u]
               /\ u = t => board'[u] = row /\ writer'[u] = c
    BY <1>1, <2>3
  <2>6. \A u \in Tasks : (OnBoard(u)' <=> OnBoard(u)) /\ (board'[u] = Unused <=> board[u] = Unused)
    BY <1>5, <2>2, <2>5 DEF OnBoard
  <2> QED
    BY <1>5, <2>1, <2>4, <2>5, <2>6
<1> QED
  BY <1>4, <1>5

\* A call that moves a task is over, or still at the same one.
LEMMA MovesCalls ==
    ASSUME Typed, CheckedInv, NEW c \in Callers, Moves(c)
    PROVE  /\ call' \in [Callers -> CallRecord \cup {Idle}]
           /\ \A d \in Callers \ {c} : call'[d] = call[d]
           /\ call'[c] # call[c]
           /\ \/ call'[c] = Idle
              \/ /\ call'[c] \in CallRecord /\ Checked(c, call'[c].seen, call'[c].want)
                 /\ call'[c].task = call[c].task /\ call'[c].want = call[c].want
                 /\ c \in Agents
<1>1. /\ call \in [Callers -> CallRecord \cup {Idle}]
      /\ call[c] \in CallRecord /\ call[c] # Idle
      /\ Checked(c, call[c].seen, call[c].want)
  BY IdleOrReading DEF Typed, Moves, CheckedInv
<1>2. CASE Return(c)
  BY <1>1, <1>2 DEF Return
<1> DEFINE next == [call[c] EXCEPT !.seen.status = "IN_PROGRESS"]
<1>3. CASE /\ call[c].want.op = "complete" /\ call[c].seen.status = "TODO" /\ c \in Agents
           /\ call' = [call EXCEPT ![c] = next]
  <2>1. call[c].seen \in Row
    BY <1>1 DEF CallRecord
  <2>2. /\ next.at = call[c].at /\ next.task = call[c].task /\ next.want = call[c].want
        /\ next.seen = [call[c].seen EXCEPT !.status = "IN_PROGRESS"]
    BY <1>1 DEF CallRecord
  <2>3. next.seen \in Row /\ next.seen.status = "IN_PROGRESS"
    BY <2>1, <2>2 DEF Row, Statuses
  <2>4. next \in CallRecord /\ next # call[c]
    <3>1. next = [at |-> "read", task |-> call[c].task, want |-> call[c].want, seen |-> next.seen]
      BY <1>1 DEF CallRecord
    <3> QED
      BY <1>1, <1>3, <2>3, <3>1 DEF CallRecord
  <2>5. Checked(c, next.seen, next.want)
    BY <1>3, <2>2, <2>3, MovesTo DEF Checked
  <2> HIDE DEF next
  <2> QED
    BY <1>1, <1>3, <2>2, <2>4, <2>5
<1> QED
  BY <1>2, <1>3 DEF Moves

LEMMA LooksCalls ==
    ASSUME Typed, NEW c \in Callers, Looks(c)
    PROVE  \E t \in Tasks, want \in Wants :
              /\ OnBoard(t) /\ board[t] \in Row /\ Checked(c, board[t], want)
              /\ call' = [call EXCEPT ![c] = [at |-> "read", task |-> t, want |-> want, seen |-> board[t]]]
              /\ [at |-> "read", task |-> t, want |-> want, seen |-> board[t]] \in CallRecord
              /\ c \in Web => Unlocked
              /\ UNCHANGED <<board, history>> /\ calls' \in [Callers -> 0..MaxCalls]
<1>1. PICK t \in Tasks, want \in Wants :
         Reads(c, t, want) /\ Checked(c, board[t], want) /\ (c \in Web => Unlocked)
  BY DEF Looks
<1>2. board[t] \in Row /\ OnBoard(t)
  BY <1>1, RowOnBoard DEF Typed, Reads
<1>3. calls' \in [Callers -> 0..MaxCalls]
  BY <1>1, BoardAssumption DEF Reads, Typed, TypeOK
<1> QED
  BY <1>1, <1>2, <1>3 DEF Reads, CallRecord

\* What an insertion does.
LEMMA Inserts ==
    ASSUME Typed, NEW t \in Tasks, NEW row \in Row, Insert(t, row)
    PROVE  /\ board' \in [Tasks -> Row \cup {Unused, Deleted}]
           /\ \A u \in Tasks : u # t => board'[u] = board[u]
           /\ board[t] = Unused /\ ~OnBoard(t) /\ board'[t] = row /\ OnBoard(t)'
           /\ row.parent # Nobody => row.parent \in Tasks /\ OnBoard(row.parent)
<1>1. row \notin {Unused, Deleted}
  BY DEF Row, Statuses, Unused, Deleted, NoRow
<1> QED
  BY <1>1 DEF Insert, Typed, TypeOK, OnBoard

\* The row of a new task.
LEMMA NewRow ==
    ASSUME NEW hands \in Hands, NEW parent \in Tasks \cup {Nobody}
    PROVE  [status |-> "TODO", hands |-> hands, parent |-> parent] \in Row
  BY DEF Row, Statuses

-----------------------------------------------------------------------------
(* Every shape keeps the invariant.                                        *)

\* The types follow from the calls' records.
LEMMA TypedKept ==
    ASSUME board' \in [Tasks -> Row \cup {Unused, Deleted}],
           call' \in [Callers -> CallRecord \cup {Idle}],
           calls' \in [Callers -> 0..MaxCalls],
           writer' \in [Tasks -> Callers \cup {Nobody}],
           byTool' \subseteq Tasks
    PROVE  Typed'
<1>1. ASSUME NEW c \in Callers
      PROVE  \/ call'[c] = Idle
             \/ /\ call'[c].at = "read" /\ call'[c].task \in Tasks
                /\ call'[c].want \in Wants /\ call'[c].seen \in Row
  BY DEF CallRecord
<1> QED
  BY <1>1 DEF Typed, TypeOK

LEMMA Parted == ASSUME NEW c \in Callers, c \notin Agents PROVE c \in Web
  BY DEF Callers

LEMMA LooksKeeps ==
    ASSUME BoardInv, NEW c \in Callers, Looks(c)
    PROVE  BoardInv'
<1>1. PICK t \in Tasks, want \in Wants :
        /\ OnBoard(t) /\ board[t] \in Row /\ Checked(c, board[t], want)
        /\ call' = [call EXCEPT ![c] = [at |-> "read", task |-> t, want |-> want, seen |-> board[t]]]
        /\ [at |-> "read", task |-> t, want |-> want, seen |-> board[t]] \in CallRecord
        /\ c \in Web => Unlocked
        /\ UNCHANGED <<board, history>> /\ calls' \in [Callers -> 0..MaxCalls]
  BY LooksCalls DEF BoardInv
<1>2. /\ call \in [Callers -> CallRecord \cup {Idle}]
      /\ Agents \subseteq Callers /\ Web \subseteq Callers /\ Agents \cap Web = {}
  BY BoardAssumption DEF BoardInv, Typed, Callers
<1>3. /\ call' \in [Callers -> CallRecord \cup {Idle}]
      /\ \A d \in Callers \ {c} : call'[d] = call[d]
      /\ call'[c].at = "read" /\ call'[c].task = t /\ call'[c].want = want /\ call'[c].seen = board[t]
  BY <1>1, <1>2
<1>4. Typed'
  BY <1>1, <1>3, TypedKept DEF BoardInv, Typed, TypeOK, history
<1>5. CheckedInv'
  BY <1>1, <1>3 DEF BoardInv, CheckedInv, Checked, Reading
<1>6. FreshInv'
  BY <1>1, <1>3 DEF BoardInv, FreshInv, Reading, OnBoard, history
<1>7. SerialInv'
  <2>1. ASSUME NEW v \in Web, NEW w \in Web, Reading(v)', Reading(w)'
        PROVE  v = w
    BY <1>1, <1>2, <1>3, <2>1 DEF BoardInv, SerialInv, Reading, Unlocked, Idle
  <2>2. ASSUME NEW w \in Web, Reading(w)', OnBoard(call[w].task)'
        PROVE  call'[w].seen = board'[call'[w].task] \/ writer'[call'[w].task] \in Agents
    BY <1>1, <1>2, <1>3, <2>2 DEF BoardInv, SerialInv, Reading, history, OnBoard
  <2> QED
    BY <2>1, <2>2 DEF SerialInv
<1>8. PartInv'
  BY <1>1, <1>2, <1>3 DEF BoardInv, PartInv, Reading, OnBoard, Checked, history
<1>9. SubtasksHaveParents'
  BY <1>1 DEF BoardInv, SubtasksHaveParents, OnBoard, history
<1> QED
  BY <1>4, <1>5, <1>6, <1>7, <1>8, <1>9 DEF BoardInv

LEMMA MovesKeeps ==
    ASSUME BoardInv, NEW c \in Callers, Moves(c)
    PROVE  BoardInv'
<1>1. /\ board' \in [Tasks -> Row \cup {Unused, Deleted}]
      /\ writer' \in [Tasks -> Callers \cup {Nobody}]
      /\ \A t \in Tasks : \/ board'[t] = board[t] /\ writer'[t] = writer[t]
                          \/ /\ t = call[c].task /\ OnBoard(t) /\ writer'[t] = c
                             /\ Rewritten(c, board[t], board'[t])
      /\ \A t \in Tasks : (OnBoard(t)' <=> OnBoard(t)) /\ (board'[t] = Unused <=> board[t] = Unused)
  BY MovesRows DEF BoardInv
<1>2. /\ call' \in [Callers -> CallRecord \cup {Idle}]
      /\ \A d \in Callers \ {c} : call'[d] = call[d]
      /\ \/ call'[c] = Idle
         \/ /\ call'[c] \in CallRecord /\ Checked(c, call'[c].seen, call'[c].want)
            /\ call'[c].task = call[c].task /\ call'[c].want = call[c].want
            /\ c \in Agents
  BY MovesCalls DEF BoardInv
<1>3. /\ call \in [Callers -> CallRecord \cup {Idle}] /\ Reading(c) /\ call[c].task \in Tasks
      /\ Agents \subseteq Callers /\ Web \subseteq Callers /\ Agents \cap Web = {}
  BY IdleOrReading, BoardAssumption DEF BoardInv, Typed, TypeOK, Callers, Moves
<1>4. UNCHANGED <<calls, byTool>>
  BY DEF Moves
<1>5. \A d \in Callers :
          Reading(d)' => /\ Reading(d) /\ call'[d].task = call[d].task /\ call'[d].want = call[d].want
                         /\ call[d].task \in Tasks
                         /\ d # c => call'[d].seen = call[d].seen
                         /\ d \in Web => d # c
  BY <1>2, <1>3, IdleOrReading DEF Reading, Idle, BoardInv
<1>6. \A t \in Tasks : /\ OnBoard(t) => board'[t].parent = board[t].parent
                       /\ writer'[t] = writer[t] \/ writer'[t] = c
  BY <1>1 DEF Rewritten
<1>7. Typed'
  BY <1>1, <1>2, <1>3, <1>4, TypedKept DEF BoardInv, Typed, TypeOK
<1>8. CheckedInv'
  BY <1>2, <1>5 DEF BoardInv, CheckedInv, Checked, CallRecord, Reading, Idle
<1>9. FreshInv'
  <2>1. ASSUME NEW t \in Tasks, board'[t] = Unused
        PROVE  t \notin byTool' /\ \A d \in Callers : Reading(d)' => call'[d].task # t
    BY <1>1, <1>3, <1>4, <1>5, <2>1 DEF BoardInv, FreshInv
  <2> QED
    BY <2>1 DEF FreshInv
<1>10. SerialInv'
  <2>1. \A v, w \in Web : Reading(v)' /\ Reading(w)' => v = w
    BY <1>3, <1>5 DEF BoardInv, SerialInv
  <2>2. ASSUME NEW w \in Web, Reading(w)', OnBoard(call[w].task)'
        PROVE  call'[w].seen = board'[call'[w].task] \/ writer'[call'[w].task] \in Agents
    <3>1. /\ Reading(w) /\ w # c /\ w \in Callers /\ call'[w].task = call[w].task
          /\ call[w].task \in Tasks /\ call'[w].seen = call[w].seen
      BY <1>3, <1>5, <2>2
    <3>2. OnBoard(call[w].task)
      BY <1>1, <2>2, <3>1 DEF OnBoard
    <3>3. call[w].seen = board[call[w].task] \/ writer[call[w].task] \in Agents
      BY <3>1, <3>2 DEF BoardInv, SerialInv
    <3>4. c \in Agents \/ (c \in Web /\ FALSE)
      BY <1>3, <2>2, <3>1, Parted DEF BoardInv, SerialInv
    <3> QED
      BY <1>1, <3>1, <3>3, <3>4
  <2> QED
    BY <2>1, <2>2 DEF SerialInv
<1>11. PartInv'
  <2>1. ASSUME NEW a \in Agents, Reading(a)', OnBoard(call[a].task)', call'[a].want.op = "subtask"
        PROVE  board'[call'[a].task].parent = Nobody
    <3>1. /\ Reading(a) /\ call'[a].task = call[a].task /\ call'[a].want = call[a].want
          /\ call[a].task \in Tasks
      BY <1>3, <1>5, <2>1
    <3>2. OnBoard(call[a].task)
      BY <1>1, <2>1, <3>1 DEF OnBoard
    <3> QED
      BY <1>6, <2>1, <3>1, <3>2 DEF BoardInv, PartInv
  <2> QED
    BY <2>1 DEF PartInv
<1>12. SubtasksHaveParents'
  <2>1. ASSUME NEW t \in Tasks, OnBoard(t)', board'[t].parent # Nobody
        PROVE  /\ OnBoard(board[t].parent)'
               /\ t \in byTool' => board'[board'[t].parent].parent = Nobody
    <3>1. OnBoard(t) /\ board'[t].parent = board[t].parent
      BY <1>1, <1>6, <2>1
    <3>2. board[t].parent \in Tasks
      BY <2>1, <3>1, RowOnBoard DEF Row, BoardInv, Typed
    <3>3. /\ OnBoard(board[t].parent)
          /\ t \in byTool => board[board[t].parent].parent = Nobody
      BY <2>1, <3>1 DEF BoardInv, SubtasksHaveParents
    <3>4. ASSUME NEW p \in Tasks, p = board[t].parent
          PROVE  OnBoard(p)' /\ (t \in byTool' => board'[p].parent = Nobody)
      BY <1>1, <1>4, <1>6, <3>3, <3>4
    <3> QED
      BY <3>1, <3>2, <3>4 DEF OnBoard
  <2> QED
    BY <2>1 DEF SubtasksHaveParents
<1> QED
  BY <1>7, <1>8, <1>9, <1>10, <1>11, <1>12 DEF BoardInv

LEMMA FailKeeps ==
    ASSUME BoardInv, NEW c \in Callers, Fail(c)
    PROVE  BoardInv'
<1>1. /\ call \in [Callers -> CallRecord \cup {Idle}] /\ call' = [call EXCEPT ![c] = Idle]
      /\ UNCHANGED <<board, calls, history>>
      /\ Agents \subseteq Callers /\ Web \subseteq Callers
  BY DEF BoardInv, Typed, Fail, Return, Callers
<1>2. /\ call' \in [Callers -> CallRecord \cup {Idle}]
      /\ \A d \in Callers : call'[d] = call[d] \/ ~Reading(d)'
  BY <1>1 DEF Reading, Idle
<1>3. Typed'
  BY <1>1, <1>2, TypedKept DEF BoardInv, Typed, TypeOK, history
<1>4. CheckedInv' /\ FreshInv' /\ SerialInv' /\ PartInv'
  <2>1. CheckedInv' /\ FreshInv'
    BY <1>1, <1>2 DEF BoardInv, CheckedInv, FreshInv, Reading, history
  <2>2. SerialInv'
    BY <1>1, <1>2 DEF BoardInv, SerialInv, Reading, OnBoard, history
  <2>3. PartInv'
    BY <1>1, <1>2 DEF BoardInv, PartInv, Reading, OnBoard, history
  <2> QED
    BY <2>1, <2>2, <2>3
<1>5. SubtasksHaveParents'
  BY <1>1 DEF BoardInv, SubtasksHaveParents, OnBoard, history
<1> QED
  BY <1>3, <1>4, <1>5 DEF BoardInv

\* A new row: c made it, with a call of create_subtask or in a single step.
LEMMA InsertKeeps ==
    ASSUME BoardInv, NEW c \in Callers, NEW t \in Tasks, NEW row \in Row, Insert(t, row),
           writer' = [writer EXCEPT ![t] = c],
           \/ /\ c \in Agents /\ Reading(c) /\ call[c].want.op = "subtask" /\ row.parent = call[c].task
              /\ byTool' = byTool \cup {t} /\ calls' = calls /\ call' = [call EXCEPT ![c] = Idle]
           \/ /\ calls' \in [Callers -> 0..MaxCalls] /\ UNCHANGED <<call, byTool>>
    PROVE  BoardInv'
<1>1. /\ board' \in [Tasks -> Row \cup {Unused, Deleted}]
      /\ \A u \in Tasks : u # t => board'[u] = board[u]
      /\ board[t] = Unused /\ ~OnBoard(t) /\ board'[t] = row /\ OnBoard(t)'
      /\ row.parent # Nobody => row.parent \in Tasks /\ OnBoard(row.parent)
  BY Inserts DEF BoardInv
<1>2. /\ call \in [Callers -> CallRecord \cup {Idle}] /\ writer \in [Tasks -> Callers \cup {Nobody}]
      /\ Agents \subseteq Callers /\ Web \subseteq Callers
  BY DEF BoardInv, Typed, TypeOK, Callers
<1>3. /\ call' \in [Callers -> CallRecord \cup {Idle}]
      /\ \A d \in Callers : call'[d] = call[d] \/ ~Reading(d)'
  BY <1>2 DEF Reading, Idle
<1>4. /\ t \notin byTool
      /\ \A d \in Callers : Reading(d)' => Reading(d) /\ call'[d] = call[d] /\ call[d].task \in Tasks \ {t}
  BY <1>1, <1>3, IdleOrReading DEF BoardInv, FreshInv, Reading
<1>5. /\ \A u \in Tasks : u # t => (OnBoard(u)' <=> OnBoard(u)) /\ writer'[u] = writer[u]
      /\ \A u \in Tasks : OnBoard(u) => OnBoard(u)' /\ u # t
  BY <1>1, <1>2 DEF OnBoard
<1>6. Typed'
  BY <1>1, <1>2, <1>3, TypedKept DEF BoardInv, Typed, TypeOK
<1>7. CheckedInv'
  BY <1>4 DEF BoardInv, CheckedInv, Reading
<1>8. FreshInv'
  <2>1. ASSUME NEW u \in Tasks, board'[u] = Unused
        PROVE  /\ u # t /\ board[u] = Unused /\ u \notin byTool'
               /\ \A d \in Callers : Reading(d)' => call'[d].task # u
    BY <1>1, <1>4, <2>1 DEF BoardInv, FreshInv, OnBoard
  <2> QED
    BY <2>1 DEF FreshInv
<1>9. SerialInv'
  <2>1. \A v, w \in Web : Reading(v)' /\ Reading(w)' => v = w
    BY <1>2, <1>4 DEF BoardInv, SerialInv
  <2>2. ASSUME NEW w \in Web, Reading(w)', OnBoard(call[w].task)'
        PROVE  call'[w].seen = board'[call'[w].task] \/ writer'[call'[w].task] \in Agents
    <3>1. Reading(w) /\ call'[w] = call[w] /\ call[w].task \in Tasks \ {t}
      BY <1>2, <1>4, <2>2
    <3>2. OnBoard(call[w].task)
      BY <1>1, <2>2, <3>1 DEF OnBoard
    <3> QED
      BY <1>1, <1>5, <3>1, <3>2 DEF BoardInv, SerialInv
  <2> QED
    BY <2>1, <2>2 DEF SerialInv
<1>10. PartInv'
  <2>1. ASSUME NEW a \in Agents, Reading(a)', OnBoard(call[a].task)', call'[a].want.op = "subtask"
        PROVE  board'[call'[a].task].parent = Nobody
    <3>1. Reading(a) /\ call'[a] = call[a] /\ call[a].task \in Tasks \ {t}
      BY <1>2, <1>4, <2>1
    <3>2. OnBoard(call[a].task)
      BY <1>1, <2>1, <3>1 DEF OnBoard
    <3> QED
      BY <1>1, <2>1, <3>1, <3>2 DEF BoardInv, PartInv
  <2> QED
    BY <2>1 DEF PartInv
<1>11. SubtasksHaveParents'
  <2>1. ASSUME NEW u \in Tasks, OnBoard(u)', board'[u].parent # Nobody, NEW p, p = board'[u].parent
        PROVE  OnBoard(p)' /\ (u \in byTool' => board'[p].parent = Nobody)
    <3>1. CASE u = t
      <4>1. p \in Tasks \ {t} /\ OnBoard(p) /\ p = row.parent
        BY <1>1, <2>1, <3>1
      <4>2. ASSUME t \in byTool'
            PROVE  board[p].parent = Nobody
        BY <1>4, <4>1, <4>2 DEF BoardInv, PartInv
      <4> QED
        BY <1>1, <1>5, <3>1, <4>1, <4>2
    <3>2. CASE u # t
      <4>1. OnBoard(u) /\ p = board[u].parent /\ (u \in byTool' => u \in byTool)
        BY <1>1, <1>5, <2>1, <3>2
      <4>2. p \in Tasks
        BY <2>1, <4>1, RowOnBoard DEF Row, BoardInv, Typed
      <4>3. OnBoard(p) /\ (u \in byTool => board[p].parent = Nobody)
        BY <2>1, <4>1 DEF BoardInv, SubtasksHaveParents
      <4> QED
        BY <1>1, <1>5, <4>1, <4>2, <4>3
    <3> QED
      BY <3>1, <3>2
  <2> QED
    BY <2>1 DEF SubtasksHaveParents, OnBoard
<1> QED
  BY <1>6, <1>7, <1>8, <1>9, <1>10, <1>11 DEF BoardInv

LEMMA SubtaskKeeps ==
    ASSUME BoardInv, NEW a \in Agents, CreateSubtask(a)
    PROVE  BoardInv'
<1>1. PICK t \in Tasks, hands \in Hands :
        /\ Under(a, "subtask")
        /\ Insert(t, [status |-> "TODO", hands |-> hands, parent |-> call[a].task])
        /\ writer' = [writer EXCEPT ![t] = a]
        /\ byTool' = byTool \cup {t}
        /\ Return(a)
        /\ UNCHANGED calls
  BY DEF CreateSubtask
<1> DEFINE row == [status |-> "TODO", hands |-> hands, parent |-> call[a].task]
<1>2. a \in Callers /\ Reading(a) /\ call[a].want.op = "subtask" /\ call[a].task \in Tasks
  BY <1>1, IdleOrReading DEF BoardInv, Callers, Under, Reading
<1>3. row \in Row /\ row.parent = call[a].task
  BY <1>2, NewRow
<1>4. Insert(t, row) /\ call' = [call EXCEPT ![a] = Idle]
  BY <1>1 DEF Return
<1> HIDE DEF row
<1> QED
  BY <1>1, <1>2, <1>3, <1>4, InsertKeeps

LEMMA CreateKeeps ==
    ASSUME BoardInv, NEW c \in Callers, CreateTask(c)
    PROVE  BoardInv'
<1>1. PICK t \in Tasks, hands \in Hands, parent \in Tasks \cup {Nobody} :
        /\ calls[c] < MaxCalls
        /\ Insert(t, [status |-> "TODO", hands |-> hands, parent |-> parent])
        /\ calls' = [calls EXCEPT ![c] = @ + 1]
        /\ writer' = [writer EXCEPT ![t] = c]
        /\ UNCHANGED <<call, byTool>>
  BY DEF CreateTask
<1>2. calls' \in [Callers -> 0..MaxCalls]
  BY <1>1, BoardAssumption DEF BoardInv, Typed, TypeOK
<1>3. [status |-> "TODO", hands |-> hands, parent |-> parent] \in Row
  BY NewRow
<1> QED
  BY <1>1, <1>2, <1>3, InsertKeeps

LEMMA PersonKeeps ==
    ASSUME BoardInv, NEW w \in Web, NEW t \in Tasks, PutPerson(w, t)
    PROVE  BoardInv'
<1>1. PICK hands \in Hands :
        /\ Unlocked /\ calls[w] < MaxCalls /\ OnBoard(t)
        /\ calls' = [calls EXCEPT ![w] = @ + 1]
        /\ Write(w, t, [board[t] EXCEPT !.hands = hands])
        /\ UNCHANGED <<call, byTool>>
  BY DEF PutPerson
<1> DEFINE row == [board[t] EXCEPT !.hands = hands]
<1>2. board[t] \in Row
  BY <1>1, RowOnBoard DEF BoardInv, Typed
<1>3. row \in Row /\ row.parent = board[t].parent
  BY <1>2 DEF Row
<1>4. row \notin {Unused, Deleted}
  BY <1>3 DEF Row, Statuses, Unused, Deleted, NoRow
<1>5. board' = [board EXCEPT ![t] = row] /\ writer' = [writer EXCEPT ![t] = w]
  BY <1>1 DEF Write
<1> HIDE DEF row
<1>6. /\ board \in [Tasks -> Row \cup {Unused, Deleted}] /\ writer \in [Tasks -> Callers \cup {Nobody}]
      /\ calls \in [Callers -> 0..MaxCalls] /\ w \in Callers
      /\ Agents \subseteq Callers /\ Web \subseteq Callers /\ MaxCalls \in Nat
  BY BoardAssumption DEF BoardInv, Typed, TypeOK, Callers
<1>7. /\ board' \in [Tasks -> Row \cup {Unused, Deleted}] /\ writer' \in [Tasks -> Callers \cup {Nobody}]
      /\ calls' \in [Callers -> 0..MaxCalls] /\ board'[t] = row
      /\ \A u \in Tasks : u # t => board'[u] = board[u]
  BY <1>1, <1>3, <1>5, <1>6
<1>8. /\ \A u \in Tasks : (OnBoard(u)' <=> OnBoard(u)) /\ (board'[u] = Unused <=> board[u] = Unused)
      /\ \A u \in Tasks : board'[u].parent = board[u].parent
  BY <1>1, <1>3, <1>4, <1>7 DEF OnBoard
<1>9. \A c \in Callers : Reading(c)' => /\ Reading(c) /\ call'[c] = call[c] /\ call[c].task \in Tasks
                                        /\ c \notin Web
  BY <1>1, IdleOrReading DEF Reading, Unlocked, Idle, BoardInv
<1>10. Typed'
  BY <1>1, <1>7, TypedKept DEF BoardInv, Typed, TypeOK
<1>11. CheckedInv' /\ FreshInv' /\ SerialInv'
  <2>1. CheckedInv'
    BY <1>9 DEF BoardInv, CheckedInv
  <2>2. FreshInv'
    BY <1>1, <1>8, <1>9 DEF BoardInv, FreshInv
  <2>3. SerialInv'
    BY <1>6, <1>9 DEF SerialInv
  <2> QED
    BY <2>1, <2>2, <2>3
<1>12. PartInv'
  <2>1. ASSUME NEW a \in Agents, Reading(a)', OnBoard(call[a].task)', call'[a].want.op = "subtask"
        PROVE  board'[call'[a].task].parent = Nobody
    <3>1. a \in Callers /\ Reading(a) /\ call'[a] = call[a] /\ call[a].task \in Tasks
      BY <1>6, <1>9, <2>1
    <3>2. OnBoard(call[a].task)
      BY <1>8, <2>1, <3>1 DEF OnBoard
    <3> QED
      BY <1>8, <2>1, <3>1, <3>2 DEF BoardInv, PartInv
  <2> QED
    BY <2>1 DEF PartInv
<1>13. SubtasksHaveParents'
  <2>1. ASSUME NEW u \in Tasks, OnBoard(u)', board'[u].parent # Nobody, NEW p, p = board'[u].parent
        PROVE  OnBoard(p)' /\ (u \in byTool' => board'[p].parent = Nobody)
    <3>1. OnBoard(u) /\ p = board[u].parent
      BY <1>8, <2>1
    <3>2. p \in Tasks
      BY <2>1, <3>1, RowOnBoard DEF Row, BoardInv, Typed
    <3>3. OnBoard(p) /\ (u \in byTool => board[p].parent = Nobody)
      BY <2>1, <3>1 DEF BoardInv, SubtasksHaveParents
    <3> QED
      BY <1>1, <1>8, <3>2, <3>3
  <2> QED
    BY <2>1 DEF SubtasksHaveParents, OnBoard
<1> QED
  BY <1>10, <1>11, <1>12, <1>13 DEF BoardInv

LEMMA DeleteKeeps ==
    ASSUME BoardInv, NEW w \in Web, NEW t \in Tasks, Delete(w, t)
    PROVE  BoardInv'
<1>1. /\ Unlocked /\ calls[w] < MaxCalls /\ OnBoard(t)
      /\ board' = [u \in Tasks |-> IF u \in Doomed(t) THEN Deleted ELSE board[u]]
      /\ calls' = [calls EXCEPT ![w] = @ + 1]
      /\ UNCHANGED <<call, history>>
  BY DEF Delete
<1>2. /\ board' \in [Tasks -> Row \cup {Unused, Deleted}] /\ calls' \in [Callers -> 0..MaxCalls]
      /\ Agents \subseteq Callers /\ Web \subseteq Callers
  BY <1>1, BoardAssumption DEF BoardInv, Typed, TypeOK, Callers
<1>3. Deleted # Unused
  BY DEF Deleted, Unused, NoRow
<1>4. \A u \in Tasks : /\ OnBoard(u)' => u \notin Doomed(t) /\ board'[u] = board[u] /\ OnBoard(u)
                       /\ board'[u] = Unused => board[u] = Unused
                       /\ (OnBoard(u) /\ u \notin Doomed(t)) => board'[u] = board[u] /\ OnBoard(u)'
  BY <1>1, <1>3 DEF OnBoard
<1>5. \A c \in Callers : Reading(c)' => /\ Reading(c) /\ call'[c] = call[c] /\ call[c].task \in Tasks
                                        /\ c \notin Web
  BY <1>1, IdleOrReading DEF Reading, Unlocked, Idle, BoardInv
<1>6. Typed'
  BY <1>1, <1>2, TypedKept DEF BoardInv, Typed, TypeOK, history
<1>7. CheckedInv' /\ FreshInv' /\ SerialInv'
  <2>1. CheckedInv'
    BY <1>5 DEF BoardInv, CheckedInv
  <2>2. FreshInv'
    BY <1>1, <1>4, <1>5 DEF BoardInv, FreshInv, history
  <2>3. SerialInv'
    BY <1>2, <1>5 DEF SerialInv
  <2> QED
    BY <2>1, <2>2, <2>3
<1>8. PartInv'
  <2>1. ASSUME NEW a \in Agents, Reading(a)', OnBoard(call[a].task)', call'[a].want.op = "subtask"
        PROVE  board'[call'[a].task].parent = Nobody
    <3>1. Reading(a) /\ call'[a] = call[a] /\ call[a].task \in Tasks
      BY <1>2, <1>5, <2>1
    <3>2. OnBoard(call[a].task) /\ board'[call[a].task] = board[call[a].task]
      BY <1>4, <2>1, <3>1 DEF OnBoard
    <3> QED
      BY <2>1, <3>1, <3>2 DEF BoardInv, PartInv
  <2> QED
    BY <2>1 DEF PartInv
\* What is below a deleted task is deleted with it, and nothing else's parent goes.
<1>9. SubtasksHaveParents'
  <2>1. ASSUME NEW u \in Tasks, OnBoard(u)', board'[u].parent # Nobody, NEW p, p = board'[u].parent
        PROVE  OnBoard(p)' /\ (u \in byTool' => board'[p].parent = Nobody)
    <3>1. OnBoard(u) /\ p = board[u].parent /\ u \notin Doomed(t)
      BY <1>4, <2>1
    <3>2. p \in Tasks
      BY <2>1, <3>1, RowOnBoard DEF Row, BoardInv, Typed
    <3>3. OnBoard(p) /\ (u \in byTool => board[p].parent = Nobody)
      BY <2>1, <3>1 DEF BoardInv, SubtasksHaveParents
    <3>4. p \notin Doomed(t)
      <4>1. PICK S \in SUBSET Tasks : t \in S /\ Closed(S) /\ u \notin S
        BY <3>1 DEF Doomed
      <4>2. p \notin S
        BY <3>1, <4>1 DEF Closed
      <4> QED
        BY <4>1, <4>2 DEF Doomed
    <3> QED
      BY <1>1, <1>4, <3>2, <3>3, <3>4 DEF history
  <2> QED
    BY <2>1 DEF SubtasksHaveParents, OnBoard
<1> QED
  BY <1>6, <1>7, <1>8, <1>9 DEF BoardInv

\* Nothing but a call that moves changes the status of a task that stays on the board.
LEMMA StatusKept ==
    ASSUME Typed, NEW t \in Tasks, OnBoard(t), OnBoard(t)',
           \/ \E c \in Callers : Looks(c) \/ Fail(c) \/ CreateTask(c)
           \/ \E a \in Agents : CreateSubtask(a)
           \/ \E w \in Web : \E u \in Tasks : PutPerson(w, u) \/ Delete(w, u)
    PROVE  board'[t].status = board[t].status
<1>1. ASSUME NEW c \in Callers, Looks(c) \/ Fail(c)
      PROVE  board' = board
  BY <1>1 DEF Looks, Reads, Fail
<1>2. ASSUME NEW u \in Tasks, NEW row, Insert(u, row)
      PROVE  board'[t] = board[t]
  <2>1. u # t
    BY <1>2 DEF Insert, OnBoard
  <2> QED
    BY <1>2, <2>1 DEF Insert, Typed, TypeOK
<1>3. ASSUME NEW w \in Web, NEW u \in Tasks, PutPerson(w, u)
      PROVE  board'[t].status = board[t].status
  <2>1. PICK hands \in Hands : OnBoard(u) /\ Write(w, u, [board[u] EXCEPT !.hands = hands])
    BY <1>3 DEF PutPerson
  <2>2. board[u] \in Row /\ board \in [Tasks -> Row \cup {Unused, Deleted}]
    BY <2>1, RowOnBoard DEF Typed, TypeOK
  <2> DEFINE row == [board[u] EXCEPT !.hands = hands]
  <2>3. row.status = board[u].status
    BY <2>2 DEF Row
  <2>4. board' = [board EXCEPT ![u] = row]
    BY <2>1 DEF Write
  <2> HIDE DEF row
  <2> QED
    BY <2>2, <2>3, <2>4
<1>4. ASSUME NEW w \in Web, NEW u \in Tasks, Delete(w, u)
      PROVE  board'[t] = board[t]
  BY <1>4 DEF Delete, OnBoard
<1> QED
  BY <1>1, <1>2, <1>3, <1>4 DEF CreateSubtask, CreateTask

-----------------------------------------------------------------------------
(* The theorems.                                                           *)

LEMMA InitHolds == BoardInit => BoardInv
<1> SUFFICES ASSUME BoardInit
             PROVE  BoardInv
  OBVIOUS
<1>1. PICK row \in Row : /\ row.parent = Nobody
                         /\ board = [t \in Tasks |-> IF t = First THEN row ELSE Unused]
  BY DEF BoardInit
<1>2. \A c \in Callers : call[c] = Idle /\ ~Reading(c)
  BY DEF BoardInit, Reading, Idle
<1>3. \A t \in Tasks : OnBoard(t) => board[t].parent = Nobody
  BY <1>1 DEF OnBoard
<1>4. Typed
  BY <1>1, <1>2, BoardAssumption DEF BoardInit, Typed, TypeOK
<1>5. CheckedInv /\ SerialInv /\ PartInv
  BY <1>2 DEF CheckedInv, SerialInv, PartInv, Callers
<1>6. FreshInv
  BY <1>2 DEF BoardInit, FreshInv
<1>7. SubtasksHaveParents
  BY <1>3 DEF SubtasksHaveParents
<1> QED
  BY <1>4, <1>5, <1>6, <1>7 DEF BoardInv

LEMMA NextHolds == BoardInv /\ [BoardNext]_vars => BoardInv'
<1> SUFFICES ASSUME BoardInv, [BoardNext]_vars
             PROVE  BoardInv'
  OBVIOUS
<1>1. CASE BoardNext
  <2>1. \/ \E c \in Callers : Looks(c) \/ Moves(c) \/ Fail(c) \/ CreateTask(c)
        \/ \E a \in Agents : CreateSubtask(a)
        \/ \E w \in Web : \E t \in Tasks : PutPerson(w, t) \/ Delete(w, t)
    BY <1>1, Shapes DEF BoardInv
  <2> QED
    BY <2>1, LooksKeeps, MovesKeeps, FailKeeps, SubtaskKeeps, CreateKeeps, PersonKeeps, DeleteKeeps
<1>2. CASE UNCHANGED vars
  <2>1. UNCHANGED <<board, call, calls, writer, byTool>>
    BY <1>2 DEF vars, history
  <2>2. Typed' /\ CheckedInv'
    BY <2>1 DEF BoardInv, Typed, TypeOK, CheckedInv, Reading
  <2>3. FreshInv' /\ SerialInv'
    BY <2>1 DEF BoardInv, FreshInv, SerialInv, Reading, OnBoard
  <2>4. PartInv' /\ SubtasksHaveParents'
    BY <2>1 DEF BoardInv, PartInv, SubtasksHaveParents, Reading, OnBoard
  <2> QED
    BY <2>2, <2>3, <2>4 DEF BoardInv
<1> QED
  BY <1>1, <1>2

LEMMA Always == BoardSpec => []BoardInv
  BY InitHolds, NextHolds, PTL DEF BoardSpec

\* Every variable keeps its type: the rows, the calls and the histories.
THEOREM BoardTypeCorrect == BoardSpec => []TypeOK
<1>1. BoardInv => TypeOK
  BY DEF BoardInv, Typed
<1> QED
  BY <1>1, Always, PTL

\* A subtask is on the board only with its parent, and create_subtask stays one level
\* deep, whatever is deleted between its read and its insert: the foreign key and the
\* cascade see to the first, and no row ever changes its parent.
THEOREM ParentsStay == BoardSpec => []SubtasksHaveParents
<1>1. BoardInv => SubtasksHaveParents
  BY DEF BoardInv
<1> QED
  BY <1>1, Always, PTL

\* validate_transition is broken by no call whose row is the one it has read.
THEOREM MovesAreLegalOrRaces == BoardSpec => IllegalMovesAreRaces
<1> DEFINE Legal == \A t \in Tasks :
                       (OnBoard(t) /\ OnBoard(t)' /\ board'[t].status # board[t].status)
                           => \/ ValidTransition(board[t].status, board'[t].status)
                              \/ \E c \in Callers : WritesOver(c, t)
<1>1. BoardInv /\ [BoardNext]_vars => [Legal]_vars
  <2> SUFFICES ASSUME BoardInv, BoardNext,
                      NEW t \in Tasks, OnBoard(t), OnBoard(t)', board'[t].status # board[t].status
               PROVE  \/ ValidTransition(board[t].status, board'[t].status)
                      \/ \E c \in Callers : WritesOver(c, t)
    OBVIOUS
  <2>1. \/ \E c \in Callers : Looks(c) \/ Moves(c) \/ Fail(c) \/ CreateTask(c)
        \/ \E a \in Agents : CreateSubtask(a)
        \/ \E w \in Web : \E u \in Tasks : PutPerson(w, u) \/ Delete(w, u)
    BY Shapes DEF BoardInv
  <2>2. ASSUME NEW c \in Callers, Moves(c)
        PROVE  ValidTransition(board[t].status, board'[t].status) \/ WritesOver(c, t)
    <3>1. /\ t = call[c].task
          /\ call[c].seen = board[t] => ValidTransition(board[t].status, board'[t].status)
      BY <2>2, MovesRows DEF BoardInv, Rewritten
    <3>2. Reading(c) /\ call'[c] # call[c]
      BY <2>2, MovesCalls DEF Moves, BoardInv
    <3> QED
      BY <3>1, <3>2 DEF WritesOver, Reading
  <2> QED
    BY <2>1, <2>2, StatusKept DEF BoardInv
<1> QED
  BY <1>1, Always, PTL DEF BoardSpec, IllegalMovesAreRaces

\* A task that awaits a review is taken to DONE by nothing that agents do but a review,
\* except by a call that had read it when it did not await one: neither
\* update_task_status nor complete_subtask gets round review_task.
THEOREM ReviewsStay == BoardSpec => ReviewsAreNotSkipped
<1> DEFINE Kept == \A t \in Tasks :
                      (OnBoard(t) /\ AwaitsReview(board[t]) /\ board'[t].status = "DONE")
                          => \E c \in Callers :
                                 /\ call[c].at = "read" /\ call[c].task = t /\ call'[c] # call[c]
                                 /\ c \in Web \/ call[c].want.op = "review" \/ ~AwaitsReview(call[c].seen)
<1>1. BoardInv /\ [BoardNext]_vars => [Kept]_vars
  <2> SUFFICES ASSUME BoardInv, BoardNext,
                      NEW t \in Tasks, OnBoard(t), AwaitsReview(board[t]), board'[t].status = "DONE"
               PROVE  \E c \in Callers :
                          /\ call[c].at = "read" /\ call[c].task = t /\ call'[c] # call[c]
                          /\ c \in Web \/ call[c].want.op = "review" \/ ~AwaitsReview(call[c].seen)
    OBVIOUS
  <2>1. board'[t].status # board[t].status /\ OnBoard(t)'
    BY DEF AwaitsReview, OnBoard, Unused, Deleted, NoRow
  <2>2. \/ \E c \in Callers : Looks(c) \/ Moves(c) \/ Fail(c) \/ CreateTask(c)
        \/ \E a \in Agents : CreateSubtask(a)
        \/ \E w \in Web : \E u \in Tasks : PutPerson(w, u) \/ Delete(w, u)
    BY Shapes DEF BoardInv
  <2>3. PICK c \in Callers : Moves(c)
    BY <2>1, <2>2, StatusKept DEF BoardInv
  <2>4. t = call[c].task /\ Rewritten(c, board[t], board'[t])
    BY <2>1, <2>3, MovesRows DEF BoardInv
  <2>5. Reading(c) /\ call'[c] # call[c]
    BY <2>3, MovesCalls DEF Moves, BoardInv
  <2>6. c \in Web \/ call[c].want.op = "review" \/ ~AwaitsReview(call[c].seen)
    BY <2>4, Parted DEF Rewritten
  <2> QED
    BY <2>4, <2>5, <2>6 DEF Reading
<1> QED
  BY <1>1, Always, PTL DEF BoardSpec, ReviewsAreNotSkipped

\* The lock of the shared configuration serialises the handlers of the gateway: a
\* row that has changed under one of them was changed by a tool.
THEOREM HandlersSerial == BoardSpec => HandlersAreSerial
<1> DEFINE Serial == \A t \in Tasks, w \in Web :
                        (OnBoard(t) /\ WritesOver(w, t)) => writer[t] \in Agents
<1>1. BoardInv /\ [BoardNext]_vars => [Serial]_vars
  BY DEF BoardInv, SerialInv, WritesOver, Reading
<1> QED
  BY <1>1, Always, PTL DEF BoardSpec, HandlersAreSerial
=============================================================================
