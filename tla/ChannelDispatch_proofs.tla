------------------------ MODULE ChannelDispatch_proofs ------------------------
(***************************************************************************)
(* Proofs about ChannelDispatch for every set of messages and every number *)
(* of permits: the type invariant; that two turns of one sender overlap    *)
(* only after a wait for the previous turn timed out; that permits and     *)
(* refcounts balance, and so a bus clear never meets a turn under way;     *)
(* and that interruption and the drain leave nobody without a reason.      *)
(***************************************************************************)
EXTENDS ChannelDispatch, FiniteSetTheorems, TLAPS

USE DEF Conv, Scope

\* The type invariant is inductive as it stands.
LEMMA TypeInit == ChannelDispatchInit => TypeOK
<1> SUFFICES ASSUME ChannelDispatchInit PROVE TypeOK
  OBVIOUS
<1> USE DEF ChannelDispatchInit
<1>1. arrivals \in Seq(Messages) /\ taken \in 0..Len(arrivals)
  OBVIOUS
<1>2. permits \in Nat /\ reg \in [Messages -> Nat] /\ counts \in [Conversations -> Nat]
  BY PermitsAssumption
<1>3. incidents \in [Messages -> SUBSET Incidents] /\ notified \in SUBSET Conversations
  OBVIOUS
<1>4. pc \in [Messages -> Phases] /\ end \in [Messages -> TurnEnds] /\ loop \in LoopPhases
  BY DEF Phases, TurnEnds, LoopPhases
<1>5. QED
  BY <1>1, <1>2, <1>3, <1>4 DEF TypeOK

\* Steps of the environment and of the loop task keep the types.
LEMMA TypeLoop ==
  ASSUME TypeOK, LoopStep \/ ReceiveApprovalReply \/ Environment \/ Stopped
  PROVE  TypeOK'
<1> USE MessagesAssumption DEF Phases, LoopPhases, Goto
<1>0. HasQueued => arrivals[taken + 1] \in Messages /\ taken + 1 \in 0..Len(arrivals)
  BY DEF HasQueued, TypeOK
<1>1. CASE ReceiveMessage
  BY <1>0, <1>1 DEF ReceiveMessage, TypeOK, signalVars, mapVars
<1>2. CASE AckSent
  BY <1>2 DEF AckSent, TypeOK, signalVars, mapVars
<1>3. CASE SpawnWorker
  <2>1. permits' \in Nat
    BY <1>3 DEF SpawnWorker, TypeOK
  <2>2. pc' \in [Messages -> Phases]
    BY <1>3 DEF SpawnWorker, TypeOK
  <2>3. QED
    BY <1>3, <2>1, <2>2 DEF SpawnWorker, TypeOK, signalVars, mapVars
<1>4. CASE ShutdownWhileHeld
  BY <1>4 DEF ShutdownWhileHeld, TypeOK, signalVars, mapVars
<1>5. CASE ShutdownWhileReceiving
  BY <1>5 DEF ShutdownWhileReceiving, TypeOK, signalVars, mapVars
<1>6. CASE CloseAndNotifyQueued
  BY <1>6 DEF CloseAndNotifyQueued, TypeOK, signalVars, mapVars
<1>7. CASE QueueEnded
  BY <1>7 DEF QueueEnded, TypeOK, signalVars, mapVars
<1>8. CASE DrainDeadline
  BY <1>8 DEF DrainDeadline, TypeOK, signalVars, mapVars
<1>9. CASE AllJoined
  BY <1>9 DEF AllJoined, TypeOK, signalVars, mapVars
<1>10. CASE ReceiveApprovalReply
  BY <1>0, <1>10 DEF ReceiveApprovalReply, TypeOK, signalVars, mapVars
<1>11. CASE Environment
  <2>1. ASSUME NEW m \in Messages, Arrive(m) PROVE TypeOK'
    BY <2>1 DEF Arrive, TypeOK, signalVars, mapVars
  <2>2. CASE SendersGone
    BY <2>2 DEF SendersGone, TypeOK, signalVars, mapVars
  <2>3. CASE RequestShutdown
    BY <2>3 DEF RequestShutdown, TypeOK, signalVars, mapVars
  <2>4. ASSUME NEW c \in Conversations, BusDrop(c) PROVE TypeOK'
    BY <2>4 DEF BusDrop, TypeOK, loopVars, signalVars, mapVars
  <2>5. QED BY <1>11, <2>1, <2>2, <2>3, <2>4 DEF Environment
<1>12. CASE Stopped
  BY <1>12 DEF Stopped, TypeOK, vars, loopVars, signalVars, mapVars
<1>13. QED
  BY <1>1, <1>2, <1>3, <1>4, <1>5, <1>6, <1>7, <1>8, <1>9, <1>10, <1>11, <1>12 DEF LoopStep

\* Steps of a worker and of a notice task keep the types.
LEMMA TypeWorker ==
  ASSUME TypeOK, NEW m \in Messages, WorkerStep(m) \/ ModelCompletes(m) \/ WorkerChance(m)
  PROVE  TypeOK'
<1> USE MessagesAssumption DEF Phases, TurnEnds, Goto, loopVars, signalVars, mapVars
<1>1. CASE StartWorker(m)
  <2>1. counts' \in [Conversations -> Nat]
    BY <1>1 DEF StartWorker, TypeOK
  <2>2. pc' \in [Messages -> Phases]
    BY <1>1 DEF StartWorker, TypeOK
  <2>3. QED BY <1>1, <2>1, <2>2 DEF StartWorker, TypeOK
<1>2. CASE Register(m)
  <2>1. active[Scope(m)] \in Messages \cup {NoMessage}
    BY DEF TypeOK
  <2>2. regs' \in Nat /\ reg' \in [Messages -> Nat]
    BY <1>2 DEF Register, TypeOK
  <2>3. /\ active' \in [Scopes -> Messages \cup {NoMessage}]
        /\ prev' \in [Messages -> Messages \cup {NoMessage}]
        /\ cancelled' \in [Messages -> BOOLEAN]
        /\ pc' \in [Messages -> Phases]
    BY <1>2, <2>1 DEF Register, TypeOK
  <2>4. QED BY <1>2, <2>2, <2>3 DEF Register, TypeOK
<1>3. CASE PreviousDone(m)
  BY <1>3 DEF PreviousDone, TypeOK
<1>4. CASE StopTurn(m)
  BY <1>4 DEF StopTurn, TypeOK
<1>5. CASE TurnNotStarted(m)
  BY <1>5 DEF TurnNotStarted, EndTurn, TypeOK
<1>6. CASE TurnBegins(m)
  BY <1>6 DEF TurnBegins, TypeOK
<1>7. CASE TurnFinishes(m)
  BY <1>7 DEF TurnFinishes, Close, EndTurn, TypeOK
<1>8. CASE TurnCancelled(m)
  BY <1>8 DEF TurnCancelled, EndTurn, TypeOK
<1>9. CASE SettleEnd(m)
  <2>1. \E phase \in {"notify", "unmap"} : pc' = [pc EXCEPT ![m] = phase]
    BY <1>9 DEF SettleEnd, ClaimNotice
  <2> pc' \in [Messages -> Phases]
    BY <2>1 DEF TypeOK
  <2> ConversationOf[m] \in Conversations
    OBVIOUS
  <2>4. notified' = notified \/ notified' = notified \cup {ConversationOf[m]}
    BY <1>9 DEF SettleEnd, ClaimNotice
  <2> notified' \in SUBSET Conversations
    BY <2>4 DEF TypeOK
  <2>2. \E row \in {"none", "open", "closed"} : rows' = [rows EXCEPT ![m] = row]
    BY <1>9 DEF SettleEnd, Close, TypeOK
  <2> rows' \in [Messages -> {"none", "open", "closed"}]
    BY <2>2 DEF TypeOK
  <2>3. QED BY <1>9 DEF SettleEnd, TypeOK
<1>10. CASE WorkerNoticeSent(m)
  BY <1>10 DEF WorkerNoticeSent, TypeOK
<1>11. CASE Unmap(m)
  BY <1>11 DEF Unmap, EntryIsMine, TypeOK
<1>12. CASE DropCount(m)
  <2>1. counts' \in [Conversations -> Nat]
    BY <1>12 DEF DropCount, TypeOK
  <2>2. pc' \in [Messages -> Phases]
    BY <1>12 DEF DropCount, TypeOK
  <2>3. QED BY <1>12, <2>1, <2>2 DEF DropCount, TypeOK
<1>13. CASE SignalDone(m)
  BY <1>13 DEF SignalDone, TypeOK
<1>14. CASE ReleasePermit(m)
  <2>1. permits' \in Nat
    BY <1>14 DEF ReleasePermit, TypeOK
  <2>2. pc' \in [Messages -> Phases]
    BY <1>14 DEF ReleasePermit, TypeOK
  <2>3. QED BY <1>14, <2>1, <2>2 DEF ReleasePermit, TypeOK
<1>15. CASE NoticeTaskClaims(m)
  BY <1>15 DEF NoticeTaskClaims, ClaimNotice, TypeOK
<1>16. CASE NoticeTaskSent(m)
  BY <1>16 DEF NoticeTaskSent, TypeOK
<1>17. CASE ModelCompletes(m)
  BY <1>17 DEF ModelCompletes, TypeOK
<1>18. CASE WorkerChance(m)
  <2> USE DEF Befell, Incidents
  <2>1. CASE PreviousTimedOut(m) BY <2>1 DEF PreviousTimedOut, TypeOK
  <2>2. CASE TurnRevoked(m) BY <2>2 DEF TurnRevoked, EndTurn, TypeOK
  <2>3. CASE TurnAnsweredInPlace(m) BY <2>3 DEF TurnAnsweredInPlace, EndTurn, TypeOK
  <2>4. CASE ApprovalDenied(m) BY <2>4 DEF ApprovalDenied, TypeOK
  <2>5. CASE TurnPanics(m) BY <2>5 DEF TurnPanics, TypeOK
  <2>6. CASE TurnClearsHistory(m) BY <2>6 DEF TurnClearsHistory, EndTurn, TypeOK
  <2>7. QED BY <1>18, <2>1, <2>2, <2>3, <2>4, <2>5, <2>6 DEF WorkerChance
<1>19. QED
  BY <1>1, <1>2, <1>3, <1>4, <1>5, <1>6, <1>7, <1>8, <1>9, <1>10, <1>11, <1>12, <1>13,
     <1>14, <1>15, <1>16, <1>17, <1>18 DEF WorkerStep

LEMMA TypeStep == TypeOK /\ [ChannelDispatchNext]_vars => TypeOK'
<1>1. ASSUME TypeOK, ChannelDispatchNext PROVE TypeOK'
  BY <1>1, TypeLoop, TypeWorker DEF ChannelDispatchNext
<1>2. ASSUME TypeOK, UNCHANGED vars PROVE TypeOK'
  BY <1>2 DEF TypeOK, vars, loopVars, signalVars, mapVars
<1>3. QED
  BY <1>1, <1>2

\* Every variable of the dispatch loop keeps its type in every behaviour.
THEOREM DispatchTypeCorrect == ChannelDispatchSpec => []TypeOK
<1>1. QED
  BY TypeInit, TypeStep, PTL DEF ChannelDispatchSpec

-----------------------------------------------------------------------------
(***************************************************************************)
(* The overlap invariant.  All actions but three leave every worker on the *)
(* same side of its registration and of its wait, and turns that are over  *)
(* stay over; such a step keeps the chain of registrants as it is.  The    *)
(* three that move a worker across are Register, PreviousDone and Unmap.   *)
(***************************************************************************)
ChainInv == RegistrationInv /\ MapInv /\ WaitInv

SameWaits ==
    /\ \A n \in Messages : pc'[n] = "waiting" <=> pc[n] = "waiting"
    /\ \A n \in Interruptible : PastWait(n)' <=> PastWait(n)
    /\ \A n \in Messages : TurnOver(n) => TurnOver(n)'
    /\ \A n \in Messages : pc'[n] = "counted" => n \in Interruptible
    /\ \A n \in Messages : done'[n] => TurnOver(n)'
    /\ \A s \in Scopes : ScopeTimedOut(s) => ScopeTimedOut(s)'

LEMMA ChainQuiet ==
  ASSUME TypeOK, ChainInv, SameWaits, UNCHANGED mapVars
  PROVE  ChainInv'
<1> USE MessagesAssumption DEF mapVars, Registered, Earlier
<1>1. RegistrationInv'
  BY DEF ChainInv, RegistrationInv, SameWaits
<1>2. MapInv'
  BY DEF ChainInv, MapInv, SameWaits
<1>3. WaitInv'
  <2>1. ASSUME NEW s \in Scopes, active'[s] = NoMessage, ~ScopeTimedOut(s)',
               NEW n \in Messages, Registered(n)', Scope(n) = s
        PROVE  TurnOver(n)'
    BY <2>1 DEF ChainInv, WaitInv, SameWaits
  <2>2. ASSUME NEW m \in Messages, Registered(m)', PastWait(m)', ~ScopeTimedOut(Scope(m))',
               NEW n \in Messages, Earlier(n, m)'
        PROVE  TurnOver(n)'
    <3>1. Registered(m) /\ Earlier(n, m) /\ Scope(m) \in Scopes
      BY <2>2
    <3>2. m \in Interruptible
      BY <3>1, <2>2, <1>1, Zenon DEF RegistrationInv, ChainInv, SameWaits
    <3>3. PastWait(m) /\ ~ScopeTimedOut(Scope(m))
      BY <2>2, <3>1, <3>2 DEF SameWaits
    <3>4. QED
      BY <3>1, <3>3 DEF ChainInv, WaitInv, SameWaits
  <2>3. QED
    BY <2>1, <2>2 DEF WaitInv
<1>4. QED
  BY <1>1, <1>2, <1>3 DEF ChainInv

\* The message at the head of the queue, or held by the loop, has no worker yet:
\* what the loop does to it leaves every worker alone.
LEMMA LoopKeepsWaits ==
  ASSUME TypeOK, TypeOK', QueueInv, ChainInv, UNCHANGED <<done, incidents>>,
         \A n \in Messages :
            \/ pc'[n] = pc[n]
            \/ /\ pc[n] \in {"idle", "queued", "held", "acking"}
               /\ pc'[n] \in {"queued", "held", "acking", "replied", "spawned", "unstarted"}
  PROVE  SameWaits
<1>1. \A n \in Messages : ~TurnOver(n) => ~done[n]
  BY DEF ChainInv, RegistrationInv
<1>2. QED
  BY <1>1, MessagesAssumption
     DEF SameWaits, PastWait, TurnOver, ScopeTimedOut, ChainInv, RegistrationInv

LEMMA LoopStepKeepsInv ==
  ASSUME TypeOK, TypeOK', QueueInv, ChainInv,
         LoopStep \/ ReceiveApprovalReply \/ Environment \/ Stopped
  PROVE  QueueInv' /\ ChainInv'
<1> USE DEF Goto, HasQueued
<1> SUFFICES /\ QueueInv' /\ UNCHANGED <<done, incidents, mapVars>>
             /\ \A n \in Messages :
                  \/ pc'[n] = pc[n]
                  \/ /\ pc[n] \in {"idle", "queued", "held", "acking"}
                     /\ pc'[n] \in {"queued", "held", "acking", "replied", "spawned", "unstarted"}
  BY LoopKeepsWaits, ChainQuiet
<1>0. HasQueued => /\ arrivals[taken + 1] \in Messages /\ pc[arrivals[taken + 1]] = "queued"
                   /\ taken + 1 \in (taken + 1)..Len(arrivals)
  BY DEF TypeOK, QueueInv
<1>1. CASE ReceiveMessage \/ ReceiveApprovalReply
  <2>1. \A i \in (taken + 2)..Len(arrivals) :
           /\ arrivals[i] \in Messages /\ arrivals[i] # arrivals[taken + 1]
           /\ i \in (taken + 1)..Len(arrivals)
    BY <1>0, <1>1 DEF TypeOK, QueueInv, ReceiveMessage, ReceiveApprovalReply
  <2> DEFINE h == arrivals[taken + 1]
  <2>a. /\ HasQueued /\ taken' = taken + 1 /\ held' = h /\ UNCHANGED arrivals
        /\ \/ loop' = "permit" /\ pc' = [pc EXCEPT ![h] = "held"]
           \/ loop' = "acking" /\ pc' = [pc EXCEPT ![h] = "acking"]
    BY <1>1 DEF ReceiveMessage, ReceiveApprovalReply
  <2>b. \A i \in (taken' + 1)..Len(arrivals') : pc'[arrivals'[i]] = "queued"
    <3>1. TAKE i \in (taken' + 1)..Len(arrivals')
    <3>2. i \in (taken + 2)..Len(arrivals)
      BY <2>a DEF TypeOK
    <3>3. arrivals[i] \in Messages /\ arrivals[i] # h /\ pc[arrivals[i]] = "queued"
      BY <2>1, <3>2 DEF QueueInv
    <3>4. QED
      BY <2>a, <3>3 DEF TypeOK
  <2>c. \A i, j \in (taken' + 1)..Len(arrivals') : arrivals'[i] = arrivals'[j] => i = j
    <3>1. \A i \in (taken' + 1)..Len(arrivals') : i \in (taken + 1)..Len(arrivals)
      BY <2>a DEF TypeOK
    <3>2. QED
      BY <2>a, <3>1 DEF QueueInv
  <2>d. pc[h] = "queued" /\ h \in Messages
    BY <2>a, <1>0
  <2>2. QueueInv'
    BY <2>a, <2>b, <2>c, <2>d DEF QueueInv, TypeOK
  <2>3. QED
    BY <1>0, <1>1, <2>2 DEF TypeOK, ReceiveMessage, ReceiveApprovalReply, signalVars, mapVars
<1>2. CASE AckSent
  <2>1. held \in Messages /\ pc[held] = "acking"
    BY <1>2 DEF AckSent, QueueInv
  <2>2. QueueInv'
    BY <1>2, <2>1 DEF AckSent, TypeOK, QueueInv
  <2>3. QED
    BY <1>2, <2>1, <2>2 DEF AckSent, TypeOK, signalVars, mapVars
<1>3. CASE SpawnWorker
  BY <1>3 DEF SpawnWorker, TypeOK, QueueInv, signalVars, mapVars
<1>4. CASE ShutdownWhileHeld
  BY <1>4 DEF ShutdownWhileHeld, TypeOK, QueueInv, signalVars, mapVars
<1>5. CASE ShutdownWhileReceiving
  BY <1>5 DEF ShutdownWhileReceiving, TypeOK, QueueInv, signalVars, mapVars
<1>6. CASE CloseAndNotifyQueued
  <2>1. \A n \in Queued : n \in Messages /\ pc[n] = "queued"
    BY DEF Queued, QueueInv, TypeOK
  <2>2. QED
    BY <1>6, <2>1 DEF CloseAndNotifyQueued, TypeOK, QueueInv, signalVars, mapVars
<1>7. CASE QueueEnded
  BY <1>7 DEF QueueEnded, TypeOK, QueueInv, signalVars, mapVars
<1>8. CASE DrainDeadline
  BY <1>8 DEF DrainDeadline, TypeOK, QueueInv, signalVars, mapVars
<1>9. CASE AllJoined
  BY <1>9 DEF AllJoined, TypeOK, QueueInv, signalVars, mapVars
<1>10. ASSUME NEW m \in Messages, Arrive(m)
       PROVE  /\ QueueInv' /\ UNCHANGED <<done, incidents, mapVars>>
              /\ pc' = [pc EXCEPT ![m] = "queued"] /\ pc[m] = "idle"
  <2>1. \A i \in (taken + 1)..Len(arrivals) : arrivals[i] \in Messages /\ arrivals[i] # m
    <3>1. \A i \in (taken + 1)..Len(arrivals) : arrivals[i] \in Messages
      BY DEF TypeOK
    <3>2. pc[m] = "idle"
      BY <1>10 DEF Arrive
    <3>3. QED
      BY <3>1, <3>2 DEF QueueInv
  <2>2. /\ Len(arrivals') = Len(arrivals) + 1
        /\ \A i \in 1..Len(arrivals) : arrivals'[i] = arrivals[i]
        /\ arrivals'[Len(arrivals) + 1] = m
    <3>1. arrivals \in Seq(Messages) /\ arrivals' = Append(arrivals, m)
      BY <1>10 DEF Arrive, TypeOK
    <3>2. QED
      BY <3>1
  <2>3. \A i \in (taken + 1)..Len(arrivals)' :
           pc'[arrivals'[i]] = "queued" /\ (i = Len(arrivals) + 1 \/ i \in (taken + 1)..Len(arrivals))
    <3>1. TAKE i \in (taken + 1)..Len(arrivals)'
    <3>2. taken \in Nat /\ Len(arrivals) \in Nat /\ pc' = [pc EXCEPT ![m] = "queued"]
      BY <1>10 DEF Arrive, TypeOK
    <3>3. i = Len(arrivals) + 1 \/ i \in (taken + 1)..Len(arrivals)
      BY <2>2, <3>2
    <3>4. CASE i \in (taken + 1)..Len(arrivals)
      <4>1. arrivals'[i] = arrivals[i] /\ arrivals[i] \in Messages /\ pc[arrivals[i]] = "queued"
        BY <2>1, <2>2, <3>2, <3>4 DEF QueueInv
      <4>2. QED
        BY <2>1, <3>2, <3>4, <4>1 DEF TypeOK
    <3>5. CASE i = Len(arrivals) + 1
      BY <2>2, <3>2, <3>5 DEF TypeOK
    <3>6. QED
      BY <3>3, <3>4, <3>5
  <2>4. \A i, j \in (taken + 1)..Len(arrivals)' : arrivals'[i] = arrivals'[j] => i = j
    <3>1. TAKE i, j \in (taken + 1)..Len(arrivals)'
    <3>2. HAVE arrivals'[i] = arrivals'[j]
    <3>3. taken \in Nat /\ Len(arrivals) \in Nat
      BY DEF TypeOK
    <3>4. CASE i \in (taken + 1)..Len(arrivals) /\ j \in (taken + 1)..Len(arrivals)
      BY <2>2, <3>2, <3>3, <3>4 DEF QueueInv
    <3>5. CASE i = Len(arrivals) + 1 \/ j = Len(arrivals) + 1
      BY <2>1, <2>2, <2>3, <3>2, <3>3, <3>5
    <3>6. QED
      BY <2>3, <3>4, <3>5
  <2>5. QED
    BY <1>10, <2>3, <2>4 DEF Arrive, QueueInv, TypeOK, signalVars, mapVars
<1>11. CASE Environment
  <2>1. CASE SendersGone
    BY <2>1 DEF SendersGone, TypeOK, QueueInv, signalVars, mapVars
  <2>2. CASE RequestShutdown
    BY <2>2 DEF RequestShutdown, TypeOK, QueueInv, signalVars, mapVars
  <2>3. ASSUME NEW c \in Conversations, BusDrop(c)
        PROVE  QueueInv' /\ UNCHANGED <<pc, done, incidents, mapVars>>
    BY <2>3 DEF BusDrop, TypeOK, QueueInv, signalVars, mapVars, loopVars
  <2>4. QED
    BY <1>10, <1>11, <2>1, <2>2, <2>3 DEF Environment, TypeOK
<1>12. CASE Stopped
  BY <1>12 DEF Stopped, QueueInv, vars, loopVars, signalVars, mapVars
<1>13. QED
  BY <1>1, <1>2, <1>3, <1>4, <1>5, <1>6, <1>7, <1>8, <1>9, <1>11, <1>12 DEF LoopStep

\* The moves of one worker that cross neither its registration nor its wait.
QuietMove(m, p, q) ==
    \/ p = q /\ p \notin {"queued", "held", "acking"}
    \/ p = "spawned" /\ q = (IF m \in Interruptible THEN "counted" ELSE "ready")
    \/ p = "ready" /\ q \in {"turn", "ended", "unwind"}
    \/ p \in {"turn", "reply"} /\ q \in {"reply", "ended", "unwind"}
    \/ p \in {"ended", "notify"} /\ q \in {"notify", "unmap"}
    \/ p \in {"unwind", "signal", "release"} /\ q \in {"signal", "release", "done"}
    \/ p \in {"unstarted", "noticing"} /\ q \in {"noticing", "noticed"}

QuietStep(m) ==
    /\ UNCHANGED <<loopVars, mapVars>>
    /\ \E q \in Phases : pc' = [pc EXCEPT ![m] = q] /\ QuietMove(m, pc[m], q)
    /\ \/ UNCHANGED done
       \/ pc[m] = "signal" /\ done' = [done EXCEPT ![m] = TRUE]
    /\ \A n \in Messages : incidents[n] \subseteq incidents'[n]

LEMMA QuietStepKeepsInv ==
  ASSUME TypeOK, TypeOK', QueueInv, ChainInv, NEW m \in Messages, QuietStep(m)
  PROVE  QueueInv' /\ ChainInv'
<1>1. PICK q \in Phases : pc' = [pc EXCEPT ![m] = q] /\ QuietMove(m, pc[m], q)
  BY DEF QuietStep
<1>2. /\ pc'[m] = q /\ \A n \in Messages : n # m => pc'[n] = pc[n]
  BY <1>1 DEF TypeOK
<1>3. \A n \in Messages : pc[n] \in {"queued", "held", "acking"} => pc'[n] = pc[n]
  BY <1>1, <1>2 DEF QuietMove
<1>4. QueueInv'
  BY <1>3 DEF QueueInv, QuietStep, TypeOK, loopVars
<1>5. \A n \in Messages : pc'[n] = "waiting" <=> pc[n] = "waiting"
  BY <1>1, <1>2 DEF QuietMove
<1>6. \A n \in Interruptible : PastWait(n)' <=> PastWait(n)
  BY <1>1, <1>2, MessagesAssumption DEF QuietMove, PastWait, TurnOver
<1>7. \A n \in Messages : TurnOver(n) => TurnOver(n)'
  BY <1>1, <1>2 DEF QuietMove, TurnOver
<1>8. \A n \in Messages : pc'[n] = "counted" => n \in Interruptible
  BY <1>1, <1>2 DEF QuietMove, ChainInv, RegistrationInv
<1>9. \A n \in Messages : done'[n] => TurnOver(n)'
  <2>1. CASE UNCHANGED done
    BY <2>1, <1>7 DEF ChainInv, RegistrationInv
  <2>2. CASE pc[m] = "signal" /\ done' = [done EXCEPT ![m] = TRUE]
    BY <2>2, <1>7 DEF ChainInv, RegistrationInv, TypeOK, TurnOver
  <2>3. QED
    BY <2>1, <2>2 DEF QuietStep
<1>10. \A s \in Scopes : ScopeTimedOut(s) => ScopeTimedOut(s)'
  BY DEF ScopeTimedOut, QuietStep
<1>11. QED
  BY <1>4, <1>5, <1>6, <1>7, <1>8, <1>9, <1>10, ChainQuiet DEF SameWaits, QuietStep

LEMMA QuietWorkerSteps ==
  ASSUME TypeOK, TypeOK', NEW m \in Messages,
         \/ StartWorker(m) \/ StopTurn(m) \/ TurnNotStarted(m) \/ TurnBegins(m)
         \/ TurnFinishes(m) \/ TurnCancelled(m) \/ SettleEnd(m) \/ WorkerNoticeSent(m)
         \/ DropCount(m) \/ SignalDone(m) \/ ReleasePermit(m)
         \/ NoticeTaskClaims(m) \/ NoticeTaskSent(m)
         \/ ModelCompletes(m) \/ TurnRevoked(m) \/ TurnAnsweredInPlace(m) \/ TurnClearsHistory(m)
         \/ ApprovalDenied(m) \/ TurnPanics(m)
  PROVE  QuietStep(m)
<1> USE DEF Phases, Goto, EndTurn, Befell, loopVars, signalVars, mapVars
<1>1. CASE StartWorker(m)
  BY <1>1 DEF StartWorker, QuietStep, QuietMove
<1>2. CASE StopTurn(m) \/ ApprovalDenied(m)
  <2>1. pc' = [pc EXCEPT ![m] = pc[m]] /\ pc[m] \in Phases
    BY <1>2 DEF StopTurn, ApprovalDenied, TypeOK
  <2>2. \A n \in Messages : incidents[n] \subseteq incidents'[n]
    <3>1. UNCHANGED incidents \/ incidents' = [incidents EXCEPT ![m] = @ \cup {"denied"}]
      BY <1>2 DEF StopTurn, ApprovalDenied
    <3>2. incidents \in [Messages -> SUBSET Incidents]
      BY DEF TypeOK
    <3>3. CASE UNCHANGED incidents
      BY <3>3
    <3>4. CASE incidents' = [incidents EXCEPT ![m] = @ \cup {"denied"}]
      <4>1. \A n \in Messages : incidents'[n] = IF n = m THEN incidents[n] \cup {"denied"} ELSE incidents[n]
        BY <3>2, <3>4
      <4>2. QED
        BY <4>1
    <3>5. QED
      BY <3>1, <3>3, <3>4
  <2>3. /\ pc[m] \notin {"queued", "held", "acking"}
        /\ UNCHANGED <<loopVars, mapVars, done>>
    BY <1>2 DEF StopTurn, ApprovalDenied
  <2>4. QED
    BY <2>1, <2>2, <2>3 DEF QuietStep, QuietMove
<1>3. CASE TurnNotStarted(m) \/ TurnBegins(m) \/ TurnAnsweredInPlace(m) \/ TurnClearsHistory(m)
  BY <1>3 DEF TurnNotStarted, TurnBegins, TurnAnsweredInPlace, TurnClearsHistory,
              QuietStep, QuietMove
<1>4. CASE TurnFinishes(m) \/ TurnCancelled(m) \/ ModelCompletes(m)
  BY <1>4 DEF TurnFinishes, TurnCancelled, ModelCompletes, QuietStep, QuietMove
<1>5. CASE SettleEnd(m)
  <2>1. \E q \in {"notify", "unmap"} : pc' = [pc EXCEPT ![m] = q]
    BY <1>5 DEF SettleEnd, ClaimNotice
  <2>2. pc[m] = "ended" /\ UNCHANGED <<loopVars, mapVars, done, incidents>>
    BY <1>5 DEF SettleEnd
  <2>3. QED
    BY <2>1, <2>2 DEF QuietStep, QuietMove
<1>6. CASE WorkerNoticeSent(m) \/ DropCount(m) \/ SignalDone(m) \/ ReleasePermit(m)
  BY <1>6 DEF WorkerNoticeSent, DropCount, SignalDone, ReleasePermit, QuietStep, QuietMove
<1>7. CASE NoticeTaskClaims(m) \/ NoticeTaskSent(m)
  BY <1>7 DEF NoticeTaskClaims, NoticeTaskSent, ClaimNotice, QuietStep, QuietMove
<1>8. CASE TurnRevoked(m) \/ TurnPanics(m)
  <2>1. \A n \in Messages : incidents[n] \subseteq incidents'[n]
    <3>1. \E what \in {"revoked", "panicked"} :
             incidents' = [incidents EXCEPT ![m] = @ \cup {what}]
      BY <1>8 DEF TurnRevoked, TurnPanics
    <3>2. QED
      BY <3>1 DEF TypeOK
  <2>2. QED
    BY <1>8, <2>1 DEF TurnRevoked, TurnPanics, QuietStep, QuietMove
<1>9. QED
  BY <1>1, <1>2, <1>3, <1>4, <1>5, <1>6, <1>7, <1>8

\* The map insertion: the new registrant is the scope's last, and what it waits
\* for is the registrant before it.
LEMMA RegisterKeepsInv ==
  ASSUME TypeOK, TypeOK', QueueInv, ChainInv, NEW m \in Messages, Register(m)
  PROVE  QueueInv' /\ ChainInv'
<1> DEFINE s == Scope(m)
           previous == active[s]
           q == IF previous = NoMessage THEN "ready" ELSE "waiting"
<1> USE MessagesAssumption
<1>1. /\ pc[m] = "counted" /\ pc' = [pc EXCEPT ![m] = q]
      /\ active' = [active EXCEPT ![s] = m] /\ prev' = [prev EXCEPT ![m] = previous]
      /\ regs' = regs + 1 /\ reg' = [reg EXCEPT ![m] = regs + 1]
      /\ UNCHANGED <<loopVars, done, incidents>>
  BY DEF Register, Goto
<1>2. /\ s \in Scopes /\ m \in Interruptible /\ reg[m] = 0 /\ ~done[m]
      /\ previous \in Messages \cup {NoMessage}
  <2>1. s \in Scopes
    OBVIOUS
  <2>2. previous \in Messages \cup {NoMessage}
    BY <2>1 DEF TypeOK
  <2>3. ~TurnOver(m) /\ ~PastWait(m)
    BY <1>1 DEF PastWait, TurnOver
  <2>4. m \in Interruptible /\ ~done[m] /\ ~Registered(m)
    BY <1>1, <2>3 DEF ChainInv, RegistrationInv
  <2>5. reg[m] = 0
    BY <2>4 DEF Registered, TypeOK
  <2>6. QED
    BY <2>1, <2>2, <2>4, <2>5
<1>3. /\ \A n \in Messages : n # m => pc'[n] = pc[n] /\ reg'[n] = reg[n] /\ prev'[n] = prev[n]
      /\ pc'[m] = q /\ reg'[m] = regs + 1 /\ prev'[m] = previous
      /\ active'[s] = m /\ \A t \in Scopes : t # s => active'[t] = active[t]
  BY <1>1, <1>2 DEF TypeOK
<1>4. /\ \A n \in Messages : reg[n] \in Nat /\ reg[n] <= regs
      /\ regs \in Nat /\ \A n \in Messages : Registered(n)' <=> (n = m \/ Registered(n))
  <2>1. regs \in Nat /\ \A n \in Messages : reg[n] \in Nat
    BY DEF TypeOK
  <2>2. \A n \in Messages : reg[n] <= regs
    BY DEF ChainInv, RegistrationInv
  <2>3. \A n \in Messages : Registered(n)' <=> (n = m \/ Registered(n))
    BY <1>3, <2>1 DEF Registered
  <2>4. QED
    BY <2>1, <2>2, <2>3
<1>5. QueueInv'
  <2>1. /\ UNCHANGED <<arrivals, taken, loop, held>>
        /\ \A n \in Messages : pc[n] \in {"queued", "held", "acking"} => pc'[n] = pc[n]
    BY <1>1, <1>3 DEF loopVars
  <2>2. \A i \in (taken + 1)..Len(arrivals) : arrivals[i] \in Messages
    BY DEF TypeOK
  <2>3. QED
    BY <2>1, <2>2 DEF QueueInv
<1>6. /\ \A n \in Messages : n # m => (TurnOver(n)' <=> TurnOver(n)) /\ (PastWait(n)' <=> PastWait(n))
      /\ ~TurnOver(m)' /\ ~TurnOver(m)
      /\ \A t \in Scopes : ScopeTimedOut(t)' <=> ScopeTimedOut(t)
  BY <1>1, <1>3 DEF TurnOver, PastWait, ScopeTimedOut
<1>7. RegistrationInv'
  <2>1. \A n \in Messages : reg'[n] <= regs'
    BY <1>1, <1>3, <1>4
  <2>2. \A n, k \in Messages : (Registered(n)' /\ reg'[n] = reg'[k]) => n = k
    BY <1>3, <1>4 DEF ChainInv, RegistrationInv, Registered
  <2>3. \A n \in Messages :
           Registered(n)' <=> (pc'[n] = "waiting" \/ (n \in Interruptible /\ PastWait(n)'))
    BY <1>2, <1>3, <1>4, <1>6 DEF ChainInv, RegistrationInv, PastWait
  <2>4. \A n \in Messages : pc'[n] \in {"counted", "waiting"} => n \in Interruptible
    BY <1>2, <1>3 DEF ChainInv, RegistrationInv
  <2>5. \A n \in Messages : done'[n] => TurnOver(n)'
    BY <1>1, <1>2, <1>6 DEF ChainInv, RegistrationInv
  <2>6. QED
    BY <2>1, <2>2, <2>3, <2>4, <2>5 DEF RegistrationInv
<1>8. \A n, k \in Messages : Earlier(n, k)' <=>
         \/ k # m /\ Earlier(n, k)
         \/ k = m /\ Scope(n) = s /\ Registered(n)
  BY <1>2, <1>3, <1>4 DEF Earlier, Registered
<1>9. MapInv'
  <2>1. ASSUME NEW t \in Scopes, active'[t] # NoMessage
        PROVE  /\ Registered(active[t])' /\ Scope(active'[t]) = t
               /\ \A n \in Messages :
                     (Registered(n)' /\ Scope(n) = t) => reg'[n] <= reg'[active'[t]]
    <3>1. CASE t = s
      BY <1>3, <1>4, <3>1
    <3>2. CASE t # s
      <4>1. active'[t] = active[t] /\ active[t] \in Messages /\ Registered(active[t])
            /\ Scope(active[t]) = t /\ active[t] # m
        BY <1>3, <2>1, <3>2 DEF ChainInv, MapInv, TypeOK
      <4>2. QED
        BY <1>3, <1>4, <2>1, <3>2, <4>1 DEF ChainInv, MapInv
    <3>3. QED
      BY <3>1, <3>2
  <2>2. ASSUME NEW k \in Messages, pc'[k] = "waiting"
        PROVE  /\ prev'[k] \in Messages /\ Earlier(prev[k], k)'
               /\ \A n \in Messages : Earlier(n, k)' => reg'[n] <= reg'[prev'[k]]
    <3>1. CASE k = m
      <4>1. previous \in Messages /\ Registered(previous) /\ Scope(previous) = s
            /\ previous # m /\ prev'[k] = previous
            /\ \A n \in Messages : (Registered(n) /\ Scope(n) = s) => reg[n] <= reg[previous]
        <5>1. previous # NoMessage /\ prev'[k] = previous
          BY <1>3, <2>2, <3>1
        <5>2. /\ Registered(previous) /\ Scope(previous) = s
              /\ \A n \in Messages : (Registered(n) /\ Scope(n) = s) => reg[n] <= reg[previous]
          BY <1>2, <5>1 DEF ChainInv, MapInv
        <5>3. previous # m
          BY <1>2, <5>2 DEF Registered
        <5>4. QED
          BY <1>2, <5>1, <5>2, <5>3
      <4>2. Earlier(prev[k], k)'
        BY <1>3, <1>4, <3>1, <4>1 DEF Earlier, Registered
      <4>3. QED
        BY <1>2, <1>3, <1>4, <1>8, <3>1, <4>1, <4>2 DEF Registered
    <3>2. CASE k # m
      <4>1. /\ prev[k] \in Messages /\ Earlier(prev[k], k) /\ prev'[k] = prev[k]
            /\ \A n \in Messages : Earlier(n, k) => reg[n] <= reg[prev[k]]
        BY <1>3, <2>2, <3>2 DEF ChainInv, MapInv
      <4>2. prev[k] # m
        BY <1>2, <4>1 DEF Earlier, Registered
      <4>3. Earlier(prev[k], k)'
        BY <1>3, <1>4, <3>2, <4>1, <4>2 DEF Earlier, Registered
      <4>4. QED
        BY <1>2, <1>3, <1>8, <3>2, <4>1, <4>2, <4>3 DEF Earlier, Registered
    <3>3. QED
      BY <3>1, <3>2
  <2>3. QED
    BY <2>1, <2>2 DEF MapInv
<1>10. WaitInv'
  <2>1. ASSUME NEW t \in Scopes, active'[t] = NoMessage, ~ScopeTimedOut(t)',
               NEW n \in Messages, Registered(n)', Scope(n) = t
        PROVE  TurnOver(n)'
    <3>1. t # s /\ active[t] = NoMessage /\ n # m
      BY <1>3, <2>1
    <3>2. QED
      BY <1>4, <1>6, <2>1, <3>1 DEF ChainInv, WaitInv
  <2>2. ASSUME NEW k \in Messages, Registered(k)', PastWait(k)', ~ScopeTimedOut(Scope(k))',
               NEW n \in Messages, Earlier(n, k)'
        PROVE  TurnOver(n)'
    <3>1. CASE k = m
      <4>1. previous = NoMessage /\ Registered(n) /\ Scope(n) = s /\ n # m
        BY <1>2, <1>3, <1>8, <2>2, <3>1 DEF PastWait, TurnOver, Registered
      <4>2. QED
        BY <1>2, <1>6, <2>2, <3>1, <4>1 DEF ChainInv, WaitInv
    <3>2. CASE k # m
      <4>1. Earlier(n, k) /\ n # m /\ Registered(k) /\ PastWait(k) /\ ~ScopeTimedOut(Scope(k))
        BY <1>2, <1>4, <1>6, <1>8, <2>2, <3>2 DEF Earlier, Registered
      <4>2. QED
        BY <1>6, <2>2, <4>1 DEF ChainInv, WaitInv
    <3>3. QED
      BY <3>1, <3>2
  <2>3. QED
    BY <2>1, <2>2 DEF WaitInv
<1>11. QED
  BY <1>5, <1>7, <1>9, <1>10 DEF ChainInv

\* The end of a wait: the previous worker signalled, so its turn and, by the
\* chain, every turn before it is over; or the wait timed out and says so.
LEMMA WaitEndKeepsInv ==
  ASSUME TypeOK, TypeOK', QueueInv, ChainInv, NEW m \in Messages,
         PreviousDone(m) \/ PreviousTimedOut(m)
  PROVE  QueueInv' /\ ChainInv'
<1> USE MessagesAssumption
<1>1. /\ pc[m] = "waiting" /\ pc' = [pc EXCEPT ![m] = "ready"]
      /\ UNCHANGED <<loopVars, mapVars, done>>
      /\ \/ done[prev[m]] /\ UNCHANGED incidents
         \/ incidents' = [incidents EXCEPT ![m] = @ \cup {"timed_out"}]
  BY DEF PreviousDone, PreviousTimedOut, Goto, Befell, signalVars
<1>2. /\ pc'[m] = "ready" /\ \A n \in Messages : n # m => pc'[n] = pc[n]
  BY <1>1 DEF TypeOK
<1>3. /\ \A n \in Messages : TurnOver(n)' <=> TurnOver(n)
      /\ \A n \in Messages : n # m => (PastWait(n)' <=> PastWait(n))
      /\ PastWait(m)' /\ ~TurnOver(m)
  BY <1>1, <1>2 DEF TurnOver, PastWait
<1>4. \A s \in Scopes : ScopeTimedOut(s) => ScopeTimedOut(s)'
  <2>1. \A n \in Messages : incidents[n] \subseteq incidents'[n]
    <3>1. CASE UNCHANGED incidents
      BY <3>1
    <3>2. CASE incidents' = [incidents EXCEPT ![m] = @ \cup {"timed_out"}]
      BY <3>2 DEF TypeOK
    <3>3. QED
      BY <1>1, <3>1, <3>2
  <2>2. QED
    BY <2>1 DEF ScopeTimedOut
<1>5. QueueInv'
  <2>1. /\ UNCHANGED <<arrivals, taken, loop, held>>
        /\ \A n \in Messages : pc[n] \in {"queued", "held", "acking"} => pc'[n] = pc[n]
    BY <1>1, <1>2 DEF loopVars
  <2>2. \A i \in (taken + 1)..Len(arrivals) : arrivals[i] \in Messages
    BY DEF TypeOK
  <2>3. QED
    BY <2>1, <2>2 DEF QueueInv
<1>6. RegistrationInv'
  BY <1>1, <1>2, <1>3 DEF ChainInv, RegistrationInv, mapVars, Registered, PastWait
<1>7. MapInv'
  BY <1>1, <1>2 DEF ChainInv, MapInv, mapVars, Registered, Earlier
<1>8. /\ \A n, k \in Messages : Earlier(n, k)' <=> Earlier(n, k)
      /\ \A n \in Messages : Registered(n)' <=> Registered(n)
  BY <1>1 DEF Earlier, Registered, mapVars
<1>9. WaitInv'
  <2>1. ASSUME NEW t \in Scopes, active'[t] = NoMessage, ~ScopeTimedOut(t)',
               NEW n \in Messages, Registered(n)', Scope(n) = t
        PROVE  TurnOver(n)'
    <3>1. active[t] = NoMessage /\ ~ScopeTimedOut(t) /\ Registered(n)
      BY <1>1, <1>4, <1>8, <2>1 DEF mapVars
    <3>2. TurnOver(n)
      BY <2>1, <3>1 DEF ChainInv, WaitInv
    <3>3. QED
      BY <1>3, <3>2
  <2>2. ASSUME NEW k \in Messages, Registered(k)', PastWait(k)', ~ScopeTimedOut(Scope(k))',
               NEW n \in Messages, Earlier(n, k)'
        PROVE  TurnOver(n)'
    <3>a. Scope(k) \in Scopes
      OBVIOUS
    <3>b. ~ScopeTimedOut(Scope(k))
      BY <1>4, <2>2, <3>a
    <3>0. Scope(k) \in Scopes /\ Registered(k) /\ Earlier(n, k) /\ ~ScopeTimedOut(Scope(k))
      BY <1>8, <2>2, <3>a, <3>b
    <3>1. CASE k = m
      <4>1. UNCHANGED incidents /\ done[prev[m]]
        <5>1. CASE incidents' = [incidents EXCEPT ![m] = @ \cup {"timed_out"}]
          <6>1. "timed_out" \in incidents'[m]
            BY <5>1 DEF TypeOK
          <6>2. QED
            BY <2>2, <3>1, <6>1 DEF ScopeTimedOut
        <5>2. QED
          BY <1>1, <5>1
      <4>2. /\ prev[m] \in Messages /\ Earlier(prev[m], m)
            /\ Earlier(n, m) => reg[n] <= reg[prev[m]]
        BY <1>1 DEF ChainInv, MapInv
      <4>3. TurnOver(prev[m]) /\ PastWait(prev[m]) /\ Registered(prev[m])
        BY <4>1, <4>2 DEF ChainInv, RegistrationInv, PastWait, Earlier
      <4>4. CASE n = prev[m]
        BY <1>3, <4>3, <4>4
      <4>5. CASE n # prev[m]
        <5>1. reg[n] # reg[prev[m]]
          BY <3>0, <4>2, <4>3, <4>5 DEF ChainInv, RegistrationInv, Earlier
        <5>2. Earlier(n, prev[m])
          BY <3>0, <3>1, <4>2, <5>1 DEF Earlier, TypeOK
        <5>3. Scope(prev[m]) = Scope(m)
          BY <4>2 DEF Earlier
        <5>4. QED
          BY <1>3, <3>0, <3>1, <4>2, <4>3, <5>2, <5>3 DEF ChainInv, WaitInv
      <4>6. QED
        BY <4>4, <4>5
    <3>2. CASE k # m
      BY <1>3, <2>2, <3>0, <3>2 DEF ChainInv, WaitInv
    <3>3. QED
      BY <3>1, <3>2
  <2>3. QED
    BY <2>1, <2>2 DEF WaitInv
<1>10. QED
  BY <1>5, <1>6, <1>7, <1>9 DEF ChainInv

\* The removal by task id: only the last registrant empties its scope's entry,
\* and everything registered in the scope is over by then.
LEMMA UnmapKeepsInv ==
  ASSUME TypeOK, TypeOK', QueueInv, ChainInv, NEW m \in Messages, Unmap(m)
  PROVE  QueueInv' /\ ChainInv'
<1> USE MessagesAssumption
<1>1. /\ pc[m] = "unmap" /\ pc' = [pc EXCEPT ![m] = "unwind"]
      /\ UNCHANGED <<loopVars, prev, reg, regs, done, incidents>>
      /\ \/ active' = active
         \/ /\ m \in Interruptible /\ active[Scope(m)] = m
            /\ active' = [active EXCEPT ![Scope(m)] = NoMessage]
  BY DEF Unmap, EntryIsMine, Goto, signalVars
<1>2. /\ pc'[m] = "unwind" /\ \A n \in Messages : n # m => pc'[n] = pc[n]
  BY <1>1 DEF TypeOK
<1>3. /\ \A n \in Messages : (TurnOver(n)' <=> TurnOver(n)) /\ (PastWait(n)' <=> PastWait(n))
      /\ TurnOver(m) /\ PastWait(m)
      /\ \A s \in Scopes : ScopeTimedOut(s)' <=> ScopeTimedOut(s)
  BY <1>1, <1>2 DEF TurnOver, PastWait, ScopeTimedOut
<1>4. /\ \A n, k \in Messages : Earlier(n, k)' <=> Earlier(n, k)
      /\ \A n \in Messages : Registered(n)' <=> Registered(n)
  BY <1>1 DEF Earlier, Registered
<1>5. QueueInv'
  <2>1. /\ UNCHANGED <<arrivals, taken, loop, held>>
        /\ \A n \in Messages : pc[n] \in {"queued", "held", "acking"} => pc'[n] = pc[n]
    BY <1>1, <1>2 DEF loopVars
  <2>2. \A i \in (taken + 1)..Len(arrivals) : arrivals[i] \in Messages
    BY DEF TypeOK
  <2>3. QED
    BY <2>1, <2>2 DEF QueueInv
<1>6. RegistrationInv'
  BY <1>1, <1>2, <1>3, <1>4 DEF ChainInv, RegistrationInv
<1>7. \A s \in Scopes : active'[s] # NoMessage => active'[s] = active[s] /\ active[s] \in Messages
  BY <1>1 DEF TypeOK
<1>8. MapInv'
  <2>1. ASSUME NEW s \in Scopes, active'[s] # NoMessage
        PROVE  /\ Registered(active[s])' /\ Scope(active'[s]) = s
               /\ \A n \in Messages :
                     (Registered(n)' /\ Scope(n) = s) => reg'[n] <= reg'[active'[s]]
    <3>1. active'[s] = active[s] /\ active[s] \in Messages /\ active[s] # NoMessage
      BY <1>7, <2>1
    <3>2. /\ Registered(active[s]) /\ Scope(active[s]) = s
          /\ \A n \in Messages : (Registered(n) /\ Scope(n) = s) => reg[n] <= reg[active[s]]
      BY <3>1 DEF ChainInv, MapInv
    <3>3. QED
      BY <1>1, <3>1, <3>2 DEF Registered
  <2>2. ASSUME NEW k \in Messages, pc'[k] = "waiting"
        PROVE  /\ prev'[k] \in Messages /\ Earlier(prev[k], k)'
               /\ \A n \in Messages : Earlier(n, k)' => reg'[n] <= reg'[prev'[k]]
    BY <1>1, <1>2, <1>4, <2>2 DEF ChainInv, MapInv, Earlier, Registered
  <2>3. QED
    BY <2>1, <2>2 DEF MapInv
<1>9. WaitInv'
  <2>1. ASSUME NEW s \in Scopes, active'[s] = NoMessage, ~ScopeTimedOut(s)',
               NEW n \in Messages, Registered(n)', Scope(n) = s
        PROVE  TurnOver(n)'
    <3>0. Registered(n) /\ ~ScopeTimedOut(s)
      BY <1>3, <1>4, <2>1
    <3>1. CASE active[s] = NoMessage
      <4>1. TurnOver(n)
        BY <2>1, <3>0, <3>1 DEF ChainInv, WaitInv
      <4>2. QED
        BY <1>3, <4>1
    <3>2. CASE active[s] # NoMessage
      <4>1. s = Scope(m) /\ active[s] = m
        <5>1. \A t \in Scopes : t # Scope(m) => active'[t] = active[t]
          BY <1>1 DEF TypeOK
        <5>2. s = Scope(m)
          BY <2>1, <3>2, <5>1
        <5>3. QED
          BY <1>1, <2>1, <3>2, <5>2
      <4>2. Registered(m) /\ Registered(n) /\ reg[n] <= reg[m]
        BY <1>4, <2>1, <3>2, <4>1 DEF ChainInv, MapInv
      <4>3. n = m \/ Earlier(n, m)
        BY <2>1, <4>1, <4>2 DEF ChainInv, RegistrationInv, Earlier, TypeOK
      <4>4. QED
        BY <1>3, <2>1, <4>1, <4>2, <4>3 DEF ChainInv, WaitInv
    <3>3. QED
      BY <3>1, <3>2
  <2>2. ASSUME NEW k \in Messages, Registered(k)', PastWait(k)', ~ScopeTimedOut(Scope(k))',
               NEW n \in Messages, Earlier(n, k)'
        PROVE  TurnOver(n)'
    BY <1>3, <1>4, <2>2 DEF ChainInv, WaitInv
  <2>3. QED
    BY <2>1, <2>2 DEF WaitInv
<1>10. QED
  BY <1>5, <1>6, <1>8, <1>9 DEF ChainInv

LEMMA OverlapStep == OverlapInv /\ [ChannelDispatchNext]_vars => OverlapInv'
<1> SUFFICES ASSUME OverlapInv, [ChannelDispatchNext]_vars PROVE OverlapInv'
  OBVIOUS
<1>1. TypeOK /\ TypeOK' /\ QueueInv /\ ChainInv
  BY TypeStep DEF OverlapInv, ChainInv
<1>2. CASE LoopStep \/ ReceiveApprovalReply \/ Environment \/ Stopped
  BY <1>1, <1>2, LoopStepKeepsInv DEF OverlapInv, ChainInv
<1>3. ASSUME NEW m \in Messages, WorkerStep(m) \/ ModelCompletes(m) \/ WorkerChance(m)
      PROVE  OverlapInv'
  <2>1. CASE Register(m)
    BY <1>1, <2>1, RegisterKeepsInv DEF OverlapInv, ChainInv
  <2>2. CASE PreviousDone(m) \/ PreviousTimedOut(m)
    BY <1>1, <2>2, WaitEndKeepsInv DEF OverlapInv, ChainInv
  <2>3. CASE Unmap(m)
    BY <1>1, <2>3, UnmapKeepsInv DEF OverlapInv, ChainInv
  <2>4. CASE QuietStep(m)
    BY <1>1, <2>4, QuietStepKeepsInv DEF OverlapInv, ChainInv
  <2>5. QED
    BY <1>1, <1>3, <2>1, <2>2, <2>3, <2>4, QuietWorkerSteps DEF WorkerStep, WorkerChance
<1>4. CASE UNCHANGED vars
  <2>1. QueueInv'
    BY <1>1, <1>4 DEF QueueInv, vars, loopVars
  <2>2. SameWaits /\ UNCHANGED mapVars
    BY <1>1, <1>4 DEF SameWaits, ChainInv, RegistrationInv, vars, signalVars, mapVars,
                      TurnOver, PastWait, ScopeTimedOut
  <2>3. QED
    BY <1>1, <2>1, <2>2, ChainQuiet DEF OverlapInv, ChainInv
<1>5. QED
  BY <1>2, <1>3, <1>4 DEF ChannelDispatchNext

LEMMA OverlapInit == ChannelDispatchInit => OverlapInv
<1> SUFFICES ASSUME ChannelDispatchInit PROVE OverlapInv
  OBVIOUS
<1>1. TypeOK
  BY TypeInit
<1>2. QueueInv
  BY DEF ChannelDispatchInit, QueueInv
<1>3. RegistrationInv /\ MapInv /\ WaitInv
  BY MessagesAssumption
     DEF ChannelDispatchInit, RegistrationInv, MapInv, WaitInv, Registered, PastWait, TurnOver
<1>4. QED
  BY <1>1, <1>2, <1>3 DEF OverlapInv

LEMMA OverlapSafe == OverlapInv => TurnsOverlapOnlyAfterTimeout
<1> SUFFICES ASSUME OverlapInv, NEW m \in Interruptible, NEW n \in Interruptible,
                    m # n, Scope(m) = Scope(n), InTurn(m), InTurn(n), ~ScopeTimedOut(Scope(m))
             PROVE  FALSE
  BY DEF TurnsOverlapOnlyAfterTimeout
<1>1. m \in Messages /\ n \in Messages
  BY MessagesAssumption
<1>2. PastWait(m) /\ PastWait(n) /\ ~TurnOver(m) /\ ~TurnOver(n)
  BY DEF InTurn, PastWait, TurnOver
<1>3. Registered(m) /\ Registered(n) /\ reg[m] # reg[n]
  BY <1>1, <1>2 DEF OverlapInv, RegistrationInv
<1>4. Earlier(m, n) \/ Earlier(n, m)
  BY <1>1, <1>3 DEF Earlier, OverlapInv, TypeOK
<1>5. QED
  BY <1>1, <1>2, <1>3, <1>4 DEF OverlapInv, WaitInv

\* However many messages, senders and permits there are: two turns of one sender
\* overlap only if some worker of that sender gave up its wait for the previous.
THEOREM NoOverlapWithoutTimeout == ChannelDispatchSpec => []TurnsOverlapOnlyAfterTimeout
<1>1. QED
  BY OverlapInit, OverlapStep, OverlapSafe, PTL DEF ChannelDispatchSpec

-----------------------------------------------------------------------------
(***************************************************************************)
(* The guards.  A worker holds its permit from the spawn to the release,   *)
(* and counts from its first poll to the drop of its count.                *)
(***************************************************************************)
CountPhases == {"counted", "waiting", "ready", "turn", "reply", "ended", "notify", "unmap", "unwind"}
PermitPhases == CountPhases \cup {"spawned", "signal", "release"}

Holders == {m \in Messages : pc[m] \in PermitPhases}
CountedIn(c) == {m \in Messages : Conv(m) = c /\ pc[m] \in CountPhases}

BalanceInv ==
    /\ IsFiniteSet(Holders) /\ permits + Cardinality(Holders) = MaxInFlight
    /\ \A c \in Conversations : IsFiniteSet(CountedIn(c)) /\ counts[c] = Cardinality(CountedIn(c))

LEMMA BalanceMeans == BalanceInv => GuardsBalance
<1>1. Holders = {m \in Messages : HoldsPermit(m)}
  BY DEF Holders, HoldsPermit, TurnOver, PermitPhases, CountPhases
<1>2. \A c : CountedIn(c) = {m \in Messages : Conv(m) = c /\ Counted(m)}
  BY DEF CountedIn, Counted, CountPhases
<1> QED
  BY <1>1, <1>2 DEF BalanceInv, GuardsBalance

\* A step in which nobody takes or gives back anything.
LEMMA NothingTaken ==
    ASSUME BalanceInv, UNCHANGED <<permits, counts>>,
           \A n \in Messages : /\ pc'[n] \in PermitPhases <=> pc[n] \in PermitPhases
                               /\ pc'[n] \in CountPhases <=> pc[n] \in CountPhases
    PROVE  BalanceInv'
<1>1. Holders' = Holders /\ \A c : CountedIn(c)' = CountedIn(c)
  BY DEF Holders, CountedIn
<1> QED
  BY <1>1 DEF BalanceInv

\* The moves of one worker that do so.
LEMMA MovedWithin ==
    ASSUME TypeOK, BalanceInv, NEW m \in Messages, NEW q, pc' = [pc EXCEPT ![m] = q],
           UNCHANGED <<permits, counts>>,
           \/ pc[m] \in CountPhases /\ q \in CountPhases
           \/ pc[m] \notin PermitPhases /\ q \notin PermitPhases
           \/ pc[m] = "signal" /\ q = "release"
    PROVE  BalanceInv'
<1>1. pc'[m] = q /\ \A n \in Messages : n # m => pc'[n] = pc[n]
  BY DEF TypeOK
<1> QED
  BY <1>1, NothingTaken DEF PermitPhases, CountPhases

LEMMA BalanceLoop ==
    ASSUME OverlapInv, BalanceInv, LoopStep \/ ReceiveApprovalReply \/ Environment \/ Stopped
    PROVE  BalanceInv'
<1>0. TypeOK /\ QueueInv
  BY DEF OverlapInv
<1>1. CASE ReceiveMessage \/ ReceiveApprovalReply
  <2>1. /\ HasQueued /\ UNCHANGED <<permits, counts>>
        /\ \E q \in {"held", "acking"} : pc' = [pc EXCEPT ![arrivals[taken + 1]] = q]
    BY <1>1 DEF ReceiveMessage, ReceiveApprovalReply, Goto
  <2>2. arrivals[taken + 1] \in Messages /\ pc[arrivals[taken + 1]] = "queued"
    BY <1>0, <2>1 DEF HasQueued, TypeOK, QueueInv
  <2> QED
    BY <1>0, <2>1, <2>2, MovedWithin DEF PermitPhases, CountPhases
<1>2. CASE AckSent \/ ShutdownWhileHeld
  <2>1. /\ UNCHANGED <<permits, counts>> /\ loop \in {"acking", "permit"}
        /\ \E q \in {"replied", "unstarted"} : pc' = [pc EXCEPT ![held] = q]
    BY <1>2 DEF AckSent, ShutdownWhileHeld, Goto
  <2>2. held \in Messages /\ pc[held] \in {"acking", "held"}
    BY <1>0, <2>1 DEF QueueInv
  <2> QED
    BY <1>0, <2>1, <2>2, MovedWithin DEF PermitPhases, CountPhases
<1>3. CASE SpawnWorker
  <2>1. held \in Messages /\ pc[held] = "held" /\ permits \in Nat /\ permits' = permits - 1 /\ UNCHANGED counts
        /\ pc' = [pc EXCEPT ![held] = "spawned"]
    BY <1>0, <1>3 DEF SpawnWorker, QueueInv, Goto, TypeOK
  <2>2. pc'[held] = "spawned" /\ \A n \in Messages : n # held => pc'[n] = pc[n]
    BY <1>0, <2>1 DEF TypeOK
  <2>3. /\ Holders' = Holders \cup {held} /\ held \notin Holders
        /\ \A c : CountedIn(c)' = CountedIn(c)
    BY <2>1, <2>2 DEF Holders, CountedIn, PermitPhases, CountPhases
  <2>4. IsFiniteSet(Holders') /\ Cardinality(Holders') = Cardinality(Holders) + 1
    BY <2>3, FS_AddElement DEF BalanceInv
  <2>5. Cardinality(Holders) \in Nat
    BY FS_CardinalityType DEF BalanceInv
  <2> QED
    BY <2>1, <2>3, <2>4, <2>5, PermitsAssumption DEF BalanceInv
<1>4. CASE CloseAndNotifyQueued
  <2>1. /\ UNCHANGED <<permits, counts>>
        /\ pc' = [m \in Messages |-> IF m \in Queued THEN "unstarted" ELSE pc[m]]
    BY <1>4 DEF CloseAndNotifyQueued
  <2>2. \A n \in Queued : pc[n] = "queued"
    BY <1>0 DEF Queued, QueueInv
  <2> QED
    BY <2>1, <2>2, NothingTaken DEF PermitPhases, CountPhases
<1>5. CASE ShutdownWhileReceiving \/ QueueEnded \/ DrainDeadline \/ AllJoined
           \/ SendersGone \/ RequestShutdown \/ Stopped
  <2>1. UNCHANGED <<permits, counts, pc>>
    BY <1>5 DEF ShutdownWhileReceiving, QueueEnded, DrainDeadline, AllJoined, SendersGone,
                RequestShutdown, Stopped, vars
  <2> QED
    BY <2>1, NothingTaken
<1>6. ASSUME NEW c \in Conversations, BusDrop(c)
      PROVE  BalanceInv'
  BY <1>6, NothingTaken DEF BusDrop
<1>7. ASSUME NEW m \in Messages, Arrive(m)
      PROVE  BalanceInv'
  <2>1. pc[m] = "idle" /\ pc' = [pc EXCEPT ![m] = "queued"] /\ UNCHANGED <<permits, counts>>
    BY <1>7 DEF Arrive, Goto
  <2> QED
    BY <1>0, <2>1, MovedWithin DEF PermitPhases, CountPhases
<1> QED
  BY <1>1, <1>2, <1>3, <1>4, <1>5, <1>6, <1>7 DEF LoopStep, Environment

LEMMA BalanceWorker ==
    ASSUME TypeOK, BalanceInv, NEW m \in Messages, WorkerStep(m) \/ ModelCompletes(m) \/ WorkerChance(m)
    PROVE  BalanceInv'
<1>1. CASE StartWorker(m)
  <2>1. /\ pc[m] = "spawned" /\ permits' = permits /\ counts \in [Conversations -> Nat]
        /\ counts' = [counts EXCEPT ![Conv(m)] = @ + 1]
        /\ Conv(m) \in Conversations /\ pc'[m] \in {"counted", "ready"}
        /\ \A n \in Messages : n # m => pc'[n] = pc[n]
    <3>1. Conv(m) \in Conversations
      BY MessagesAssumption
    <3>2. \/ pc' = [pc EXCEPT ![m] = "counted"]
          \/ pc' = [pc EXCEPT ![m] = "ready"]
      BY <1>1 DEF StartWorker, Goto
    <3>3. pc'[m] \in {"counted", "ready"} /\ \A n \in Messages : n # m => pc'[n] = pc[n]
      BY <3>2 DEF TypeOK
    <3> QED
      BY <1>1, <3>1, <3>3 DEF StartWorker, TypeOK
  <2>2. /\ Holders' = Holders
        /\ \A c \in Conversations : c # Conv(m) => CountedIn(c)' = CountedIn(c)
        /\ CountedIn(Conv(m))' = CountedIn(Conv(m)) \cup {m} /\ m \notin CountedIn(Conv(m))
    BY <2>1 DEF Holders, CountedIn, PermitPhases, CountPhases
  <2>3. /\ IsFiniteSet(CountedIn(Conv(m))')
        /\ Cardinality(CountedIn(Conv(m))') = Cardinality(CountedIn(Conv(m))) + 1
    <3>1. IsFiniteSet(CountedIn(Conv(m)))
      BY <2>1 DEF BalanceInv
    <3> QED
      BY <2>2, <3>1, FS_AddElement
  <2>4. \A c \in Conversations : counts'[c] = IF c = Conv(m) THEN counts[c] + 1 ELSE counts[c]
    BY <2>1
  <2>5. ASSUME NEW c \in Conversations
        PROVE  IsFiniteSet(CountedIn(c)') /\ counts'[c] = Cardinality(CountedIn(c)')
    BY <2>2, <2>3, <2>4 DEF BalanceInv
  <2> QED
    BY <2>1, <2>2, <2>5 DEF BalanceInv
<1>2. CASE DropCount(m)
  <2>1. /\ pc[m] = "unwind" /\ permits' = permits /\ counts \in [Conversations -> Nat]
        /\ counts' = [counts EXCEPT ![Conv(m)] = IF @ = 0 THEN 0 ELSE @ - 1]
        /\ Conv(m) \in Conversations /\ pc'[m] = "signal"
        /\ \A n \in Messages : n # m => pc'[n] = pc[n]
    <3>1. Conv(m) \in Conversations
      BY MessagesAssumption
    <3>2. pc'[m] = "signal" /\ \A n \in Messages : n # m => pc'[n] = pc[n]
      BY <1>2 DEF DropCount, Goto, TypeOK
    <3> QED
      BY <1>2, <3>1, <3>2 DEF DropCount, TypeOK
  <2>2. /\ Holders' = Holders
        /\ \A c \in Conversations : c # Conv(m) => CountedIn(c)' = CountedIn(c)
        /\ CountedIn(Conv(m))' = CountedIn(Conv(m)) \ {m} /\ m \in CountedIn(Conv(m))
    BY <2>1 DEF Holders, CountedIn, PermitPhases, CountPhases
  <2>3. /\ IsFiniteSet(CountedIn(Conv(m))')
        /\ Cardinality(CountedIn(Conv(m))') = Cardinality(CountedIn(Conv(m))) - 1
        /\ Cardinality(CountedIn(Conv(m))) # 0
    <3>1. IsFiniteSet(CountedIn(Conv(m)))
      BY <2>1 DEF BalanceInv
    <3> QED
      BY <2>2, <3>1, FS_RemoveElement, FS_EmptySet
  <2>4. \A c \in Conversations : counts'[c] = IF c = Conv(m) THEN counts[c] - 1 ELSE counts[c]
    BY <2>1, <2>3 DEF BalanceInv
  <2>5. ASSUME NEW c \in Conversations
        PROVE  IsFiniteSet(CountedIn(c)') /\ counts'[c] = Cardinality(CountedIn(c)')
    BY <2>2, <2>3, <2>4 DEF BalanceInv
  <2> QED
    BY <2>1, <2>2, <2>5 DEF BalanceInv
<1>3. CASE ReleasePermit(m)
  <2>1. /\ pc[m] = "release" /\ permits \in Nat /\ permits' = permits + 1 /\ counts' = counts
        /\ pc'[m] = "done" /\ \A n \in Messages : n # m => pc'[n] = pc[n]
    BY <1>3 DEF ReleasePermit, Goto, TypeOK
  <2>2. /\ Holders' = Holders \ {m} /\ m \in Holders
        /\ \A c : CountedIn(c)' = CountedIn(c)
    BY <2>1 DEF Holders, CountedIn, PermitPhases, CountPhases
  <2>3. IsFiniteSet(Holders') /\ Cardinality(Holders') = Cardinality(Holders) - 1
    BY <2>2, FS_RemoveElement DEF BalanceInv
  <2>4. Cardinality(Holders) \in Nat
    BY FS_CardinalityType DEF BalanceInv
  <2> QED
    BY <2>1, <2>2, <2>3, <2>4 DEF BalanceInv
<1>4. CASE \/ Register(m) \/ PreviousDone(m) \/ PreviousTimedOut(m) \/ StopTurn(m)
           \/ TurnNotStarted(m) \/ TurnBegins(m) \/ TurnFinishes(m) \/ TurnCancelled(m)
           \/ WorkerNoticeSent(m) \/ Unmap(m) \/ ModelCompletes(m) \/ TurnRevoked(m)
           \/ TurnAnsweredInPlace(m) \/ TurnClearsHistory(m) \/ ApprovalDenied(m) \/ TurnPanics(m)
  <2>1. UNCHANGED <<permits, counts>> /\ pc[m] \in CountPhases
    BY <1>4 DEF Register, PreviousDone, PreviousTimedOut, StopTurn, TurnNotStarted, TurnBegins,
                TurnFinishes, TurnCancelled, WorkerNoticeSent, Unmap, ModelCompletes, TurnRevoked,
                TurnAnsweredInPlace, TurnClearsHistory, ApprovalDenied, TurnPanics, CountPhases
  <2>2. \E q \in CountPhases : pc' = [pc EXCEPT ![m] = q]
    <3>1. CASE Register(m)
      <4>1. \/ pc' = [pc EXCEPT ![m] = "ready"]
            \/ pc' = [pc EXCEPT ![m] = "waiting"]
        BY <3>1 DEF Register, Goto
      <4> QED
        BY <4>1 DEF CountPhases
    <3>2. CASE StopTurn(m) \/ ApprovalDenied(m)
      BY <2>1, <3>2 DEF StopTurn, ApprovalDenied, TypeOK
    <3>3. CASE ~Register(m) /\ ~StopTurn(m) /\ ~ApprovalDenied(m)
      BY <1>4, <3>3 DEF PreviousDone, PreviousTimedOut, TurnNotStarted, TurnBegins, TurnFinishes,
                TurnCancelled, WorkerNoticeSent, Unmap, ModelCompletes, TurnRevoked, EndTurn, Goto,
                TurnAnsweredInPlace, TurnClearsHistory, TurnPanics, CountPhases
    <3> QED
      BY <3>1, <3>2, <3>3
  <2> QED
    BY <2>1, <2>2, MovedWithin
<1>5. CASE SettleEnd(m)
  <2>1. /\ pc[m] = "ended" /\ UNCHANGED <<permits, counts>>
        /\ \E q \in {"notify", "unmap"} : pc' = [pc EXCEPT ![m] = q]
    BY <1>5 DEF SettleEnd, ClaimNotice, Goto
  <2> QED
    BY <2>1, MovedWithin DEF CountPhases
<1>6. CASE SignalDone(m)
  BY <1>6, MovedWithin DEF SignalDone, Goto
<1>7. CASE NoticeTaskClaims(m) \/ NoticeTaskSent(m)
  <2>1. /\ pc[m] \in {"unstarted", "noticing"} /\ UNCHANGED <<permits, counts>>
        /\ \E q \in {"noticing", "noticed"} : pc' = [pc EXCEPT ![m] = q]
    BY <1>7 DEF NoticeTaskClaims, NoticeTaskSent, ClaimNotice, Goto
  <2> QED
    BY <2>1, MovedWithin DEF PermitPhases, CountPhases
<1> QED
  BY <1>1, <1>2, <1>3, <1>4, <1>5, <1>6, <1>7 DEF WorkerStep, WorkerChance

LEMMA BalanceInit == ChannelDispatchInit => BalanceInv
<1> SUFFICES ASSUME ChannelDispatchInit PROVE BalanceInv
  OBVIOUS
<1>1. Holders = {} /\ \A c : CountedIn(c) = {}
  BY DEF ChannelDispatchInit, Holders, CountedIn, PermitPhases, CountPhases
<1>2. /\ IsFiniteSet(Holders) /\ Cardinality(Holders) = 0
      /\ \A c : IsFiniteSet(CountedIn(c)) /\ Cardinality(CountedIn(c)) = 0
  BY <1>1, FS_EmptySet
<1>3. permits = MaxInFlight /\ \A c \in Conversations : counts[c] = 0
  BY DEF ChannelDispatchInit
<1> QED
  BY <1>2, <1>3, PermitsAssumption DEF BalanceInv

LEMMA BalanceStep == OverlapInv /\ BalanceInv /\ [ChannelDispatchNext]_vars => BalanceInv'
<1> SUFFICES ASSUME OverlapInv, BalanceInv, [ChannelDispatchNext]_vars PROVE BalanceInv'
  OBVIOUS
<1>1. CASE UNCHANGED vars
  BY <1>1, NothingTaken DEF vars
<1> QED
  BY <1>1, BalanceLoop, BalanceWorker DEF ChannelDispatchNext, OverlapInv

\* Permits and refcounts are given back exactly once on every path, an unwind included,
\* for any number of messages (the guards of dispatch.rs and supervisor.rs).
THEOREM GuardsAlwaysBalance == ChannelDispatchSpec => []GuardsBalance
<1> QED
  BY OverlapInit, OverlapStep, BalanceInit, BalanceStep, BalanceMeans, PTL DEF ChannelDispatchSpec

\* A DELETE over the bus that finds the conversation free finds none of its turns with
\* a row still to write: the count is the number of its turns under way.
THEOREM ClearsNeverUnderATurn == ChannelDispatchSpec => ClearNeverUnderATurn
<1>1. ASSUME OverlapInv, BalanceInv, NEW c \in Conversations, BusDrop(c),
             NEW m \in Messages, Conv(m) = c
      PROVE  pc[m] \notin {"ready", "turn", "reply", "ended"}
  <2>1. CountedIn(c) = {}
    BY <1>1, FS_EmptySet DEF BusDrop, BalanceInv
  <2> QED
    BY <1>1, <2>1 DEF CountedIn, CountPhases
<1>2. OverlapInv /\ BalanceInv /\ [ChannelDispatchNext]_vars =>
        [\A c \in Conversations :
            BusDrop(c) => \A m \in Messages :
                             Conv(m) = c => pc[m] \notin {"ready", "turn", "reply", "ended"}]_vars
  BY <1>1
<1> QED
  BY <1>2, OverlapInit, OverlapStep, BalanceInit, BalanceStep, PTL
     DEF ChannelDispatchSpec, ClearNeverUnderATurn

-----------------------------------------------------------------------------
(***************************************************************************)
(* Interruption and the drain.  Whoever is cancelled before the drain      *)
(* denied a call or was superseded; a turn that ends says how; and what    *)
(* leaves a row open, or a message without an answer, is excused.          *)
(***************************************************************************)
Leaving == {"notify", "unmap", "unwind", "signal", "release", "done"}

Excused(m) == Superseded(m) \/ incidents[m] \cap {"panicked", "denied"} # {}

CancelInv ==
    \A m \in Messages :
        /\ ~Registered(m) => prev[m] = NoMessage
        /\ (cancelled[m] /\ ~stopRunning /\ "denied" \notin incidents[m])
              => \E n \in Messages : prev[n] = m /\ Scope(n) = Scope(m) /\ reg[n] > reg[m] /\ reg[m] > 0

\* A row is open while its turn runs, until the drain records it, or for a reason.
RowExcused(m) ==
    rows[m] = "open" => \/ pc[m] \in {"turn", "reply"}
                        \/ pc[m] = "ended" /\ end[m] = "Cancelled"
                        \/ pc[m] \in Leaving /\ Excused(m)

RowInv == \A m \in Messages : RowExcused(m)

\* A turn ends finished, cancelled or revoked, and leaves answered, told or excused.
EndTold(m) ==
    /\ pc[m] = "ended" => \/ end[m] = "Finished"
                          \/ end[m] \in {"Cancelled", "NotStarted"} /\ cancelled[m]
                          \/ end[m] = "NotStarted" /\ "revoked" \in incidents[m]
    /\ pc[m] \in Leaving => \/ end[m] = "Finished" \/ Conv(m) \in notified
                            \/ Excused(m) \/ "revoked" \in incidents[m]
    /\ pc[m] \in {"noticing", "noticed"} => Conv(m) \in notified

EndInv == \A m \in Messages : EndTold(m)

\* What has arrived is no longer idle, and the loop stops when no task is left.
StopInv ==
    /\ \A i \in 1..Len(arrivals) : pc[arrivals[i]] # "idle"
    /\ loop = "stopped" => NoTaskLeft

DrainInv == CancelInv /\ RowInv /\ EndInv /\ StopInv

LEMMA DrainMeans ==
    ASSUME OverlapInv, DrainInv
    PROVE  /\ OnlyALaterWorkerInterrupts
           /\ DrainAccountsForEveryMessage
           /\ DrainClosesEveryRequest
<1>1. OnlyALaterWorkerInterrupts
  BY DEF DrainInv, CancelInv, OnlyALaterWorkerInterrupts
<1>2. DrainAccountsForEveryMessage
  <2> SUFFICES ASSUME loop = "stopped", NEW i \in 1..Len(arrivals)
               PROVE  LET m == arrivals[i] IN
                      \/ end[m] = "Finished" \/ pc[m] = "replied"
                      \/ Conv(m) \in notified
                      \/ Superseded(m)
                      \/ incidents[m] \cap {"panicked", "denied", "revoked"} # {}
    BY DEF DrainAccountsForEveryMessage
  <2>1. arrivals[i] \in Messages /\ pc[arrivals[i]] \in {"replied", "done", "noticed"}
    BY DEF DrainInv, StopInv, NoTaskLeft, OverlapInv, TypeOK
  <2> QED
    BY <2>1 DEF DrainInv, EndInv, EndTold, Leaving, Excused
<1>3. DrainClosesEveryRequest
  BY DEF DrainClosesEveryRequest, DrainInv, StopInv, NoTaskLeft, RowInv, RowExcused, Excused
<1> QED
  BY <1>1, <1>2, <1>3

\* A step that inserts nothing in the map, and cancels nobody but for the drain or a denial.
LEMMA CancelKept ==
    ASSUME CancelInv, UNCHANGED <<prev, reg>>, stopRunning => stopRunning',
           \A n \in Messages : /\ incidents[n] \subseteq incidents'[n]
                               /\ cancelled'[n] => \/ cancelled[n] \/ stopRunning'
                                                   \/ "denied" \in incidents'[n]
    PROVE  CancelInv' /\ \A n \in Messages : Superseded(n) => Superseded(n)'
<1>1. CancelInv'
  <2>1. \A n \in Messages : (cancelled'[n] /\ ~stopRunning' /\ "denied" \notin incidents'[n])
                               => cancelled[n] /\ ~stopRunning /\ "denied" \notin incidents[n]
    OBVIOUS
  <2> QED
    BY <2>1 DEF CancelInv, Registered
<1> QED
  BY <1>1 DEF Superseded

\* A message whose task does not move keeps its record.
LEMMA RecordKept ==
    ASSUME NEW n \in Messages, RowInv, EndInv, pc'[n] = pc[n], end'[n] = end[n],
           rows'[n] \in {rows[n], "none"}, incidents[n] \subseteq incidents'[n],
           notified \subseteq notified', Superseded(n) => Superseded(n)',
           cancelled[n] => cancelled'[n]
    PROVE  RowExcused(n)' /\ EndTold(n)'
<1>1. Excused(n) => Excused(n)'
  BY DEF Excused
<1> QED
  BY <1>1 DEF RowInv, EndInv, RowExcused, EndTold

\* What the loop and the environment do: tasks move before their turn only, rows are
\* only cleared, and the loop stops when no task is left.
LEMMA LoopMoves ==
    ASSUME TypeOK, QueueInv, LoopStep \/ ReceiveApprovalReply \/ Environment \/ Stopped
    PROVE  /\ UNCHANGED <<end, incidents, notified, cancelled, prev, reg>>
           /\ stopRunning => stopRunning'
           /\ \A n \in Messages :
                 /\ rows'[n] \in {rows[n], "none"}
                 /\ \/ pc'[n] = pc[n]
                    \/ /\ pc[n] \in {"idle", "queued", "held", "acking"}
                       /\ pc'[n] \in {"queued", "held", "acking", "replied", "spawned", "unstarted"}
           /\ loop' = "stopped" => pc' = pc /\ (loop = "stopped" \/ NoTaskLeft)
           /\ \/ arrivals' = arrivals
              \/ \E m \in Messages : arrivals' = Append(arrivals, m) /\ pc'[m] = "queued"
<1> USE DEF Goto, signalVars, mapVars
<1>1. CASE ReceiveMessage \/ ReceiveApprovalReply
  <2>1. /\ HasQueued /\ loop' \in {"permit", "acking"}
        /\ UNCHANGED <<arrivals, stopRunning, rows, end, incidents, notified, cancelled, prev, reg>>
        /\ \E q \in {"held", "acking"} : pc' = [pc EXCEPT ![arrivals[taken + 1]] = q]
    BY <1>1 DEF ReceiveMessage, ReceiveApprovalReply
  <2>2. arrivals[taken + 1] \in Messages /\ pc[arrivals[taken + 1]] = "queued"
    BY <2>1 DEF HasQueued, TypeOK, QueueInv
  <2> QED
    BY <2>1, <2>2 DEF TypeOK
<1>2. CASE AckSent \/ ShutdownWhileHeld \/ SpawnWorker
  <2>1. /\ loop \in {"acking", "permit"} /\ loop' \in {"recv", "drain"}
        /\ UNCHANGED <<arrivals, stopRunning, rows, end, incidents, notified, cancelled, prev, reg>>
        /\ \E q \in {"replied", "unstarted", "spawned"} : pc' = [pc EXCEPT ![held] = q]
    BY <1>2 DEF AckSent, ShutdownWhileHeld, SpawnWorker
  <2>2. held \in Messages /\ pc[held] \in {"acking", "held"}
    BY <2>1 DEF QueueInv
  <2> QED
    BY <2>1, <2>2 DEF TypeOK
<1>3. CASE CloseAndNotifyQueued
  <2>1. \A n \in Queued : pc[n] = "queued"
    BY DEF Queued, QueueInv
  <2> QED
    BY <1>3, <2>1 DEF CloseAndNotifyQueued
<1>4. CASE ShutdownWhileReceiving \/ QueueEnded \/ DrainDeadline \/ AllJoined
           \/ SendersGone \/ RequestShutdown \/ Stopped
  <2>1. /\ UNCHANGED <<arrivals, pc, rows, end, incidents, notified, cancelled, prev, reg>>
        /\ stopRunning => stopRunning'
        /\ loop' = "stopped" => loop = "stopped" \/ NoTaskLeft
    BY <1>4 DEF ShutdownWhileReceiving, QueueEnded, DrainDeadline, AllJoined, SendersGone,
                RequestShutdown, Stopped, vars, loopVars
  <2> QED
    BY <2>1
<1>5. ASSUME NEW c \in Conversations, BusDrop(c)
      PROVE  /\ UNCHANGED <<arrivals, loop, pc, end, incidents, notified, cancelled, prev, reg, stopRunning>>
             /\ \A n \in Messages : rows'[n] \in {rows[n], "none"}
  BY <1>5 DEF BusDrop, loopVars
<1>6. ASSUME NEW m \in Messages, Arrive(m)
      PROVE  /\ UNCHANGED <<loop, rows, end, incidents, notified, cancelled, prev, reg, stopRunning>>
             /\ pc[m] = "idle" /\ loop # "stopped" /\ pc'[m] = "queued"
             /\ arrivals' = Append(arrivals, m)
             /\ \A n \in Messages : n # m => pc'[n] = pc[n]
  BY <1>6 DEF Arrive, TypeOK
<1>7. CASE \E c \in Conversations : BusDrop(c)
  BY <1>5, <1>7
<1>8. CASE \E m \in Messages : Arrive(m)
  BY <1>6, <1>8
<1> QED
  BY <1>1, <1>2, <1>3, <1>4, <1>7, <1>8 DEF LoopStep, Environment

LEMMA DrainLoop ==
    ASSUME OverlapInv, DrainInv, LoopStep \/ ReceiveApprovalReply \/ Environment \/ Stopped
    PROVE  DrainInv'
<1>0. TypeOK /\ QueueInv /\ CancelInv /\ RowInv /\ EndInv /\ StopInv
  BY DEF OverlapInv, DrainInv
<1>a. /\ UNCHANGED <<end, incidents, notified, cancelled, prev, reg>>
      /\ stopRunning => stopRunning'
      /\ \A n \in Messages : rows'[n] \in {rows[n], "none"}
  BY <1>0, LoopMoves
<1>b. \A n \in Messages :
         \/ pc'[n] = pc[n]
         \/ /\ pc[n] \in {"idle", "queued", "held", "acking"}
            /\ pc'[n] \in {"queued", "held", "acking", "replied", "spawned", "unstarted"}
  BY <1>0, LoopMoves
<1>1. CancelInv' /\ \A n \in Messages : Superseded(n) => Superseded(n)'
  BY <1>0, <1>a, CancelKept
<1>2. ASSUME NEW n \in Messages
      PROVE  RowExcused(n)' /\ EndTold(n)'
  <2>1. CASE pc'[n] = pc[n]
    BY <1>0, <1>1, <1>a, <2>1, RecordKept
  <2>2. CASE pc'[n] # pc[n]
    <3>1. rows[n] # "open"
      BY <1>0, <1>b, <2>2 DEF RowInv, RowExcused, Leaving
    <3> QED
      BY <1>a, <1>b, <2>2, <3>1 DEF RowExcused, EndTold, Leaving
  <2> QED
    BY <2>1, <2>2
<1>3. StopInv'
  <2>1. loop' = "stopped" => NoTaskLeft'
    <3>1. loop' = "stopped" => pc' = pc /\ (loop = "stopped" \/ NoTaskLeft)
      BY <1>0, LoopMoves
    <3> QED
      BY <1>0, <3>1 DEF StopInv, NoTaskLeft
  <2>2. \A i \in 1..Len(arrivals') : pc'[arrivals'[i]] # "idle"
    <3>1. \A i \in 1..Len(arrivals) : arrivals[i] \in Messages /\ pc'[arrivals[i]] # "idle"
      <4>1. \A i \in 1..Len(arrivals) : arrivals[i] \in Messages /\ pc[arrivals[i]] # "idle"
        BY <1>0 DEF StopInv, TypeOK
      <4>2. \A n \in Messages : pc[n] # "idle" => pc'[n] # "idle"
        BY <1>b
      <4> QED
        BY <4>1, <4>2
    <3>2. CASE arrivals' = arrivals
      BY <3>1, <3>2
    <3>3. ASSUME NEW m \in Messages, arrivals' = Append(arrivals, m), pc'[m] = "queued"
          PROVE  \A i \in 1..Len(arrivals') : pc'[arrivals'[i]] # "idle"
      <4>1. /\ Len(arrivals') = Len(arrivals) + 1 /\ Len(arrivals) \in Nat
            /\ \A i \in 1..Len(arrivals') : \/ arrivals'[i] = m
                                            \/ i \in 1..Len(arrivals) /\ arrivals'[i] = arrivals[i]
        BY <1>0, <3>3 DEF TypeOK
      <4> QED
        BY <3>1, <3>3, <4>1
    <3> QED
      BY <1>0, <3>2, <3>3, LoopMoves
  <2> QED
    BY <2>1, <2>2 DEF StopInv
<1> QED
  BY <1>1, <1>2, <1>3 DEF DrainInv, RowInv, EndInv

\* What a worker does to the others: a clear takes their rows, and Register cancels one.
LEMMA WorkerMoves ==
    ASSUME TypeOK, NEW m \in Messages, WorkerStep(m) \/ ModelCompletes(m) \/ WorkerChance(m)
    PROVE  /\ UNCHANGED <<arrivals, loop, stopRunning>> /\ notified \subseteq notified'
           /\ pc[m] \notin {"idle", "replied", "done", "noticed"} /\ pc'[m] # "idle"
           /\ \A n \in Messages :
                 /\ incidents[n] \subseteq incidents'[n] /\ (cancelled[n] => cancelled'[n])
                 /\ n # m => pc'[n] = pc[n] /\ end'[n] = end[n] /\ rows'[n] \in {rows[n], "none"}
<1> USE DEF Goto, EndTurn, Befell, ClaimNotice, Close, loopVars, signalVars, mapVars
<1>1. CASE StartWorker(m)
  BY <1>1 DEF StartWorker, TypeOK
<1>2. CASE Register(m)
  <2>1. \A n \in Messages : cancelled[n] => cancelled'[n]
    BY <1>2 DEF Register, TypeOK
  <2> QED
    BY <1>2, <2>1 DEF Register, TypeOK
<1>3. CASE PreviousDone(m) \/ PreviousTimedOut(m) \/ ModelCompletes(m) \/ WorkerNoticeSent(m)
           \/ Unmap(m) \/ NoticeTaskSent(m)
  BY <1>3 DEF PreviousDone, PreviousTimedOut, ModelCompletes, WorkerNoticeSent, Unmap,
              NoticeTaskSent, TypeOK
<1>4. CASE StopTurn(m) \/ ApprovalDenied(m)
  BY <1>4 DEF StopTurn, ApprovalDenied, TypeOK
<1>5. CASE TurnNotStarted(m) \/ TurnRevoked(m) \/ TurnAnsweredInPlace(m) \/ TurnCancelled(m)
  BY <1>5 DEF TurnNotStarted, TurnRevoked, TurnAnsweredInPlace, TurnCancelled, TypeOK
<1>6. CASE TurnClearsHistory(m) \/ TurnBegins(m) \/ TurnFinishes(m) \/ TurnPanics(m)
  BY <1>6 DEF TurnClearsHistory, TurnBegins, TurnFinishes, TurnPanics, TypeOK
<1>7. CASE SettleEnd(m)
  BY <1>7 DEF SettleEnd, TypeOK
<1>8. CASE NoticeTaskClaims(m)
  BY <1>8 DEF NoticeTaskClaims, TypeOK
<1>9. CASE DropCount(m) \/ SignalDone(m) \/ ReleasePermit(m)
  BY <1>9 DEF DropCount, SignalDone, ReleasePermit, TypeOK
<1> QED
  BY <1>1, <1>2, <1>3, <1>4, <1>5, <1>6, <1>7, <1>8, <1>9 DEF WorkerStep, WorkerChance

\* The worker that registers supersedes the one whose entry it replaces.
LEMMA RegisterCancels ==
    ASSUME OverlapInv, CancelInv, NEW m \in Messages, Register(m)
    PROVE  CancelInv' /\ \A n \in Messages : Superseded(n) => Superseded(n)'
<1> DEFINE p == active[Scope(m)]
<1>0. TypeOK /\ RegistrationInv /\ MapInv /\ Scope(m) \in Scopes
  BY MessagesAssumption DEF OverlapInv
<1>1. /\ pc[m] = "counted" /\ ~Registered(m) /\ prev[m] = NoMessage /\ reg[m] = 0
      /\ regs \in Nat
  <2>1. pc[m] = "counted" /\ regs \in Nat /\ reg[m] \in Nat
    BY <1>0 DEF Register, TypeOK
  <2>2. ~Registered(m)
    BY <1>0, <2>1 DEF RegistrationInv, PastWait, TurnOver
  <2> QED
    BY <2>1, <2>2 DEF CancelInv, Registered
<1>2. /\ prev'[m] = p /\ reg'[m] = regs + 1
      /\ \A n \in Messages : n # m => prev'[n] = prev[n] /\ reg'[n] = reg[n]
      /\ \A n \in Messages : cancelled'[n] => cancelled[n] \/ n = p
      /\ UNCHANGED <<stopRunning, incidents>>
  BY <1>0 DEF Register, TypeOK, loopVars
<1>3. p # NoMessage => p \in Messages /\ p # m /\ Scope(p) = Scope(m) /\ reg[p] > 0 /\ reg[p] <= regs
  <2>1. p \in Messages \cup {NoMessage}
    BY <1>0 DEF TypeOK
  <2>2. p # NoMessage => Registered(p) /\ Scope(p) = Scope(m)
    BY <1>0 DEF MapInv
  <2> QED
    BY <1>0, <1>1, <2>1, <2>2 DEF Registered, RegistrationInv
<1>4. \A n \in Messages : Superseded(n) => Superseded(n)'
  BY <1>1, <1>2, MessagesAssumption DEF Superseded
<1>5. ASSUME NEW n \in Messages
      PROVE  /\ ~Registered(n)' => prev'[n] = NoMessage
             /\ (cancelled'[n] /\ ~stopRunning' /\ "denied" \notin incidents'[n])
                   => \E k \in Messages : prev'[k] = n /\ Scope(k) = Scope(n)
                                          /\ reg'[k] > reg'[n] /\ reg'[n] > 0
  <2>1. ~Registered(n)' => prev'[n] = NoMessage
    BY <1>1, <1>2 DEF Registered, CancelInv
  <2>2. ASSUME cancelled'[n], ~stopRunning', "denied" \notin incidents'[n]
        PROVE  \E k \in Messages : prev'[k] = n /\ Scope(k) = Scope(n)
                                   /\ reg'[k] > reg'[n] /\ reg'[n] > 0
    <3>1. CASE n = p
      <4>1. n # NoMessage
        BY MessagesAssumption
      <4>2. n # m /\ Scope(n) = Scope(m) /\ reg[n] > 0 /\ reg[n] <= regs
        BY <1>3, <3>1, <4>1
      <4>3. reg'[n] = reg[n] /\ reg[n] \in Nat
        BY <1>0, <1>2, <4>2 DEF TypeOK
      <4>4. prev'[m] = n /\ reg'[m] > reg'[n] /\ reg'[n] > 0
        BY <1>1, <1>2, <3>1, <4>2, <4>3
      <4> QED
        BY <4>2, <4>4
    <3>2. CASE n # p
      <4>1. PICK k \in Messages : prev[k] = n /\ Scope(k) = Scope(n) /\ reg[k] > reg[n] /\ reg[n] > 0
        BY <1>2, <2>2, <3>2 DEF CancelInv
      <4>2. k # m /\ n # m
        BY <1>1, <4>1, MessagesAssumption
      <4> QED
        BY <1>2, <4>1, <4>2
    <3> QED
      BY <3>1, <3>2
  <2> QED
    BY <2>1, <2>2
<1> QED
  BY <1>4, <1>5 DEF CancelInv

\* No other step of a worker supersedes anybody.
LEMMA WorkerCancels ==
    ASSUME OverlapInv, CancelInv, NEW m \in Messages,
           WorkerStep(m) \/ ModelCompletes(m) \/ WorkerChance(m)
    PROVE  CancelInv' /\ \A n \in Messages : Superseded(n) => Superseded(n)'
<1>0. TypeOK
  BY DEF OverlapInv
<1>1. CASE Register(m)
  BY <1>1, RegisterCancels
<1>2. CASE StopTurn(m) \/ ApprovalDenied(m)
  <2>1. /\ UNCHANGED <<prev, reg, stopRunning>>
        /\ cancelled' = [cancelled EXCEPT ![m] = TRUE]
        /\ stopRunning' \/ incidents' = [incidents EXCEPT ![m] = @ \cup {"denied"}]
    BY <1>2 DEF StopTurn, ApprovalDenied, Befell, loopVars, mapVars
  <2>2. \A n \in Messages : n # m => cancelled'[n] = cancelled[n]
    BY <1>0, <2>1 DEF TypeOK
  <2>3. stopRunning' \/ "denied" \in incidents'[m]
    BY <1>0, <2>1 DEF TypeOK
  <2>4. \A n \in Messages : incidents[n] \subseteq incidents'[n]
    BY <1>0, WorkerMoves
  <2> QED
    BY <2>1, <2>2, <2>3, <2>4, CancelKept
<1>3. CASE ~Register(m) /\ ~StopTurn(m) /\ ~ApprovalDenied(m)
  <2>1. UNCHANGED <<prev, reg, cancelled, stopRunning>>
    BY <1>3 DEF WorkerStep, WorkerChance, StartWorker, PreviousDone, PreviousTimedOut, TurnNotStarted,
                TurnRevoked, TurnAnsweredInPlace, TurnClearsHistory, TurnBegins, ModelCompletes,
                TurnFinishes, TurnCancelled, TurnPanics, SettleEnd, WorkerNoticeSent, Unmap, DropCount,
                SignalDone, ReleasePermit, NoticeTaskClaims, NoticeTaskSent,
                loopVars, signalVars, mapVars
  <2>2. \A n \in Messages : incidents[n] \subseteq incidents'[n]
    BY <1>0, WorkerMoves
  <2> QED
    BY <2>1, <2>2, CancelKept
<1> QED
  BY <1>1, <1>2, <1>3

\* The record of the worker that moves.
LEMMA MoverRecord ==
    ASSUME TypeOK, RowInv, EndInv, CancelInv, NEW m \in Messages, Superseded(m) => Superseded(m)',
           WorkerStep(m) \/ ModelCompletes(m) \/ WorkerChance(m)
    PROVE  RowExcused(m)' /\ EndTold(m)'
<1> USE DEF Goto, EndTurn, Befell, ClaimNotice, Close, loopVars, signalVars, mapVars, Leaving
<1>0. RowExcused(m) /\ EndTold(m)
  BY DEF RowInv, EndInv
<1>1. CASE StartWorker(m) \/ Register(m) \/ PreviousDone(m) \/ PreviousTimedOut(m)
  <2>1. /\ pc[m] \in {"spawned", "counted", "waiting"} /\ pc'[m] \in {"counted", "waiting", "ready"}
        /\ UNCHANGED rows
    BY <1>1 DEF StartWorker, Register, PreviousDone, PreviousTimedOut, TypeOK
  <2> QED
    BY <1>0, <2>1 DEF RowExcused, EndTold
<1>2. CASE StopTurn(m) \/ ApprovalDenied(m)
  <2>1. pc[m] \in {"ready", "turn", "reply"} /\ UNCHANGED <<pc, rows>>
    BY <1>2 DEF StopTurn, ApprovalDenied
  <2> QED
    BY <1>0, <2>1 DEF RowExcused, EndTold
<1>3. CASE TurnNotStarted(m) \/ TurnRevoked(m) \/ TurnAnsweredInPlace(m)
  <2>1. /\ pc[m] = "ready" /\ pc'[m] = "ended" /\ UNCHANGED <<rows, cancelled>>
        /\ \/ end'[m] = "Finished"
           \/ end'[m] = "NotStarted" /\ (cancelled[m] \/ "revoked" \in incidents'[m])
    BY <1>3 DEF TurnNotStarted, TurnRevoked, TurnAnsweredInPlace, TypeOK
  <2> QED
    BY <1>0, <2>1 DEF RowExcused, EndTold
<1>4. CASE TurnClearsHistory(m) \/ TurnFinishes(m)
  <2>1. pc'[m] = "ended" /\ end'[m] = "Finished" /\ rows'[m] # "open"
    BY <1>4 DEF TurnClearsHistory, TurnFinishes, TypeOK
  <2> QED
    BY <2>1 DEF RowExcused, EndTold
<1>5. CASE TurnBegins(m) \/ ModelCompletes(m)
  <2>1. pc'[m] \in {"turn", "reply"}
    BY <1>5 DEF TurnBegins, ModelCompletes, TypeOK
  <2> QED
    BY <2>1 DEF RowExcused, EndTold
<1>6. CASE TurnCancelled(m)
  <2>1. pc'[m] = "ended" /\ end'[m] = "Cancelled" /\ cancelled'[m]
    BY <1>6 DEF TurnCancelled, TypeOK
  <2> QED
    BY <2>1 DEF RowExcused, EndTold
<1>7. CASE TurnPanics(m)
  <2>1. pc'[m] = "unwind" /\ "panicked" \in incidents'[m]
    BY <1>7 DEF TurnPanics, TypeOK
  <2> QED
    BY <2>1 DEF RowExcused, EndTold, Excused
<1>8. CASE SettleEnd(m)
  <2>0. pc[m] = "ended" /\ pc'[m] \in {"notify", "unmap"} /\ UNCHANGED <<end, cancelled, incidents, stopRunning>>
    BY <1>8 DEF SettleEnd, TypeOK
  <2>1. CASE StoppedByDrain(m)
    <3>1. Conv(m) \in notified' /\ (end[m] = "Cancelled" => rows'[m] # "open")
          /\ (end[m] # "Cancelled" => rows'[m] = rows[m])
      BY <1>8, <2>1 DEF SettleEnd, TypeOK
    <3> QED
      BY <1>0, <2>0, <3>1 DEF RowExcused, EndTold
  <2>2. CASE ~StoppedByDrain(m)
    <3>1. UNCHANGED <<rows, notified>>
      BY <1>8, <2>2 DEF SettleEnd
    <3>2. CASE end[m] = "Finished"
      BY <1>0, <2>0, <3>1, <3>2 DEF RowExcused, EndTold
    <3>3. CASE cancelled[m] /\ ~stopRunning
      <4>1. Superseded(m) \/ "denied" \in incidents[m]
        BY <3>3 DEF CancelInv, Superseded
      <4>2. Excused(m)'
        BY <2>0, <4>1 DEF Excused
      <4> QED
        BY <2>0, <4>2 DEF RowExcused, EndTold
    <3>4. CASE end[m] = "NotStarted" /\ "revoked" \in incidents[m]
      BY <1>0, <2>0, <3>1, <3>4 DEF RowExcused, EndTold
    <3> QED
      BY <1>0, <2>0, <2>2, <3>2, <3>3, <3>4 DEF EndTold, StoppedByDrain
  <2> QED
    BY <2>1, <2>2
<1>9. CASE WorkerNoticeSent(m) \/ Unmap(m) \/ DropCount(m) \/ SignalDone(m) \/ ReleasePermit(m)
  <2>1. /\ pc[m] \in Leaving /\ pc'[m] \in Leaving /\ UNCHANGED <<rows, end, notified, incidents>>
    BY <1>9 DEF WorkerNoticeSent, Unmap, DropCount, SignalDone, ReleasePermit, TypeOK
  <2>2. Excused(m) => Excused(m)'
    BY <2>1 DEF Excused
  <2> QED
    BY <1>0, <2>1, <2>2 DEF RowExcused, EndTold
<1>10. CASE NoticeTaskClaims(m) \/ NoticeTaskSent(m)
  <2>1. /\ pc[m] \in {"unstarted", "noticing"} /\ pc'[m] \in {"noticing", "noticed"}
        /\ Conv(m) \in notified' /\ UNCHANGED rows
    BY <1>0, <1>10 DEF NoticeTaskClaims, NoticeTaskSent, EndTold, TypeOK
  <2> QED
    BY <1>0, <2>1 DEF RowExcused, EndTold
<1> QED
  BY <1>1, <1>2, <1>3, <1>4, <1>5, <1>6, <1>7, <1>8, <1>9, <1>10 DEF WorkerStep, WorkerChance

LEMMA DrainWorker ==
    ASSUME OverlapInv, DrainInv, NEW m \in Messages,
           WorkerStep(m) \/ ModelCompletes(m) \/ WorkerChance(m)
    PROVE  DrainInv'
<1>0. TypeOK /\ CancelInv /\ RowInv /\ EndInv /\ StopInv
  BY DEF OverlapInv, DrainInv
<1>1. CancelInv' /\ \A n \in Messages : Superseded(n) => Superseded(n)'
  BY <1>0, WorkerCancels
<1>2. ASSUME NEW n \in Messages
      PROVE  RowExcused(n)' /\ EndTold(n)'
  <2>1. CASE n = m
    BY <1>0, <1>1, <2>1, MoverRecord
  <2>2. CASE n # m
    <3>1. /\ pc'[n] = pc[n] /\ end'[n] = end[n] /\ rows'[n] \in {rows[n], "none"}
          /\ incidents[n] \subseteq incidents'[n] /\ (cancelled[n] => cancelled'[n])
          /\ notified \subseteq notified'
      BY <1>0, <2>2, WorkerMoves
    <3> QED
      BY <1>0, <1>1, <3>1, RecordKept
  <2> QED
    BY <2>1, <2>2
<1>3. StopInv'
  <2>1. UNCHANGED <<arrivals, loop>> /\ pc[m] \notin {"idle", "replied", "done", "noticed"} /\ pc'[m] # "idle"
    BY <1>0, WorkerMoves
  <2>2. \A n \in Messages : n # m => pc'[n] = pc[n]
    BY <1>0, WorkerMoves
  <2>3. loop # "stopped"
    BY <1>0, <2>1 DEF StopInv, NoTaskLeft
  <2>4. \A i \in 1..Len(arrivals) : arrivals[i] \in Messages
    BY <1>0 DEF TypeOK
  <2> QED
    BY <1>0, <2>1, <2>2, <2>3, <2>4 DEF StopInv
<1> QED
  BY <1>1, <1>2, <1>3 DEF DrainInv, RowInv, EndInv

LEMMA DrainInit == ChannelDispatchInit => DrainInv
<1> SUFFICES ASSUME ChannelDispatchInit PROVE DrainInv
  OBVIOUS
<1> USE DEF ChannelDispatchInit
<1>1. CancelInv
  BY DEF CancelInv
<1>2. RowInv /\ EndInv
  BY DEF RowInv, EndInv, RowExcused, EndTold, Leaving
<1>3. StopInv
  BY DEF StopInv
<1> QED
  BY <1>1, <1>2, <1>3 DEF DrainInv

LEMMA DrainStep == OverlapInv /\ DrainInv /\ [ChannelDispatchNext]_vars => DrainInv'
<1> SUFFICES ASSUME OverlapInv, DrainInv, [ChannelDispatchNext]_vars PROVE DrainInv'
  OBVIOUS
<1>1. CASE UNCHANGED vars
  <2>1. UNCHANGED <<arrivals, loop, stopRunning, pc, end, cancelled, prev, reg, rows, notified, incidents>>
    BY <1>1 DEF vars, loopVars, signalVars, mapVars
  <2>2. CancelInv' /\ StopInv'
    BY <2>1 DEF DrainInv, CancelInv, StopInv, NoTaskLeft, Registered
  <2>3. \A n \in Messages : Superseded(n) <=> Superseded(n)'
    BY <2>1 DEF Superseded
  <2>4. RowInv' /\ EndInv'
    BY <2>1, <2>3, RecordKept DEF DrainInv, RowInv, EndInv
  <2> QED
    BY <2>2, <2>4 DEF DrainInv
<1> QED
  BY <1>1, DrainLoop, DrainWorker DEF ChannelDispatchNext

\* Whoever is interrupted before the drain has a worker of its sender that registered
\* after it, or denied a call: of any number of workers of one sender, one is left.
THEOREM OnlyLaterWorkersInterrupt == ChannelDispatchSpec => []OnlyALaterWorkerInterrupts
<1> QED
  BY OverlapInit, OverlapStep, DrainInit, DrainStep, DrainMeans, PTL DEF ChannelDispatchSpec

\* When the loop has stopped every message that arrived was answered, told of the
\* restart, superseded, or its turn panicked, was denied or belongs to a revoked sender.
THEOREM DrainAccounts == ChannelDispatchSpec => []DrainAccountsForEveryMessage
<1> QED
  BY OverlapInit, OverlapStep, DrainInit, DrainStep, DrainMeans, PTL DEF ChannelDispatchSpec

\* When the loop has stopped the only requests left open in the history are those of
\* turns that were superseded, panicked or denied a call (record_interruption).
THEOREM DrainCloses == ChannelDispatchSpec => []DrainClosesEveryRequest
<1> QED
  BY OverlapInit, OverlapStep, DrainInit, DrainStep, DrainMeans, PTL DEF ChannelDispatchSpec
=============================================================================
