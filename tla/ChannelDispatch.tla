--------------------------- MODULE ChannelDispatch ---------------------------
(***************************************************************************)
(* The channel runtime's message dispatch loop, src/channels/dispatch.rs   *)
(* run_message_dispatch_loop: one loop task takes messages off an mpsc     *)
(* queue, waits for a semaphore permit and spawns one worker task for each *)
(* message.  A worker of an interruptible message cancels its sender's     *)
(* previous worker and waits for it before its own turn begins.  Shutdown  *)
(* drains: what is queued is told, what runs gets a deadline, is then      *)
(* stopped, recorded as interrupted and told.                              *)
(*                                                                         *)
(* A worker task runs from one await to the next in one step, so an action *)
(* of a worker is the code between two awaits.  The agent turn itself      *)
(* (process_channel_message) is reduced to what the loop can see of it:    *)
(* whether it wrote its user row, answered it, and how it ended.           *)
(***************************************************************************)
EXTENDS Integers, Sequences, FiniteSets

CONSTANTS
    Messages,        \* the inbound messages of one behaviour
    Conversations,   \* values of conversation_history_key
    Scopes,          \* values of interruption_scope_key
    ConversationOf,  \* [Messages -> Conversations]
    ScopeOf,         \* [Messages -> Scopes]
    Interruptible,   \* messages of a channel with interrupt_on_new_message
    MaxInFlight,     \* permits of the semaphore (compute_max_in_flight_messages)
    GatewayHoldsSender, \* the gateway keeps a Sender of the queue until shutdown
    NoMessage

ASSUME MessagesAssumption ==
    /\ ConversationOf \in [Messages -> Conversations]
    /\ ScopeOf \in [Messages -> Scopes]
    /\ Interruptible \subseteq Messages
    /\ NoMessage \notin Messages
    /\ GatewayHoldsSender \in BOOLEAN

ASSUME PermitsAssumption == MaxInFlight \in Nat \ {0}

VARIABLES
    arrivals,     \* every message the channels sent, in the order they sent it
    taken,        \* how many of them the loop has taken off the queue
    sendersGone,  \* every Sender of the queue was dropped
    shutdown,     \* the shutdown token is cancelled
    stopRunning,  \* stop_running_turns is cancelled
    loop,         \* what the loop task awaits
    held,         \* the message the loop holds while it awaits
    permits,      \* free permits of the semaphore
    pc,           \* where the task of each message is
    end,          \* the TurnEnd of each message's turn
    cancelled,    \* the cancellation token of each worker
    done,         \* the InFlightTaskCompletion of each worker
    prev,         \* the worker each worker replaced in the map
    active,       \* in_flight_by_sender
    counts,       \* in_flight_counter
    rows,         \* the user row of each message in the conversation history
    notified,     \* conversations that were told of the restart
    reg,          \* history: the order of the map insertions
    regs,         \* history: how many map insertions there were
    incidents     \* history: what befell each worker

loopVars == <<arrivals, taken, sendersGone, shutdown, stopRunning, loop, held>>
mapVars == <<prev, active, reg, regs>>
signalVars == <<cancelled, done>>
vars == <<loopVars, permits, pc, end, signalVars, mapVars, counts, rows, notified, incidents>>

(***************************************************************************)
(* A worker goes down this list; "panicked" workers enter it at "unwind".  *)
(* "unstarted", "noticing" and "noticed" are the task RestartNotice spawns *)
(* for a message that never gets a worker, "acking" and "replied" are an   *)
(* approval reply the loop consumed itself.                                *)
(***************************************************************************)
Phases == {"idle", "queued", "held", "acking", "replied",
           "spawned", "counted", "waiting", "ready", "turn", "reply", "ended",
           "notify", "unmap", "unwind", "signal", "release", "done",
           "unstarted", "noticing", "noticed"}

LoopPhases == {"recv", "acking", "permit", "drain", "joining", "joinall", "stopped"}

TurnEnds == {"none", "Finished", "Cancelled", "NotStarted"}

Incidents == {"timed_out", "panicked", "denied", "revoked"}

Conv(m) == ConversationOf[m]
Scope(m) == ScopeOf[m]

ChannelDispatchInit ==
    /\ arrivals = <<>> /\ taken = 0 /\ sendersGone = FALSE
    /\ shutdown = FALSE /\ stopRunning = FALSE
    /\ loop = "recv" /\ held = NoMessage
    /\ permits = MaxInFlight
    /\ pc = [m \in Messages |-> "idle"]
    /\ end = [m \in Messages |-> "none"]
    /\ cancelled = [m \in Messages |-> FALSE]
    /\ done = [m \in Messages |-> FALSE]
    /\ prev = [m \in Messages |-> NoMessage]
    /\ active = [s \in Scopes |-> NoMessage]
    /\ counts = [c \in Conversations |-> 0]
    /\ rows = [m \in Messages |-> "none"]
    /\ notified = {}
    /\ reg = [m \in Messages |-> 0] /\ regs = 0
    /\ incidents = [m \in Messages |-> {}]

Goto(m, phase) == pc' = [pc EXCEPT ![m] = phase]
Befell(m, what) == incidents' = [incidents EXCEPT ![m] = @ \cup {what}]

-----------------------------------------------------------------------------
(* The environment: producers of the queue, and the shutdown signal.       *)

\* A listener or the gateway sends a message; rx.close() refuses the later ones.
Arrive(m) ==
    /\ pc[m] = "idle" /\ ~sendersGone
    /\ loop \in {"recv", "acking", "permit", "drain"}
    /\ arrivals' = Append(arrivals, m)
    /\ Goto(m, "queued")
    /\ UNCHANGED <<taken, sendersGone, shutdown, stopRunning, loop, held, permits, end,
                   signalVars, mapVars, counts, rows, notified, incidents>>

\* Without a gateway the last Sender can go before shutdown is asked for.
SendersGone ==
    /\ ~sendersGone /\ ~GatewayHoldsSender
    /\ sendersGone' = TRUE
    /\ UNCHANGED <<arrivals, taken, shutdown, stopRunning, loop, held, permits, pc, end,
                   signalVars, mapVars, counts, rows, notified, incidents>>

RequestShutdown ==
    /\ ~shutdown
    /\ shutdown' = TRUE
    /\ UNCHANGED <<arrivals, taken, sendersGone, stopRunning, loop, held, permits, pc, end,
                   signalVars, mapVars, counts, rows, notified, incidents>>

\* ChannelBus::try_request_drop served by run_channel_bus_requests: the busy
\* check and the clear are one critical section, and the handler ends with the
\* shutdown token.
BusDrop(c) ==
    /\ ~shutdown
    /\ counts[c] = 0
    /\ rows' = [m \in Messages |-> IF Conv(m) = c THEN "none" ELSE rows[m]]
    /\ UNCHANGED <<loopVars, permits, pc, end, signalVars, mapVars, counts, notified, incidents>>

-----------------------------------------------------------------------------
(* The loop task.                                                          *)

HasQueued == taken < Len(arrivals)

Queued == {arrivals[i] : i \in (taken + 1)..Len(arrivals)}

\* An approval reply is consumed by the relay: the loop itself sends the
\* acknowledgement, and starts no worker.
ReceiveApprovalReply ==
    /\ loop = "recv" /\ ~shutdown /\ HasQueued
    /\ taken' = taken + 1
    /\ held' = arrivals[taken + 1]
    /\ loop' = "acking"
    /\ Goto(arrivals[taken + 1], "acking")
    /\ UNCHANGED <<arrivals, sendersGone, shutdown, stopRunning, permits, end,
                   signalVars, mapVars, counts, rows, notified, incidents>>

AckSent ==
    /\ loop = "acking"
    /\ loop' = "recv" /\ held' = NoMessage
    /\ Goto(held, "replied")
    /\ UNCHANGED <<arrivals, taken, sendersGone, shutdown, stopRunning, permits, end,
                   signalVars, mapVars, counts, rows, notified, incidents>>

ReceiveMessage ==
    /\ loop = "recv" /\ ~shutdown /\ HasQueued
    /\ taken' = taken + 1
    /\ held' = arrivals[taken + 1]
    /\ loop' = "permit"
    /\ Goto(arrivals[taken + 1], "held")
    /\ UNCHANGED <<arrivals, sendersGone, shutdown, stopRunning, permits, end,
                   signalVars, mapVars, counts, rows, notified, incidents>>

\* Biased against shutdown: a free permit is taken only while none is asked.
SpawnWorker ==
    /\ loop = "permit" /\ ~shutdown
    /\ permits > 0
    /\ permits' = permits - 1
    /\ loop' = "recv" /\ held' = NoMessage
    /\ Goto(held, "spawned")
    /\ UNCHANGED <<arrivals, taken, sendersGone, shutdown, stopRunning, end,
                   signalVars, mapVars, counts, rows, notified, incidents>>

\* Mutant: the loop breaks without a notice for the message it holds.
ShutdownForgetsHeld ==
    /\ loop = "permit" /\ shutdown
    /\ loop' = "drain" /\ held' = NoMessage
    /\ Goto(held, "noticed")
    /\ UNCHANGED <<arrivals, taken, sendersGone, shutdown, stopRunning, permits, end,
                   signalVars, mapVars, counts, rows, notified, incidents>>

\* The message that waited for a permit never starts; its notice is spawned.
ShutdownWhileHeld ==
    /\ loop = "permit" /\ shutdown
    /\ loop' = "drain" /\ held' = NoMessage
    /\ Goto(held, "unstarted")
    /\ UNCHANGED <<arrivals, taken, sendersGone, shutdown, stopRunning, permits, end,
                   signalVars, mapVars, counts, rows, notified, incidents>>

ShutdownWhileReceiving ==
    /\ loop = "recv" /\ shutdown
    /\ loop' = "drain"
    /\ UNCHANGED <<arrivals, taken, sendersGone, shutdown, stopRunning, held, permits, pc, end,
                   signalVars, mapVars, counts, rows, notified, incidents>>

\* rx.close(), then a notice task for each message still queued: no await
\* between them.
CloseAndNotifyQueued ==
    /\ loop = "drain"
    /\ taken' = Len(arrivals)
    /\ pc' = [m \in Messages |-> IF m \in Queued THEN "unstarted" ELSE pc[m]]
    /\ loop' = "joining"
    /\ UNCHANGED <<arrivals, sendersGone, shutdown, stopRunning, held, permits, end,
                   signalVars, mapVars, counts, rows, notified, incidents>>

\* recv() answers None: nothing more can arrive, the loop only joins.  Whether
\* that counts as a shutdown is decided by the token, not by the branch taken.
QueueEnded ==
    /\ loop = "recv" /\ ~shutdown /\ sendersGone /\ ~HasQueued
    /\ loop' = "joinall"
    /\ UNCHANGED <<arrivals, taken, sendersGone, shutdown, stopRunning, held, permits, pc, end,
                   signalVars, mapVars, counts, rows, notified, incidents>>

\* CHANNEL_DRAIN_DEADLINE passed.
DrainDeadline ==
    /\ loop = "joining" /\ ~stopRunning
    /\ stopRunning' = TRUE
    /\ UNCHANGED <<arrivals, taken, sendersGone, shutdown, loop, held, permits, pc, end,
                   signalVars, mapVars, counts, rows, notified, incidents>>

NoTaskLeft ==
    \A m \in Messages : pc[m] \in {"idle", "replied", "done", "noticed"}

AllJoined ==
    /\ loop \in {"joining", "joinall"}
    /\ NoTaskLeft
    /\ loop' = "stopped"
    /\ UNCHANGED <<arrivals, taken, sendersGone, shutdown, stopRunning, held, permits, pc, end,
                   signalVars, mapVars, counts, rows, notified, incidents>>

-----------------------------------------------------------------------------
(* The worker task of message m.                                           *)

\* First poll: token, completion and guards are made, the turn is counted.
StartWorker(m) ==
    /\ pc[m] = "spawned"
    /\ counts' = [counts EXCEPT ![Conv(m)] = @ + 1]
    /\ Goto(m, IF m \in Interruptible THEN "counted" ELSE "ready")
    /\ UNCHANGED <<loopVars, permits, end, signalVars, mapVars, rows, notified, incidents>>

\* Mutant: the worker that finds another gives way to it.
RegisterGivesWay(m) ==
    LET previous == active[Scope(m)] IN
    /\ pc[m] = "counted"
    /\ active' = [active EXCEPT ![Scope(m)] = m]
    /\ prev' = [prev EXCEPT ![m] = previous]
    /\ regs' = regs + 1
    /\ reg' = [reg EXCEPT ![m] = regs + 1]
    /\ cancelled' = [cancelled EXCEPT ![m] = previous # NoMessage]
    /\ Goto(m, IF previous = NoMessage THEN "ready" ELSE "waiting")
    /\ UNCHANGED <<loopVars, permits, end, done, counts, rows, notified, incidents>>

\* Under the map's lock the worker replaces its sender's entry; it cancels the
\* worker it replaced and waits for it.
Register(m) ==
    LET previous == active[Scope(m)] IN
    /\ pc[m] = "counted"
    /\ active' = [active EXCEPT ![Scope(m)] = m]
    /\ prev' = [prev EXCEPT ![m] = previous]
    /\ regs' = regs + 1
    /\ reg' = [reg EXCEPT ![m] = regs + 1]
    /\ cancelled' = IF previous = NoMessage THEN cancelled
                    ELSE [cancelled EXCEPT ![previous] = TRUE]
    /\ Goto(m, IF previous = NoMessage THEN "ready" ELSE "waiting")
    /\ UNCHANGED <<loopVars, permits, end, done, counts, rows, notified, incidents>>

PreviousDone(m) ==
    /\ pc[m] = "waiting"
    /\ done[prev[m]]
    /\ Goto(m, "ready")
    /\ UNCHANGED <<loopVars, permits, end, signalVars, mapVars, counts, rows, notified, incidents>>

\* IN_FLIGHT_COMPLETION_WAIT_TIMEOUT passed: the worker goes ahead anyway.
PreviousTimedOut(m) ==
    /\ pc[m] = "waiting"
    /\ Goto(m, "ready")
    /\ Befell(m, "timed_out")
    /\ UNCHANGED <<loopVars, permits, end, signalVars, mapVars, counts, rows, notified>>

\* The select that holds the turn takes its stop_running_turns branch.
StopTurn(m) ==
    /\ pc[m] \in {"ready", "turn", "reply"}
    /\ stopRunning /\ ~cancelled[m]
    /\ cancelled' = [cancelled EXCEPT ![m] = TRUE]
    /\ UNCHANGED <<loopVars, permits, pc, end, done, mapVars, counts, rows, notified, incidents>>

\* An assistant row after a user row that a clear has not taken meanwhile.
Close(m) == [rows EXCEPT ![m] = IF @ = "open" THEN "closed" ELSE @]

EndTurn(m, how) ==
    /\ end' = [end EXCEPT ![m] = how]
    /\ Goto(m, "ended")

TurnNotStarted(m) ==
    /\ pc[m] = "ready" /\ cancelled[m]
    /\ EndTurn(m, "NotStarted")
    /\ UNCHANGED <<loopVars, permits, signalVars, mapVars, counts, rows, notified, incidents>>

\* The sender lost its place in allowed_users while the message was queued.
TurnRevoked(m) ==
    /\ pc[m] = "ready" /\ ~cancelled[m]
    /\ EndTurn(m, "NotStarted")
    /\ Befell(m, "revoked")
    /\ UNCHANGED <<loopVars, permits, signalVars, mapVars, counts, rows, notified>>

\* A runtime command, or a provider that cannot be built: answered in place,
\* before any user row is written.
TurnAnsweredInPlace(m) ==
    /\ pc[m] = "ready" /\ ~cancelled[m]
    /\ EndTurn(m, "Finished")
    /\ UNCHANGED <<loopVars, permits, signalVars, mapVars, counts, rows, notified, incidents>>

\* /new, and a /model or /models that changes the route: the command clears the
\* conversation's history, whoever else has a turn in it.
TurnClearsHistory(m) ==
    /\ pc[m] = "ready" /\ ~cancelled[m]
    /\ rows' = [n \in Messages |-> IF Conv(n) = Conv(m) THEN "none" ELSE rows[n]]
    /\ EndTurn(m, "Finished")
    /\ UNCHANGED <<loopVars, permits, signalVars, mapVars, counts, notified, incidents>>

TurnBegins(m) ==
    /\ pc[m] = "ready" /\ ~cancelled[m]
    /\ rows' = [rows EXCEPT ![m] = "open"]
    /\ Goto(m, "turn")
    /\ UNCHANGED <<loopVars, permits, end, signalVars, mapVars, counts, notified, incidents>>

\* The tool loop completed, failed or ran out of its time budget.  The select
\* is not biased, so a cancelled turn that is also complete may still answer.
ModelCompletes(m) ==
    /\ pc[m] = "turn"
    /\ Goto(m, "reply")
    /\ UNCHANGED <<loopVars, permits, end, signalVars, mapVars, counts, rows, notified, incidents>>

\* The answer or the error was sent; then its assistant row is recorded.
TurnFinishes(m) ==
    /\ pc[m] = "reply"
    /\ rows' = Close(m)
    /\ EndTurn(m, "Finished")
    /\ UNCHANGED <<loopVars, permits, signalVars, mapVars, counts, notified, incidents>>

\* An owner denied a tool call: the tool loop cancels the turn's own token.
ApprovalDenied(m) ==
    /\ pc[m] = "turn" /\ ~cancelled[m]
    /\ cancelled' = [cancelled EXCEPT ![m] = TRUE]
    /\ Befell(m, "denied")
    /\ UNCHANGED <<loopVars, permits, pc, end, done, mapVars, counts, rows, notified>>

TurnCancelled(m) ==
    /\ pc[m] = "turn" /\ cancelled[m]
    /\ EndTurn(m, "Cancelled")
    /\ UNCHANGED <<loopVars, permits, signalVars, mapVars, counts, rows, notified, incidents>>

\* Mutant: the code the guards replaced, which an unwind skipped.
PanicSkipsGuards(m) ==
    /\ pc[m] \in {"ready", "turn", "reply"}
    /\ Goto(m, "done")
    /\ Befell(m, "panicked")
    /\ UNCHANGED <<loopVars, permits, end, signalVars, mapVars, counts, rows, notified>>

\* A panic anywhere in the turn unwinds through the guards only.
TurnPanics(m) ==
    /\ pc[m] \in {"ready", "turn", "reply"}
    /\ Goto(m, "unwind")
    /\ Befell(m, "panicked")
    /\ UNCHANGED <<loopVars, permits, end, signalVars, mapVars, counts, rows, notified>>

StoppedByDrain(m) == stopRunning /\ end[m] \in {"Cancelled", "NotStarted"}

\* RestartNotice::send claims the conversation; only the first claim sends.
ClaimNotice(m, send, skip) ==
    /\ notified' = notified \cup {Conv(m)}
    /\ Goto(m, IF Conv(m) \in notified THEN skip ELSE send)

\* Mutant: the interruption is told and not recorded.
SettleEndUnrecorded(m) ==
    /\ pc[m] = "ended"
    /\ IF StoppedByDrain(m)
       THEN ClaimNotice(m, "notify", "unmap")
       ELSE Goto(m, "unmap") /\ UNCHANGED notified
    /\ UNCHANGED <<loopVars, permits, end, signalVars, mapVars, counts, rows, incidents>>

\* A turn the drain stopped is recorded as interrupted and its conversation is
\* told; any other turn ends here.
SettleEnd(m) ==
    /\ pc[m] = "ended"
    /\ IF StoppedByDrain(m)
       THEN /\ rows' = IF end[m] = "Cancelled" THEN Close(m) ELSE rows
            /\ ClaimNotice(m, "notify", "unmap")
       ELSE Goto(m, "unmap") /\ UNCHANGED <<rows, notified>>
    /\ UNCHANGED <<loopVars, permits, end, signalVars, mapVars, counts, incidents>>

WorkerNoticeSent(m) ==
    /\ pc[m] = "notify"
    /\ Goto(m, "unmap")
    /\ UNCHANGED <<loopVars, permits, end, signalVars, mapVars, counts, rows, notified, incidents>>

\* Mutant: the removal does not look whose entry it is.
AnyEntryIsMine(m) == TRUE

\* state.task_id == task_id
EntryIsMine(m) == active[Scope(m)] = m

\* The entry goes only if it is still this worker's.
Unmap(m) ==
    /\ pc[m] = "unmap"
    /\ active' = IF m \in Interruptible /\ EntryIsMine(m)
                 THEN [active EXCEPT ![Scope(m)] = NoMessage] ELSE active
    /\ Goto(m, "unwind")
    /\ UNCHANGED <<loopVars, permits, end, signalVars, prev, reg, regs, counts, rows, notified,
                   incidents>>

\* Mutant: the guard removes the conversation's entry instead of decrementing it.
DropWholeCount(m) ==
    /\ pc[m] = "unwind"
    /\ counts' = [counts EXCEPT ![Conv(m)] = 0]
    /\ Goto(m, "signal")
    /\ UNCHANGED <<loopVars, permits, end, signalVars, mapVars, rows, notified, incidents>>

\* Locals drop in reverse order: InFlightCountGuard, CompletionGuard, permit.
DropCount(m) ==
    /\ pc[m] = "unwind"
    /\ counts' = [counts EXCEPT ![Conv(m)] = IF @ = 0 THEN 0 ELSE @ - 1]
    /\ Goto(m, "signal")
    /\ UNCHANGED <<loopVars, permits, end, signalVars, mapVars, rows, notified, incidents>>

\* Mutant: the completion is never marked.
SignalLost(m) ==
    /\ pc[m] = "signal"
    /\ Goto(m, "release")
    /\ UNCHANGED <<loopVars, permits, end, signalVars, mapVars, counts, rows, notified, incidents>>

SignalDone(m) ==
    /\ pc[m] = "signal"
    /\ done' = [done EXCEPT ![m] = TRUE]
    /\ Goto(m, "release")
    /\ UNCHANGED <<loopVars, permits, end, cancelled, mapVars, counts, rows, notified, incidents>>

ReleasePermit(m) ==
    /\ pc[m] = "release"
    /\ permits' = permits + 1
    /\ Goto(m, "done")
    /\ UNCHANGED <<loopVars, end, signalVars, mapVars, counts, rows, notified, incidents>>

-----------------------------------------------------------------------------
(* The notice task of a message that never started.                        *)

NoticeTaskClaims(m) ==
    /\ pc[m] = "unstarted"
    /\ ClaimNotice(m, "noticing", "noticed")
    /\ UNCHANGED <<loopVars, permits, end, signalVars, mapVars, counts, rows, incidents>>

NoticeTaskSent(m) ==
    /\ pc[m] = "noticing"
    /\ Goto(m, "noticed")
    /\ UNCHANGED <<loopVars, permits, end, signalVars, mapVars, counts, rows, notified, incidents>>

-----------------------------------------------------------------------------
LoopStep ==
    \/ ReceiveMessage \/ AckSent \/ SpawnWorker
    \/ ShutdownWhileHeld \/ ShutdownWhileReceiving \/ CloseAndNotifyQueued
    \/ QueueEnded \/ DrainDeadline \/ AllJoined

\* What a worker does as soon as it is scheduled.
WorkerStep(m) ==
    \/ StartWorker(m) \/ Register(m) \/ PreviousDone(m)
    \/ StopTurn(m) \/ TurnNotStarted(m) \/ TurnBegins(m)
    \/ TurnFinishes(m) \/ TurnCancelled(m)
    \/ SettleEnd(m) \/ WorkerNoticeSent(m)
    \/ Unmap(m) \/ DropCount(m) \/ SignalDone(m) \/ ReleasePermit(m)
    \/ NoticeTaskClaims(m) \/ NoticeTaskSent(m)

\* What may or may not happen to a worker.
WorkerChance(m) ==
    \/ PreviousTimedOut(m) \/ TurnRevoked(m) \/ TurnAnsweredInPlace(m) \/ TurnClearsHistory(m)
    \/ ApprovalDenied(m) \/ TurnPanics(m)

Environment ==
    \/ \E m \in Messages : Arrive(m)
    \/ SendersGone \/ RequestShutdown
    \/ \E c \in Conversations : BusDrop(c)

\* The runtime was shut down and the loop returned: nothing has to follow.
Stopped ==
    /\ loop = "stopped"
    /\ UNCHANGED vars

ChannelDispatchNext ==
    \/ LoopStep
    \/ ReceiveApprovalReply
    \/ Environment
    \/ Stopped
    \/ \E m \in Messages : WorkerStep(m) \/ ModelCompletes(m) \/ WorkerChance(m)

ChannelDispatchSpec == ChannelDispatchInit /\ [][ChannelDispatchNext]_vars

\* The runtime schedules every task that can run; the drain's timer fires.
\* Nothing says that a turn ends by itself, or that a wait times out.
SchedulingFairness ==
    /\ WF_vars(LoopStep)
    /\ \A m \in Messages : WF_vars(WorkerStep(m))

\* channel_message_timeout_secs ends every turn.
TurnFairness == \A m \in Messages : WF_vars(ModelCompletes(m))

FairDispatch == ChannelDispatchSpec /\ SchedulingFairness

-----------------------------------------------------------------------------
(* Properties.                                                             *)

Registered(m) == reg[m] > 0

InTurn(m) == pc[m] \in {"turn", "reply"}

TurnOver(m) ==
    pc[m] \in {"ended", "notify", "unmap", "unwind", "signal", "release", "done"}

HoldsPermit(m) ==
    \/ pc[m] \in {"spawned", "counted", "waiting", "ready", "turn", "reply"}
    \/ (TurnOver(m) /\ pc[m] # "done")

Counted(m) ==
    pc[m] \in {"counted", "waiting", "ready", "turn", "reply",
               "ended", "notify", "unmap", "unwind"}

Superseded(m) == \E n \in Messages : prev[n] = m

ScopeTimedOut(s) == \E m \in Messages : Scope(m) = s /\ "timed_out" \in incidents[m]

\* Every variable keeps its type.
TypeOK ==
    /\ arrivals \in Seq(Messages) /\ taken \in 0..Len(arrivals)
    /\ sendersGone \in BOOLEAN /\ shutdown \in BOOLEAN /\ stopRunning \in BOOLEAN
    /\ loop \in LoopPhases /\ held \in Messages \cup {NoMessage}
    /\ permits \in Nat
    /\ pc \in [Messages -> Phases] /\ end \in [Messages -> TurnEnds]
    /\ cancelled \in [Messages -> BOOLEAN] /\ done \in [Messages -> BOOLEAN]
    /\ prev \in [Messages -> Messages \cup {NoMessage}]
    /\ active \in [Scopes -> Messages \cup {NoMessage}]
    /\ counts \in [Conversations -> Nat]
    /\ rows \in [Messages -> {"none", "open", "closed"}]
    /\ notified \in SUBSET Conversations
    /\ reg \in [Messages -> Nat] /\ regs \in Nat
    /\ incidents \in [Messages -> SUBSET Incidents]

\* Two turns of one sender overlap only after a wait for the previous turn gave
\* up (dispatch.rs: "Two overlapping turns for one sender is strictly better
\* than a channel that never answers again").  It takes the map, the completion
\* signal and the removal by task id together: three workers, not two, break it.
TurnsOverlapOnlyAfterTimeout ==
    \A m, n \in Interruptible :
        (m # n /\ Scope(m) = Scope(n) /\ InTurn(m) /\ InTurn(n)) => ScopeTimedOut(Scope(m))

(***************************************************************************)
(* Why TurnsOverlapOnlyAfterTimeout holds: the map names the sender's        *)
(* last registrant, a waiting worker waits for the one registered just     *)
(* before it, and so a worker that got past its wait without a timeout has *)
(* every earlier registrant's turn behind it.                              *)
(***************************************************************************)
PastWait(m) == pc[m] \in {"ready", "turn", "reply"} \/ TurnOver(m)

Earlier(n, m) == Scope(n) = Scope(m) /\ Registered(n) /\ reg[n] < reg[m]

QueueInv ==
    /\ \A i \in (taken + 1)..Len(arrivals) : pc[arrivals[i]] = "queued"
    /\ \A i, j \in (taken + 1)..Len(arrivals) : arrivals[i] = arrivals[j] => i = j
    /\ loop = "acking" => held \in Messages /\ pc[held] = "acking"
    /\ loop = "permit" => held \in Messages /\ pc[held] = "held"

RegistrationInv ==
    /\ \A m \in Messages :
          Registered(m) <=> (pc[m] = "waiting" \/ (m \in Interruptible /\ PastWait(m)))
    /\ \A m \in Messages : reg[m] <= regs
    /\ \A m, n \in Messages : (Registered(m) /\ reg[m] = reg[n]) => m = n
    /\ \A m \in Messages : pc[m] \in {"counted", "waiting"} => m \in Interruptible
    /\ \A m \in Messages : done[m] => TurnOver(m)

MapInv ==
    /\ \A s \in Scopes :
          active[s] # NoMessage =>
              /\ Registered(active[s]) /\ Scope(active[s]) = s
              /\ \A n \in Messages : (Registered(n) /\ Scope(n) = s) => reg[n] <= reg[active[s]]
    /\ \A m \in Messages :
          pc[m] = "waiting" =>
              /\ prev[m] \in Messages /\ Earlier(prev[m], m)
              /\ \A n \in Messages : Earlier(n, m) => reg[n] <= reg[prev[m]]

WaitInv ==
    /\ \A s \in Scopes :
          (active[s] = NoMessage /\ ~ScopeTimedOut(s)) =>
              \A n \in Messages : (Registered(n) /\ Scope(n) = s) => TurnOver(n)
    /\ \A m \in Messages :
          (Registered(m) /\ PastWait(m) /\ ~ScopeTimedOut(Scope(m))) =>
              \A n \in Messages : Earlier(n, m) => TurnOver(n)

OverlapInv == TypeOK /\ QueueInv /\ RegistrationInv /\ MapInv /\ WaitInv

\* The permit and the refcount of a worker are given back exactly once, on every
\* exit path including an unwind (the guards' doc comments in dispatch.rs and
\* supervisor.rs tell of the leaks this replaced).
GuardsBalance ==
    /\ permits + Cardinality({m \in Messages : HoldsPermit(m)}) = MaxInFlight
    /\ \A c \in Conversations :
          counts[c] = Cardinality({m \in Messages : Conv(m) = c /\ Counted(m)})

\* When the loop has stopped, every message was answered, its conversation was
\* told of the restart, a later turn of the same sender took its place, or its
\* turn panicked, was denied or belongs to a revoked sender: the drain leaves
\* nobody without an answer.
DrainAccountsForEveryMessage ==
    loop = "stopped" =>
        \A i \in 1..Len(arrivals) :
            LET m == arrivals[i] IN
            \/ end[m] = "Finished" \/ pc[m] = "replied"
            \/ Conv(m) \in notified
            \/ Superseded(m)
            \/ incidents[m] \cap {"panicked", "denied", "revoked"} # {}

\* A request the drain stopped does not stay open in the history: "A user turn
\* with no assistant turn after it is the one the model answers later, at a
\* moment nobody chose" (dispatch.rs, RestartNotice::record_interruption).
DrainClosesEveryRequest ==
    loop = "stopped" =>
        \A m \in Messages :
            rows[m] = "open" =>
                Superseded(m) \/ incidents[m] \cap {"panicked", "denied"} # {}

\* A DELETE over the bus never clears a conversation one of whose turns still has
\* its answer or its interruption to record, whatever the order in which the
\* turns of that conversation were counted and dropped (the bus-request handler's
\* busy check in channels/mod.rs).
ClearNeverUnderATurn ==
    [][\A c \in Conversations :
          BusDrop(c) => \A m \in Messages :
                           Conv(m) = c => pc[m] \notin {"ready", "turn", "reply", "ended"}]_vars

\* Interruption leaves the sender one worker that nobody interrupted: before the
\* drain stops the turns, whoever is cancelled has a worker of its sender that
\* registered after it (the docs say "the newest message", but workers register in the
\* order of their first polls, so it can be an older one that stays).
OnlyALaterWorkerInterrupts ==
    \A m \in Messages :
        (cancelled[m] /\ ~stopRunning /\ "denied" \notin incidents[m])
            => \E n \in Messages : Scope(n) = Scope(m) /\ reg[n] > reg[m] /\ reg[m] > 0

\* Once shutdown is asked for, the loop returns, whether or not any turn would
\* have ended by itself; unless every sender had gone first and the loop was
\* already joining its workers without a deadline.
ShutdownStops == (shutdown /\ loop # "joinall") ~> (loop = "stopped")

\* If every turn ends, every message that arrives is settled, though no wait
\* ever times out: a worker that ends or panics always releases the one that
\* waits for it, and always gives its permit back.
EveryMessageSettles ==
    TurnFairness =>
        \A m \in Messages :
            pc[m] = "queued" ~> pc[m] \in {"replied", "done", "noticed"}
=============================================================================
