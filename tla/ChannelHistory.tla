--------------------------- MODULE ChannelHistory ---------------------------
(***************************************************************************)
(* One channel conversation's history, which lives three times: the        *)
(* runtime's in-RAM map (ctx.conversation_histories), the channel_history  *)
(* row it is written through to, and the snapshot a writer took under the  *)
(* map's lock and has not saved yet (channels/history.rs).  Turns of the   *)
(* conversation run side by side; DELETE /api/v1/sessions/{id} asks the    *)
(* runtime over the bus to drop it, or drops the stored row itself when it *)
(* is told that no runtime is there; a restart seeds the map from the row. *)
(* Conversations are independent of each other, so there is one here.      *)
(*                                                                         *)
(* A row of the history is the turn that wrote it and its role; the rows   *)
(* a compaction merges stay two rows.                                      *)
(***************************************************************************)
EXTENDS Integers, Sequences, FiniteSets

CONSTANTS
    Turns,        \* the turns of one behaviour
    ToolTurns,    \* turns that store tool rows (MemoryView::All)
    MaxHistory,   \* MAX_CHANNEL_HISTORY
    CompactKeep,  \* CHANNEL_HISTORY_COMPACT_KEEP_MESSAGES
    MaxRestarts   \* bound: how often the runtime starts again

ASSUME HistoryAssumption ==
    /\ ToolTurns \subseteq Turns
    /\ MaxHistory \in Nat \ {0} /\ CompactKeep \in Nat /\ MaxRestarts \in Nat

VARIABLES
    ram,         \* the in-RAM history
    store,       \* the turns_json of the channel_history row, <<>> when absent
    snap,        \* the snapshot each turn has yet to save
    pc,          \* where each turn is
    counts,      \* in_flight_counter of the conversation
    runtime,     \* "up", "draining" after shutdown, "down"
    handler,     \* run_channel_bus_requests is running
    del,         \* where the DELETE request is
    restarts,    \* how often the runtime was started again
    erased,      \* history: turns that had begun when the DELETE succeeded
    erasedBy,    \* history: who erased, the runtime or the gateway
    forgotten,   \* history: turns that had begun when a lone /new succeeded
    overlapped,  \* history: the turns in flight are, or were, more than one
    apart        \* history: the last write of the stored row failed, or was
                 \* made by a turn that overlapped another, or by the gateway

vars == <<ram, store, snap, pc, counts, runtime, handler, del, restarts,
          erased, erasedBy, forgotten, overlapped, apart>>

deletes == <<erased, erasedBy>>
history == <<erased, erasedBy, forgotten>>

Roles == {"user", "carrier", "tool", "assistant"}
Rows == [turn : Turns, role : Roles]
Row(t, role) == [turn |-> t, role |-> role]

\* Where a turn is: counted, then either clearing the history as a command or
\* recording its user row, waiting for the model, recording how it ended.
Phases == {"idle", "counted", "clearing", "savingUser", "model", "savingCompact",
           "compacted", "savingEnd", "ending", "over"}

InFlight(t) == pc[t] \notin {"idle", "over"}
Begun == {t \in Turns : pc[t] # "idle"}

Goto(t, phase) == pc' = [pc EXCEPT ![t] = phase]

-----------------------------------------------------------------------------
(* The row lists.                                                          *)

\* Mutant: trims row by row, through the middle of a turn.
TrimToRows(rows) ==
    IF Len(rows) <= MaxHistory THEN rows
    ELSE SubSeq(rows, Len(rows) - MaxHistory + 1, Len(rows))

\* trim_to_whole_turns: cut at the first user row that leaves few enough rows;
\* one turn that is too long by itself goes whole.
TrimToWholeTurns(rows) ==
    LET Cuts == {i \in 2..Len(rows) :
                    rows[i].role = "user" /\ Len(rows) - i + 1 <= MaxHistory}
    IN  IF Len(rows) <= MaxHistory THEN rows
        ELSE IF Cuts = {} THEN <<>>
        ELSE SubSeq(rows, CHOOSE i \in Cuts : \A j \in Cuts : i <= j, Len(rows))

\* The rows at the indices in K, in their order.
Nth(K, n) == CHOOSE i \in K : Cardinality({j \in K : j <= i}) = n
KeepAt(rows, K) == [n \in 1..Cardinality(K) |-> rows[Nth(K, n)]]

IsToolRow(r) == r.role \in {"carrier", "tool"}

\* load_all: tool rows and their carriers do not survive a restart.
Seeded(rows) == KeepAt(rows, {i \in 1..Len(rows) : ~IsToolRow(rows[i])})

\* normalize_cached_channel_turns: nothing but a user row may begin a history,
\* and a tool row stays only after the carrier it answers.
Normalized(rows) ==
    LET Keeps(i) ==
            CASE rows[i].role = "user" -> TRUE
              [] rows[i].role = "tool" ->
                    \E j \in 1..(i - 1) :
                        /\ rows[j].role = "carrier"
                        /\ \A k \in (j + 1)..(i - 1) : rows[k].role = "tool"
                        /\ \E k \in 1..(j - 1) : rows[k].role = "user"
              [] OTHER -> \E k \in 1..(i - 1) : rows[k].role = "user"
    IN  KeepAt(rows, {i \in 1..Len(rows) : Keeps(i)})

\* compact_sender_history keeps the tail.  Of the turns in overlong a result row
\* is too long, and its carrier goes with it (drop_overlong_rows); of those in cut
\* the carrier is, which is shortened to prose and loses its results.
Compacted(rows, overlong, cut) ==
    LET from == IF Len(rows) > CompactKeep THEN Len(rows) - CompactKeep + 1 ELSE 1
        Dropped(r) == \/ r.turn \in overlong /\ IsToolRow(r)
                      \/ r.turn \in cut /\ r.role = "tool"
        Shortened(r) == IF r.turn \in cut /\ r.role = "carrier"
                        THEN Row(r.turn, "assistant") ELSE r
        normal == Normalized(SubSeq(rows, from, Len(rows)))
        kept == KeepAt(normal, {i \in 1..Len(normal) : ~Dropped(normal[i])})
    IN  [i \in 1..Len(kept) |-> Shortened(kept[i])]

\* What a turn records at its end, in one batch.
EndRows(t) ==
    IF t \in ToolTurns
    THEN <<Row(t, "carrier"), Row(t, "tool"), Row(t, "assistant")>>
    ELSE <<Row(t, "assistant")>>

-----------------------------------------------------------------------------
ChannelHistoryInit ==
    /\ ram = <<>> /\ store = <<>>
    /\ snap = [t \in Turns |-> <<>>]
    /\ pc = [t \in Turns |-> "idle"]
    /\ counts = 0
    /\ runtime = "up" /\ handler = TRUE
    /\ del = "idle" /\ restarts = 0
    /\ erased = {} /\ erasedBy = "nobody"
    /\ forgotten = {} /\ overlapped = FALSE /\ apart = FALSE

\* append_sender_turns, as far as the map's lock reaches: push, trim, snapshot.
AppendToRam(t, rows) ==
    LET turns == TrimToWholeTurns(ram \o rows) IN
    /\ ram' = turns
    /\ snap' = [snap EXCEPT ![t] = turns]

\* The stored row is written as a whole, or the write fails and is only logged.
Write(rows) ==
    \/ store' = rows /\ apart' = overlapped
    \/ apart' = TRUE /\ UNCHANGED store

\* persist_sender_turns, after the lock: saving nothing deletes the row.
Persist(t) ==
    /\ snap' = [snap EXCEPT ![t] = <<>>]
    /\ Write(snap[t])

-----------------------------------------------------------------------------
(* A turn of the conversation, run by a counted worker of the dispatcher.  *)

StartTurn(t) ==
    /\ pc[t] = "idle" /\ runtime # "down"
    /\ counts' = counts + 1
    /\ overlapped' = (counts > 0)
    /\ Goto(t, "counted")
    /\ UNCHANGED <<ram, store, snap, runtime, handler, del, restarts, history, apart>>

\* process_channel_message: the user row is recorded before the model is asked.
RecordUser(t) ==
    /\ pc[t] = "counted"
    /\ AppendToRam(t, <<Row(t, "user")>>)
    /\ Goto(t, "savingUser")
    /\ UNCHANGED <<store, counts, runtime, handler, del, restarts, history, overlapped,
                   apart>>

SaveUser(t) ==
    /\ pc[t] = "savingUser"
    /\ Persist(t)
    /\ Goto(t, "model")
    /\ UNCHANGED <<ram, counts, runtime, handler, del, restarts, history, overlapped>>

\* The provider reports a context overflow: the cached history is compacted,
\* saved, and the turn goes on to record its FAILED marker.
CompactHistory(t) ==
    /\ pc[t] = "model" /\ ram # <<>>
    /\ \E overlong, cut \in SUBSET ToolTurns :
          LET turns == Compacted(ram, overlong, cut) IN
          /\ ram' = turns
          /\ snap' = [snap EXCEPT ![t] = turns]
    /\ Goto(t, "savingCompact")
    /\ UNCHANGED <<store, counts, runtime, handler, del, restarts, history, overlapped,
                   apart>>

SaveCompacted(t) ==
    /\ pc[t] = "savingCompact"
    /\ Persist(t)
    /\ Goto(t, "compacted")
    /\ UNCHANGED <<ram, counts, runtime, handler, del, restarts, history, overlapped>>

\* A reply with its tool rows, or the marker of a turn that failed, timed out or
\* was stopped by the drain.
RecordEnd(t) ==
    /\ \/ pc[t] = "model" /\ (AppendToRam(t, EndRows(t)) \/ AppendToRam(t, <<Row(t, "assistant")>>))
       \/ pc[t] = "compacted" /\ AppendToRam(t, <<Row(t, "assistant")>>)
    /\ Goto(t, "savingEnd")
    /\ UNCHANGED <<store, counts, runtime, handler, del, restarts, history, overlapped,
                   apart>>

\* The turn was interrupted or denied, or it panicked: nothing closes it.
LeaveOpen(t) ==
    /\ pc[t] = "model"
    /\ Goto(t, "ending")
    /\ UNCHANGED <<ram, store, snap, counts, runtime, handler, del, restarts, history,
                   overlapped, apart>>

SaveEnd(t) ==
    /\ pc[t] = "savingEnd"
    /\ Persist(t)
    /\ Goto(t, "ending")
    /\ UNCHANGED <<ram, counts, runtime, handler, del, restarts, history, overlapped>>

\* Mutant: only the stored row is cleared.
KeepRam(t) ==
    /\ pc[t] = "counted"
    /\ Goto(t, "clearing")
    /\ UNCHANGED <<ram, store, snap, counts, runtime, handler, del, restarts, history,
                   overlapped, apart>>

\* /new, and a switch of provider or model: clear_sender_history in two steps,
\* the second of which may fail and is then only logged.
ClearRam(t) ==
    /\ pc[t] = "counted"
    /\ ram' = <<>>
    /\ Goto(t, "clearing")
    /\ UNCHANGED <<store, snap, counts, runtime, handler, del, restarts, history, overlapped,
                   apart>>

ClearStore(t) ==
    /\ pc[t] = "clearing"
    /\ Write(<<>>)
    /\ forgotten' = IF apart' THEN forgotten ELSE forgotten \cup Begun
    /\ Goto(t, "ending")
    /\ UNCHANGED <<ram, snap, counts, runtime, handler, del, restarts, deletes, overlapped>>

EndTurn(t) ==
    /\ pc[t] = "ending"
    /\ counts' = counts - 1
    /\ Goto(t, "over")
    /\ UNCHANGED <<ram, store, snap, runtime, handler, del, restarts, history, overlapped,
                   apart>>

-----------------------------------------------------------------------------
(* DELETE /api/v1/sessions/{id} of a channel session.                      *)

Erase(who) ==
    /\ erased' = Begun
    /\ erasedBy' = who

\* ChannelBus::try_request_drop.  The bus keeps its sender until the dispatch
\* loop has returned, so a request that finds the handler gone is refused.
AskDrop ==
    /\ del = "idle"
    /\ del' = CASE runtime = "down" -> "closed"
                [] runtime # "down" /\ handler -> "asked"
                [] OTHER -> "refused"
    /\ UNCHANGED <<ram, store, snap, pc, counts, runtime, handler, restarts, history,
                   overlapped, apart>>

\* Mutant: the handler clears whoever is in flight.
DropWithoutBusyCheck ==
    /\ del = "asked" /\ handler /\ runtime = "up"
    /\ ram' = <<>> /\ store' = <<>>
    /\ del' = "deleted" /\ Erase("runtime") /\ apart' = FALSE
    /\ UNCHANGED <<snap, pc, counts, runtime, handler, restarts, forgotten, overlapped>>

\* run_channel_bus_requests answers Busy, or clears both copies while it holds
\* the refcounts.
DropConversation ==
    /\ del = "asked" /\ handler /\ runtime = "up"
    /\ IF counts > 0
       THEN del' = "refused" /\ UNCHANGED <<ram, store, deletes, apart>>
       ELSE /\ ram' = <<>> /\ store' = <<>> /\ apart' = FALSE
            /\ del' = "deleted" /\ Erase("runtime")
    /\ UNCHANGED <<snap, pc, counts, runtime, handler, restarts, forgotten, overlapped>>

\* The clear of the stored row fails: RuntimeError, and only the map is cleared.
DropHalfFails ==
    /\ del = "asked" /\ handler /\ runtime = "up" /\ counts = 0
    /\ ram' = <<>>
    /\ del' = "refused" /\ apart' = TRUE
    /\ UNCHANGED <<store, snap, pc, counts, runtime, handler, restarts, history, overlapped>>

\* Mutant: a request still queued is left without an answer.
HandlerExitsSilently ==
    /\ handler /\ runtime # "up"
    /\ handler' = FALSE
    /\ UNCHANGED <<ram, store, snap, pc, counts, runtime, del, restarts, history, overlapped,
                   apart>>

\* The handler ends with the shutdown token; a queued request loses its oneshot,
\* which the gateway reads as Closed.
HandlerExits ==
    /\ handler /\ runtime # "up"
    /\ handler' = FALSE
    /\ del' = IF del = "asked" THEN "closed" ELSE del
    /\ UNCHANGED <<ram, store, snap, pc, counts, runtime, restarts, history, overlapped,
                   apart>>

\* Closed: the gateway deletes the stored row through a handle of its own.
GatewayDeletes ==
    /\ del = "closed"
    /\ \/ store' = <<>> /\ apart' = TRUE /\ del' = "deleted" /\ Erase("gateway")
       \/ del' = "refused" /\ UNCHANGED <<store, deletes, apart>>
    /\ UNCHANGED <<ram, snap, pc, counts, runtime, handler, restarts, forgotten, overlapped>>

-----------------------------------------------------------------------------
(* The life of the runtime.                                                *)

Shutdown ==
    /\ runtime = "up"
    /\ runtime' = "draining"
    /\ UNCHANGED <<ram, store, snap, pc, counts, handler, del, restarts, history, overlapped,
                   apart>>

\* run_channel_runtime returns once the loop has joined its workers and the
\* handler has gone; the map goes with its context.
RuntimeEnds ==
    /\ runtime = "draining" /\ counts = 0 /\ ~handler
    /\ runtime' = "down" /\ ram' = <<>>
    /\ UNCHANGED <<store, snap, pc, counts, handler, del, restarts, history, overlapped,
                   apart>>

\* The process dies: turns in flight and an unanswered DELETE die with it.
Crash ==
    /\ runtime # "down"
    /\ runtime' = "down" /\ handler' = FALSE
    /\ ram' = <<>> /\ counts' = 0
    /\ snap' = [t \in Turns |-> <<>>]
    /\ pc' = [t \in Turns |-> IF InFlight(t) THEN "over" ELSE pc[t]]
    /\ del' = IF del \in {"asked", "closed"} THEN "refused" ELSE del
    /\ UNCHANGED <<store, restarts, history, overlapped, apart>>

\* Mutant: the new runtime starts from an empty map.
RestartUnseeded ==
    /\ runtime = "down" /\ restarts < MaxRestarts
    /\ runtime' = "up" /\ handler' = TRUE
    /\ restarts' = restarts + 1 /\ apart' = FALSE
    /\ UNCHANGED <<ram, store, snap, pc, counts, del, history, overlapped>>

\* build_channel_runtime: the map is seeded from the stored row.
Restart ==
    /\ runtime = "down" /\ restarts < MaxRestarts
    /\ runtime' = "up" /\ handler' = TRUE
    /\ restarts' = restarts + 1
    /\ ram' = Seeded(store) /\ apart' = FALSE
    /\ UNCHANGED <<store, snap, pc, counts, del, history, overlapped>>

-----------------------------------------------------------------------------
TurnStep(t) ==
    \/ RecordUser(t) \/ SaveUser(t) \/ SaveCompacted(t) \/ RecordEnd(t) \/ SaveEnd(t)
    \/ ClearStore(t) \/ EndTurn(t)

ChannelHistoryNext ==
    \/ \E t \in Turns : StartTurn(t) \/ TurnStep(t) \/ ClearRam(t) \/ CompactHistory(t) \/ LeaveOpen(t)
    \/ AskDrop \/ DropConversation \/ DropHalfFails \/ HandlerExits \/ GatewayDeletes
    \/ Shutdown \/ RuntimeEnds \/ Crash \/ Restart

ChannelHistorySpec == ChannelHistoryInit /\ [][ChannelHistoryNext]_vars

\* Tasks that can run are scheduled; whether a turn or a restart comes is open.
FairHistory ==
    /\ ChannelHistorySpec
    /\ WF_vars(DropConversation) /\ WF_vars(HandlerExits) /\ WF_vars(GatewayDeletes)

-----------------------------------------------------------------------------
(* Properties.                                                             *)

\* Every variable keeps its type.
TypeOK ==
    /\ ram \in Seq(Rows) /\ store \in Seq(Rows) /\ snap \in [Turns -> Seq(Rows)]
    /\ pc \in [Turns -> Phases] /\ counts \in Nat
    /\ runtime \in {"up", "draining", "down"} /\ handler \in BOOLEAN
    /\ del \in {"idle", "asked", "closed", "refused", "deleted"}
    /\ restarts \in 0..MaxRestarts
    /\ erased \in SUBSET Turns /\ erasedBy \in {"nobody", "runtime", "gateway"}
    /\ forgotten \in SUBSET Turns /\ overlapped \in BOOLEAN /\ apart \in BOOLEAN

Quiet == runtime = "up" /\ counts = 0

\* What a restart would resume is what the runtime remembers, whenever no turn is in
\* flight and the last write of the row was that of a turn that had been alone, or a
\* DELETE, and succeeded: over any mix of appends, trims, compactions, clears, deletes
\* and crashes the write-through of channels/history.rs loses nothing, and a row that
\* fell behind (a failed write, turns that overlapped) is made good by the next one.
SerialTurnsSurviveRestart == (Quiet /\ ~apart) => Seeded(store) = Seeded(ram)

RowTurns == {ram[i].turn : i \in 1..Len(ram)} \cup {store[i].turn : i \in 1..Len(store)}

\* A DELETE the runtime answered leaves no row of a turn that had begun by then,
\* in the map or on disk, however late that turn's writes and through restarts.
RuntimeDeleteIsFinal == erasedBy = "runtime" => RowTurns \cap erased = {}

\* A /new that no other turn overlapped, and whose delete of the row succeeded, is
\* final as well (clear_sender_history): no row of a turn that had begun comes back,
\* from a later write or a restart, or from the snapshot of a turn before it.
LoneNewIsFinal == RowTurns \cap forgotten = {}

\* So is, on disk, a DELETE the gateway answered by itself: "the in-RAM entry is
\* the previous runtime's and is gone with it" (gateway/api_v1.rs, sessions_delete).
GatewayDeleteIsFinal ==
    erasedBy = "gateway" => \A i \in 1..Len(store) : store[i].turn \notin erased

\* Trimming, compaction and restarts leave no tool row without the carrier it
\* answers, though turns interleave: what trim_to_whole_turns promises the next
\* call of normalize_cached_channel_turns.
ToolRowsFollowTheirCarrier ==
    \A i \in 1..Len(ram) :
        ram[i].role = "tool" =>
            i > 1 /\ ram[i - 1].turn = ram[i].turn /\ ram[i - 1].role \in {"carrier", "tool"}

\* A DELETE that reached the request queue is always answered, though the handler
\* may end while it is queued (try_request_drop awaits a oneshot without a timeout).
DeleteIsAnswered == (del = "asked") ~> (del \in {"refused", "deleted"})
=============================================================================
