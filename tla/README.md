# RantaiClaw: a verification project in TLA+

RantaiClaw is one Rust process that runs an LLM agent for many people at once: messages
arrive from chat channels, a terminal, a web console, an HTTP API and a scheduler, each
starts a *turn* of the agent, and a turn calls tools that may need a person's approval.
This directory models the parts of that process where order, concurrency and failure
decide what happens, checks them with TLC on small instances, and proves the central
results with TLAPS for every value of the constants.

Read a module next to its source: the definitions keep the names of the code where they
can, each action's comment names the function it stands for, and the table in
`PROJECT.json` (`map`) gives the lines.

## 1. The system

| component | state it keeps | operations | how it meets the others | what is hard, what makes it correct |
|---|---|---|---|---|
| channel dispatch loop (`channels/dispatch.rs`, `supervisor.rs`) | the message queue, permits, the map of each sender's running task, refcounts of conversations | take, interrupt, wait, run, settle, drain | starts agent turns; consumes approval replies; answers DELETEs over the bus | workers that replace each other, panics, shutdown at any point; no two turns of a sender at once, no leak, nobody left unanswered |
| channel history (`channels/history.rs`, `history_store.rs`) | the map in memory, its row in SQLite | append, trim, compact, clear, drop, seed | written by turns, dropped by the gateway through the bus | write-through after the unlock, restarts, deletes against running turns |
| approval queue and relay (`security/pending.rs`, `channels/approval_relay.rs`, `tools/shell.rs`) | two maps of pending requests, oneshots, the session allowlist | register, look up, resolve, expire, withdraw | a tool call waits; chat, terminal and web answer | lookups and removals that are separate steps, deadlines, callers that go away |
| agent turn (`agent/loop_.rs`, `approval/mod.rs`) | the batch of calls, the policy, the loop detector | ask, gate, approve, run, audit, stop | calls the provider, the queue and the tools | policy switches and stops between any two steps, parallel calls, two gates per call |
| cron scheduler (`cron/scheduler.rs`, `store.rs`, `schedule.rs`) | the job table, the in-flight registry | poll, skip, claim, run, reschedule, edit | starts agent turns and commands | batches of several polls, stale rows, crashes between a run and its write |
| channel connectors (`channels/*.rs`) | per platform | listen, send | feed the dispatch loop | platform protocols |
| listener supervision (`channels/supervisor.rs`) | backoff, health, a lock per channel | restart, probe | owns the listeners | growth and reset of the delay, shutdown in it |
| provider access (`providers/reliable.rs`) | key rotation, a chain of models | retry, fail over | asked by turns | which errors may be retried, one answer from several candidates |
| gateway webhooks (`gateway/mod.rs`) | idempotency keys with their ages | claim, mark, abort, hand on | feed the dispatch loop through the bus; run turns | redeliveries of what is still being worked on, expiry and eviction under a handler, dropped requests |
| configuration and pairing (`gateway/config_api.rs`, `config/`, `security/pairing.rs`) | `config.toml`, the running `Config`, its fingerprint, the paired tokens, the autonomy in force | write, pair, revoke, reload | guards the gateway, drives the policies | whole-file writes of four kinds of actors, one lock that only some of them take, a reloader that must skip the gateway's own writes |
| task board (`tasks/`, `tools/task_*.rs`) | tasks, reviews, subtasks | create, move, review, complete, delete | tools and gateway | actors validate against a status that is old when they write |
| cost accounting (`cost/tracker.rs`) | an append-only ledger | check, record | before and after a turn | the ceiling is a check, not a reservation |
| daemon (`daemon/`) | supervised components, sentinel | start, drain, hand over | starts everything | the order of the shutdown |
| lifecycle (`lifecycle/update.rs`) | the binary and its backup | update, verify, roll back | the file system | a crash between two renames |
| sessions, memory, knowledge base, skills, MCP, configuration, profiles, onboarding, doctor, health, observability, tunnels, TUI | files, rows, text | | | mostly sequential; see section 7 |

## 2. The modules

| module | what it is |
|---|---|
| `ChannelDispatch` | the dispatch loop and its workers |
| `ChannelHistory` | one conversation's history in memory, in transit and on disk |
| `ApprovalContract` | what an approval queue promises, in forty lines |
| `PendingApprovals` | the queue as it is, with the relay and the shell's gate; it implements `ApprovalContract` |
| `AgentTurn` | one turn: the loop, the two gates, the batch, the stop |
| `CronScheduler` | the poll loop over the job table |
| `WebhookIngress` | the idempotency store and the webhooks over it |
| `GatewayConfig` | `config.toml`, its writers and the copies the gateway keeps of it |
| `TaskBoard` | the rows of the task board, read and written apart by tools and handlers |
| `MC*` | instances for TLC |
| `*_proofs` | theorems and proofs |

The components meet at narrow interfaces and each module keeps the interface and closes the
rest: the dispatch loop sees of a turn how it ended and what it wrote; the history sees of
the dispatch loop when a turn is counted; a turn sees of the queue a verdict, which
`ApprovalContract` bounds; the scheduler sees of a run that it ends; a webhook sees of the dispatch
loop whether its queue took the message.

**ChannelDispatch.** `arrivals` and `taken` are the mpsc queue, `loop` and `held` the loop
task's await, `pc[m]` the await of the worker of message `m`. A tokio task runs from one
await to the next without giving way to itself but beside other threads, so an action is
the code between two awaits and shared structures (the map of senders, the semaphore, the
refcounts, the tokens) are single variables. The turn is reduced to whether it wrote the
user row, answered, was denied, was stopped or panicked. `reg` and `regs` are history: the
order in which workers entered the map.

**ChannelHistory.** A row is its turn and its role. `snap[t]` is what `append_sender_turn`
copied under the lock and has not saved: appending and saving are two actions.
`TrimToWholeTurns`, `Seeded`, `Normalized` and `Compacted` are the pure functions of the
source over sequences of rows, written with `KeepAt`, which says at which indices the kept
rows stood; what they do to text is left out. `erased`, `forgotten`, `overlapped` and
`apart` are history: the rows a DELETE and a lone `/new` erased, whether two turns of the
conversation have met, and whether the last write left the row behind memory. DELETE is
`AskDrop`, then the runtime's handler (`DropConversation`, `DropHalfFails`,
`HandlerExits`) or the gateway by itself (`GatewayDeletes`).

**PendingApprovals.** `waiting` and `snapshot` are the two maps; `slot[r]` the oneshot;
`req[r]` where the caller's future is; `rep[a]` a reply, which looks up a name, may read a
scope, removes a sender and sends, each a step of its own. `ToolQueue` tells the two queues
of the process apart: the tool queue shows the prompt before it registers the request, the
shell's queue widens an allowlist afterwards.

**AgentTurn.** `policy` is the live policy, which the operator switches at any time; a call
passes the role ceiling, the outer gate (prompt, unless the batch was found to run side by
side without prompts), read-only mode, then the tool, which may ask by itself. `call[i]`
keeps what was said of each call and what its audit line says. `strict` and `barred` are
history: what the policy has said of a call all the while since its batch came.

**CronScheduler.** `row` is the table, `poll` the rows a poll selected, `item[b][j]` the
progress of batch `b` with job `j` *and the row it was handed*, `claimed` the registry that
manual runs share. Time is a counter. A run ends in the write of its result and only then
gives the claim back. A batch whose job panics ends with all it held, and a crash of the
process leaves the table only. `settled` and `again` are history, for one-shots.

**WebhookIngress.** `store` is `IdempotencyStore`, one entry per key with its age; `handler[h]`
a request and the place in its batch. `Begin` is the critical section of `begin`: it drops what
has expired and evicts the oldest when the store is full. `MarkDone` and `Abort` act by key
alone, as in the code: nothing tells a handler that its entry is by now another's. `DropFuture`
is a request that ends at an await, without a mark or an abort. `since`, `lapsed` and `twice` are
history: when a key was last worked, which claims or marks went before their time, and which
keys were worked again within `Ttl` though nothing lapsed.

**GatewayConfig.** A file is the settings made in it, one per writer, and its tokens; the
fingerprint is the file. Each writer reads the whole file, awaits, and publishes the whole file.
The console (`LockAndLoad` to `ConsoleApplies`) holds `CONFIG_WRITE_LOCK`; a pairing
(`IssueToken` to `PairingSwaps`) does not take it; outsiders (an editor, the `/claim` of Telegram)
see only the file. The reloader wakes on `event`, skips a file whose fingerprint it already holds,
and otherwise syncs the tokens, swaps, stamps and applies the autonomy, one step each. A load may
fail (`LoadFails`): the event is used up, everything stays as it was, and nothing tries again until
the file changes. A reloader whose watcher could not be set up is `Unwatched` from the start.
`overtaken`, `missed`, `unread`, `revoked` and `stray` are history and name the crossings of two
writes that the code does not guard against, and the file that could not be read; each property
says what holds outside them. Left out: `require_pairing`, the other argument of
`sync_from_config`, and a `config.toml` deleted under the gateway, over which a console's write
starts from the running `Config`.

**TaskBoard.** `board` is the table, `call[c]` what a tool or a handler has read and means to
write. `Reads` is `get_task` and the checks on it, `Write` is `update_task`, by id, which does not
look again. Handlers of the gateway hold the lock of the shared configuration from one to the
other (`Unlocked`), tools hold nothing. `Doomed` is the cascade of the foreign key. `writer`
and `byTool` are history. A row's `hands` are its assignee, its reviewer and whether a person reviews
it; rows come in the `Hands` of the instance, and a patch of the gateway changes them alone or with
the status. `Named` are the agents whose process has a `RANTAICLAW_AGENT_ID`: only they are kept
from reviewing what is assigned to them.

## 3. What the runs check

Runs that pass:

| run | question | bounds, and why they are enough |
|---|---|---|
| `dispatch_interrupts` | do turns of one sender overlap; who interrupts whom; do permits and refcounts balance; does a DELETE clear under a turn; does the drain leave someone unanswered or a request open | three messages of one sender, two permits: a chain of three workers is what it takes to break the map, and two permits make the third wait for one; shutdown, panics, denials and deletes at any step |
| `dispatch_ends` | does the loop return after shutdown though no turn ends; is every message settled if turns do end | two messages of one sender, both interruptible, and senders that may all go away: what can wait for what is a pair. A channel whose messages do not interrupt each other skips the map and every wait (`Interruptible` smaller than `Messages`); the theorems cover it, the runs do not |
| `history_durable` | does a restart resume what the runtime remembered; is a DELETE it answered, or a /new of a turn that was alone, final; do tool rows keep their carrier; is a DELETE answered | two turns of four rows each over a history of six, so that trim and compaction cut inside a turn; two restarts: one to seed, one to show it. That a row left behind by two turns that overlapped is made good by a third is beyond this instance; the theorem covers it |
| `approvals_tool` | does one reply win; is no entry left behind; does a reply by name stay in its chat | two requests of one name in two chats and two replies: ambiguity needs two of each |
| `approvals_contract` | does the shell's queue with both gates implement `ApprovalContract`, its liveness included; when does a reply by name resolve, or widen, something else than it looked up | as above: two requests of one command, two chats, two replies |
| `agent_turn` | does what acts obey the policy; is the audit line true; does a no end the turn; does a stopped turn end | batches of up to two calls, two iterations, four presets and a switch: parallel or in order, and a switch between any two steps |
| `cron_scheduler` | is a job executed twice at once; do fired one-shots stay down; is what is due run or skipped | two jobs, three kinds of schedule, polls of one job, two batches, a manual run, two edits, one crash, failing writes, four instants: enough for a run that outlives two polls, a stale row and a job behind another |
| `webhook_ingress` | is a delivery worked twice; is a success earned; does a dropped request strand its key | two requests at a time; a batch of two messages, a batch of one beside a webhook, or a message under a nonce, delivered again at will; a store of one key, so that any second key evicts, and a time to live of two ticks, so that a claim or a mark can be young, old or expired under a handler |
| `gateway_config` | do writes of the console compose; do paired tokens last; does a revocation last; does memory follow the file | any three of two console writes, two pairings and an outsider's write, each given up at any point, beside a reloader with a watcher, each of whose loads may fail, or without one: two writers can cross, and a third one or the reloader makes the crossing, or what a failed load left, visible |
| `task_board` | which moves are illegal, and who made them; do agents get round a review; do subtasks lose their parent; do handlers race | three tasks, two agents, one of them named, and two requests, one call each: a chain of a task, its subtask and a deeper one, and a call of every kind between another's read and write; rows in nobody's hands, to be reviewed by an agent, or by a person. Requests are interchangeable, and so are the identifiers of tasks not made yet (symmetry; no liveness is checked) |

Runs in which the code departs from a sentence of its own:

| run | sentence | what happens |
|---|---|---|
| `history_gateway` | on `Closed` the map is the previous runtime's and "is gone with it" (`gateway/api_v1.rs`) | the handler has ended but the runtime drains: its turn writes the deleted conversation back |
| `cron_once` | "An `At` job fires exactly once" (`scheduler.rs`) | a job stays due until its run is written, so later polls select it again; a batch that comes to it late runs it from its old row |

Each property of a passing run has a mutant in its module, an operator that departs from
the code the way a bug might (a guard dropped, a signal lost, a row not seeded), and the
property fails under it.

**Deadlock.** The dispatch runs check it: `Stopped` is the one state in which nothing more
happens; so does `webhook_ingress`, whose senders never stop delivering. The other cfgs say
`CHECK_DEADLOCK FALSE`, as their systems may stop, when all requests are answered, the turn is
over, or a bound is used up.

**Fairness.** *Dispatch*: the loop and every worker are polled (weak fairness per task);
the grace period of the drain elapses; that a turn ends is an assumption of
`EveryMessageSettles` and not of `ShutdownStops`, and no wait is assumed to time out.
*History*: the bus handler and the gateway's request are polled. *Approvals*: a caller with a
decision, or with an elapsed deadline, is polled; people need not answer. *Turn*: the
loop is polled and the request for the final summary ends, because nothing races it;
providers, tools and people may never answer. *Cron*: the poll loop and each batch are polled;
a run ends, as commands and agent jobs have a time limit; a write that is tried again and
again goes through (strong fairness, as other writes may fail in between). *Webhooks*: handlers are
polled, time passes, and requests of some kind keep coming, because only a later `begin` lifts a
claim; a request may be dropped at any await. *Configuration*: the reloader, the console's handlers
and the pairings are polled; an outsider need not finish, and no load need succeed: `LoadFails` may come
each time instead, and is not part of what is fair.

Type invariants: TLC checks `TypeOK` where it carries a bound of the code (`agent_turn`,
`cron_scheduler`); in every module it is a theorem, and no other run repeats it.

## 4. What is proved

All with TLAPS, for any number of messages, senders, permits, requests, replies, tools, calls,
jobs, batches, deliveries, keys, writers, tokens and tasks. The assumptions are those on the constants (`MessagesAssumption`,
`PermitsAssumption`, `ApprovalsAssumption`, `TurnAssumption`, `CronAssumption`, `WebhookAssumption`,
`ConfigAssumption`, `BoardAssumption`, `HistoryAssumption`); TLC evaluates
them in the runs.

* **`ChannelDispatch_proofs`**: `DispatchTypeCorrect`, `NoOverlapWithoutTimeout`,
  `GuardsAlwaysBalance`, `ClearsNeverUnderATurn`, `OnlyLaterWorkersInterrupt`, `DrainAccounts`,
  `DrainCloses`. That two
  turns of a sender overlap only after a wait gave up is not inductive: it needs that the map
  names the sender's *last* registrant, that a waiting worker waits for the one registered
  just before it, and that whoever got past its wait has the turns of all earlier registrants
  behind it. `OverlapInv` says this (`QueueInv`, `RegistrationInv`, `MapInv`, `WaitInv`), with the
  escape that some worker of that sender timed out. `BalanceInv` counts permits and refcounts by
  phase; a DELETE over the bus then finds a count of zero only where no turn is under way.
  `DrainInv` says who may be cancelled and by whom (`CancelInv`), why a row is still open
  (`RowInv`), with what a turn ends and what its message is told (`EndInv`), and that the loop
  stops only when no task is left (`StopInv`); the two drain properties and
  `OnlyALaterWorkerInterrupts` follow from it.
* **`PendingApprovals_proofs`**: `ApprovalsTypeCorrect`, `OneResolverWins`, `NoPhantoms`,
  `ToolRepliesKeepToTheirChat`, `BareRepliesStrayByATwin`, `RiskGateWidensByATwin`,
  `QueueKeepsTheContract`. The invariant places the one sender of a
  request: in the map, or with exactly one reply, or used up, and says what each
  place implies for the slot and the outcome. The contract follows step by step: each action
  of the queue is one action of `ApprovalContract` or leaves its state alone. `TwinInv` follows a
  reply over the shell's queue from the name it was typed for (`Heard`) through the scope it read
  (`ScopeRead`) to what it resolves (`Strays`): where these differ, one of that name has gone.
* **`AgentTurn_proofs`**: `TurnTypeCorrect`, `ActsAreLetThrough`, `AuditIsTrue`, `NoEndsTheTools`.
  `TurnInv` follows each call from gate to gate: what its cells and answers say at each place
  (`Said`), and that a call past a gate was let through by the policy of some moment since its
  batch came (`LetThrough`); a refusal has cancelled the turn's token.
* **`CronScheduler_proofs`**: `CronTypeCorrect` (with the bound of `max_concurrent` on a batch),
  `OneRun`, `FiredStayDown`. `Registry`: what executes is claimed and a claim has one holder.
  `Settling`: what batches hold and what was settled was due when the poll in progress looked,
  whereas every row a step writes is disabled, gone, or due later than that.
* **`WebhookIngress_proofs`**: `WebhookTypeCorrect`, `OneWorker`, `NoSecondTurn`, `AcksEarned`. `PlaceInv` ties a request's phase to a
  message of its batch, so that it has a key to hold; `ClaimInv` says that a claim that has not
  lapsed is in the store as in progress and has one holder. One lemma shows that a `begin` keeps
  every such claim, whatever it drops or evicts, and never starts one of their keys; another that
  a step which releases a key disturbs no other. `TurnInv` says why no key is worked twice within
  the time to live: a recent turn is on record, held by its request or marked no later than it
  (`RecordInv`), and who has a claim and has not worked it finds none (`FirstInv`); both only for keys
  that have not lapsed. `DoneInv` says that a finished entry was worked or is a nonce, `EarnedInv` that
  what a request has behind it in its batch was worked or left to another. They need that a nonce is no
  message's id (the code prefixes keys by their kind) and that a webhook has one key, which
  `WebhookAssumption` states.
* **`GatewayConfig_proofs`**: `ConfigTypeCorrect`, `ConsoleNeverClobbers`, `PairedTokensStay`,
  `RevokedTokensGo`. `LockInv`: at most one
  console is between its load and its end, and the lock says so. `WriteInv`: what consoles have
  published is in the file, and in the file the one at work has read, unless a writer without the
  lock published over a file it had not read. The tokens need `TokenInv`: what pairings hold
  (`HoldInv`) and what the file lists (`DiskInv`); that a reload is under way only towards a file whose
  fingerprint is not held (`ReloadInv`); and that the guard agrees with the file on what the file was
  told, or a tick or the reload at work will see to it, or the last load failed (`FollowInv`).
  `FollowInv` is about the time since the last reload began, which is when `missed` is cleared; a load
  that succeeds clears `unread`.
* **`TaskBoard_proofs`**: `BoardTypeCorrect`, `ParentsStay`, `ReviewsStay`, `MovesAreLegalOrRaces`,
  `HandlersSerial`. Steps have six shapes (a read, a write after a read, an insertion, a change of
  hands, a deletion, a failure), and each keeps `BoardInv`: what a call has read passed its checks
  (`CheckedInv`), an unused identifier is in no call (`FreshInv`), one handler at a time is between its
  read and its write and finds its row as it was unless a tool wrote it (`SerialInv`), and an agent that
  makes a subtask finds the parent still at the top (`PartInv`). `Rewritten` says what a write after a
  read makes of the row, from which the moves and the reviews follow.

* **`ChannelHistory_proofs`**: `HistoryTypeCorrect`, `DeleteStaysFinal`, `LoneNewStaysFinal`,
  `ToolRowsKeepTheirCarrier`, `SerialTurnsSurvive`. The row lists are filtered, and what a filter
  returns would take an induction over the list. `KeepAt` therefore says which indices are kept, and the proofs work
  with the *rank* of an index among them: every rank up to their number is reached, because a set of
  numbers has a least element (`LeastElement`, from the well-foundedness of `<`), and ranks keep
  the order. So a tool row that is kept together with the row before it stays right after it
  (`KeepAtCarried`), which is what `Normalized`, `Compacted` and the trim are then shown to observe. `HistoryInv` counts the
  turns in flight (`CountInv`), of which there is one unless some overlapped (`SerialInv`), ties a snapshot
  to the phases that save (`SnapInv`), keeps erased turns out of the map, the row *and* every unsaved snapshot
  (`GoneInv`), and says that the map and the row differ only between the two steps of a write,
  where a turn that is alone holds what the map holds (`DurableInv`).

**Only model-checked:** all liveness (`ShutdownStops`, `EveryMessageSettles`, `DeleteIsAnswered`,
`StoppedTurnsEnd`, `DueJobsAreServed`, `StrandedKeysComeBack`, `ReloadConverges`, and the fairness
part of `ImplementsContract`), which like `ENABLED` is out of the prover's reach. Every invariant
and every action property of the passing runs is a theorem.

## 5. What was found on the way

Besides the two runs above, reading and modelling showed the following. They are described
and not checked.

* *Overlapping turns and the stored history.* `append_sender_turns` and `compact_sender_history`
  copy under the lock and save after it. Two turns of one conversation (two people of a group, a
  wait that gave up, `/new` beside a turn) can save in the other order: the row goes back in
  time, or a cleared conversation returns at a restart, until the next turn that is alone writes
  the whole row again. `SerialTurnsSurviveRestart` and `LoneNewIsFinal` are therefore stated for
  writes of turns that do not overlap.
* *The newest message.* `docs/reference/channels.md` says that interruption restarts generation on the
  newest message. The worker registers itself, so the order of registration is the order of first
  polls: the older message's worker can come second and cancel the newer one.
  `OnlyALaterWorkerInterrupts` is stated for the order of registration.
* *Replies by name in the shell's queue.* A bare verb checks the chat against one lookup and resolves
  by a second one, by name, and the scope of a reply is read apart from the request it resolves.
  When the request looked up has gone in between and another of the same name waits, the reply
  lands in another chat, or an answer to the risk gate widens the allowlist. The two properties of
  `approvals_contract` say that nothing else makes it happen.
* *A reply at the deadline.* Between the timer's firing and the drop of the receiver
  (`pending.rs`, `request_decision_with`) a reply is acknowledged to its author and the call is
  told that nobody answered. The contract counts the request as open until then.
* *Approve once.* The shell's gate adds a command approved once to the same allowlist as one
  approved for the session (`tools/shell.rs`), whereas `pending.rs` describes Once as this
  call only.
* *A denied call ends as a stopped one.* The dispatch loop cannot tell the two apart and leaves
  the message without a reply of its own.
* *Audit of stopped calls.* A call stopped while its tool runs returns before its audit record,
  whereas a comment says that every executed call is audited there; `try_join_all` drops the calls
  beside a failing one without their end events.
* *Loop detector.* It counts three equal calls among the last five, not in a row, and its summary
  request is made before the batch's results reach the conversation, outside the race with the
  turn's token.
* *Callers without a token* (command line, scheduler) go on after a no.
* *Cron, edits during a run.* A run that ends writes the next run of the schedule it started
  with over an edited row; a one-shot given a new instant while it runs is disabled or
  deleted by that run. `FiredOneShotsStayDown` is stated for rows whose next run is their own.
* *Cron, expressions with a year.* After the last occurrence the next run cannot be computed: the
  write after the run and the skip both fail, the row stays due, runs at every poll until it
  is stale, and keeps its place among the earliest `max_tasks` for good.
* *Cron, other processes.* `cron run` from the command line does not share the registry.

* *Webhooks, nonces.* `/nextcloud-talk` retires its nonce before the message is handed on: a delivery
  that the runtime's full queue refuses is answered 503, and its retry is taken for a duplicate.
* *Configuration, a stamp too many.* A console that loads a file somebody else has just changed
  saves it with its own setting and stamps the result. The reloader then takes the event for the
  gateway's own and does not sync: a token deleted in that file goes on working, and the autonomy
  of the file is not applied, until another change (`gateway/config_api.rs` at the stamp,
  `gateway/mod.rs` at the gate; `security/pairing.rs` makes "`config.toml` the authority").
* *Configuration, pairings without the lock.* A pairing lists the tokens, loads, saves and swaps beside
  a console's write; the later of two files wins whole, and a setting or a token of the other is lost
  on disk while it is still in memory.
* *Configuration, a load that fails.* The reloader keeps the current configuration, as its comment says,
  and has used up the event: a token deleted in that file goes on working, once the file can be read
  too, until it changes again or the gateway restarts. `RevocationLasts`, `ReloadConverges` and the
  second half of `PairedTokensLast` are stated for a last load that succeeded (`unread`).
* *Configuration, late reloads.* A reload that started before a console's write applies its older
  file, autonomy included, after it.
* *Tasks, review.* `update_task_status` insists that a task in review leaves through `review_task`, but
  `complete_subtask` takes a task that is IN_REVIEW and has no reviewer to DONE, and the gateway's
  PUT does so for any. An agent may also take a task from review back to IN_PROGRESS and from there to
  DONE, each a legal move. `ReviewsAreNotSkipped` is about the one step from a review to DONE, by a call
  that found the task in review with somebody to review it.
* *Tasks, reviewer.* The gateway's review refuses the designated reviewer, the tool the assignee, and
  the tool only when its process has a `RANTAICLAW_AGENT_ID` (`tools/task_review.rs`): by default
  nothing is compared, and agents may approve their own work. Where it is compared, the assignee is
  the one that was read, and the gateway can hand the task over before the approval is written. No
  property is stated about it.
* *Tasks, depth.* The tools make subtasks of top-level tasks only; the gateway nests at any depth.
* *Tasks, DONE.* A call that read the row before it was DONE takes it back to work, and two calls that
  read IN_REVIEW both succeed.

## 6. Hazards

`PROJECT.json` lists each place where this code can go wrong in a way a test would hardly reach,
with the properties that would show it. Those without a property carry a note; most belong to the
parts that follow in the plan.

## 7. What is not modelled, and the plan

Left out for good: text (prompts, formatting, parsing of commands and platform payloads),
what tools, skills, providers and external servers do, storage formats, configuration
parsing, user interfaces, installation. Within the modelled parts: typing notices, media,
delivery of a job's output, the attempts of a run, retention of old rows, the order of log
lines.

Planned, most important first:

1. `ReliableProvider`: the chain of models and keys, retries and the refusal that is kept
   (`providers/reliable.rs`), as a state machine against a reference of which candidate answers.
2. `ListenerSupervision` and `Daemon`: backoff, component restarts, the order of the drain; composed
   with `ChannelDispatch` for the shutdown as a whole.
3. `BinaryUpdate`: the swap, the verification and the rollback with a crash at every step.
4. Pairing codes, their expiry and the lockout.

## 8. Running it

    tlc -workers 2 -config dispatch_interrupts.cfg MCChannelDispatch.tla
    tlapm ChannelDispatch_proofs.tla

Each run's module and cfg are in `PROJECT.json`. The longest runs take about two minutes
on two cores.
