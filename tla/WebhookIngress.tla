--------------------------- MODULE WebhookIngress ---------------------------
(***************************************************************************)
(* The public webhooks of the gateway (gateway/mod.rs) and the store that  *)
(* keeps a redelivery from being worked twice, IdempotencyStore.  A        *)
(* request of /whatsapp or /linq hands the messages of its batch, one by   *)
(* one, to the bus of the channel runtime; /nextcloud-talk records a nonce *)
(* first; /webhook runs the turn inside its handler.  Every handler opens  *)
(* a claim on a key, works, and then retires or releases the claim by the  *)
(* key alone, so a claim that expired or was evicted meanwhile may by then *)
(* be another handler's.                                                   *)
(*                                                                         *)
(* Senders deliver the same thing again whenever they like: a handler is   *)
(* free to receive any delivery, and is received again after its answer.   *)
(* Ages stand for Instants and stop at Ttl, where nothing tells two apart. *)
(***************************************************************************)
EXTENDS Integers, Sequences, FiniteSets

CONSTANTS
    Handlers,    \* requests in flight at one time
    Keys,        \* idempotency keys: headers, platform ids and nonces
    Scenarios,   \* sets of deliveries [route, nonce, ids] that are under way together
    NoKey,
    Ttl,         \* ticks an entry counts for
    MaxKeys      \* idempotency_max_keys

Deliveries == UNION Scenarios

ASSUME WebhookAssumption ==
    /\ Ttl \in Nat \ {0} /\ MaxKeys \in Nat \ {0}
    /\ NoKey \notin Keys /\ {} \notin Scenarios
    /\ Deliveries \subseteq [route : {"batch", "nonce", "webhook"},
                             nonce : Keys \cup {NoKey}, ids : Seq(Keys)]
    /\ \A d \in Deliveries : /\ Len(d.ids) > 0
                             /\ d.route = "nonce" <=> d.nonce # NoKey
                             /\ d.route = "webhook" => Len(d.ids) = 1
    \* Keys are prefixed: a nonce is no message's id.
    /\ \A d, e \in Deliveries : \A i \in 1..Len(e.ids) : e.ids[i] # d.nonce

VARIABLES
    store,    \* the entries of IdempotencyStore
    handler,  \* what each request is at
    sending,  \* the deliveries of this behaviour
    since,    \* history: the age of the last turn of a key, or Never
    lapsed,   \* history: keys whose claim or mark went before its time
    twice     \* history: keys worked again within Ttl, though nothing of theirs lapsed

history == <<since, lapsed, twice>>
vars == <<store, handler, sending, history>>

Absent == [state |-> "absent", age |-> 0]
Never == -1

Phases == {"idle", "received", "nonce", "next", "claimed", "queued", "refused", "turn", "ran",
           "failed", "answered"}
Answers == {"none", "ok", "duplicate", "busy", "unavailable", "error"}

\* The key a handler has a claim on.
Holds(h) ==
    CASE handler[h].at = "nonce" -> handler[h].of.nonce
      [] handler[h].at \in {"claimed", "queued", "refused", "turn", "ran", "failed"} ->
            handler[h].of.ids[handler[h].next]
      [] OTHER -> NoKey

Go(h, phase) == handler' = [handler EXCEPT ![h].at = phase]
Answer(h, answer) ==
    handler' = [handler EXCEPT ![h].at = "answered", ![h].next = 1, ![h].answer = answer]

-----------------------------------------------------------------------------
(* IdempotencyStore: three calls, each under the lock.                     *)

\* Mutant: only finished entries expire.
LiveOrInProgress ==
    {k \in Keys : store[k] # Absent /\ (store[k].age < Ttl \/ store[k].state = "InProgress")}

Live == {k \in Keys : store[k] # Absent /\ store[k].age < Ttl}

Outcome(k) == IF k \in Live THEN store[k].state ELSE "Started"

\* Every begin drops what has expired, and one that starts evicts the oldest
\* entry when the store is full; min_by_key breaks a tie by the map's order.
Begin(k) ==
    LET kept == [q \in Keys |-> IF q \in Live THEN store[q] ELSE Absent]
        oldest == {e \in Live : \A q \in Live : store[e].age >= store[q].age}
        held == {Holds(g) : g \in Handlers}
        \* History: a key stands while somebody works on it or its last turn counts.
        standing == held \cup {q \in Keys : since[q] \in 0..(Ttl - 1)}
        expired == {q \in held \cap Keys : store[q].state = "InProgress" /\ q \notin Live}
    IN
    IF Outcome(k) # "Started"
    THEN store' = kept /\ lapsed' = lapsed \cup expired
    ELSE \E gone \in IF Cardinality(Live) >= MaxKeys THEN {{e} : e \in oldest} ELSE {{}} :
            /\ store' = [q \in Keys |-> IF q = k THEN [state |-> "InProgress", age |-> 0]
                                        ELSE IF q \in gone THEN Absent ELSE kept[q]]
            /\ lapsed' = (lapsed \ ({k} \ standing)) \cup expired \cup (gone \cap standing)

\* Mutant: a mark keeps the age of the claim.
MarkDoneInPlace(k) == store' = [store EXCEPT ![k].state = "Done"]

MarkDone(k) == store' = [store EXCEPT ![k] = [state |-> "Done", age |-> 0]]

Abort(k) == store' = [store EXCEPT ![k] = Absent]

\* History: a turn of a key succeeded, or reached the channel runtime.
Worked(k) ==
    /\ since' = [since EXCEPT ![k] = 0]
    /\ twice' = IF since[k] \in 0..(Ttl - 1) /\ k \notin lapsed THEN twice \cup {k} ELSE twice

-----------------------------------------------------------------------------
WebhookInit ==
    /\ store = [k \in Keys |-> Absent]
    /\ handler = [h \in Handlers |-> [at |-> "idle", of |-> CHOOSE d \in Deliveries : TRUE,
                                      next |-> 1, joined |-> FALSE, answer |-> "none"]]
    /\ sending \in Scenarios
    /\ since = [k \in Keys |-> Never]
    /\ lapsed = {} /\ twice = {}

\* A request that gets past the rate limit and its authentication, and parses:
\* one that does not is answered before it touches any of this.
Receive(h) ==
    /\ handler[h].at \in {"idle", "answered"}
    /\ \E d \in sending :
          handler' = [handler EXCEPT ![h] =
              [at |-> IF d.route = "nonce" THEN "received" ELSE "next",
               of |-> d, next |-> 1, joined |-> FALSE, answer |-> "none"]]
    /\ UNCHANGED <<store, sending, history>>

\* /nextcloud-talk: a nonce that is known, done or in flight, is a duplicate.
BeginNonce(h) ==
    LET nonce == handler[h].of.nonce IN
    /\ handler[h].at = "received"
    /\ IF Outcome(nonce) = "Started" THEN Go(h, "nonce") ELSE Answer(h, "duplicate")
    /\ Begin(nonce)
    /\ UNCHANGED <<sending, since, twice>>

\* The nonce is retired before the body is parsed, let alone handed on.
RetireNonce(h) ==
    /\ handler[h].at = "nonce"
    /\ MarkDone(handler[h].of.nonce)
    /\ Go(h, "next")
    /\ UNCHANGED <<sending, history>>

\* Mutant: a claim that is in flight is taken over.
BeginInboundAnyway(h) ==
    LET k == handler[h].of.ids[handler[h].next] IN
    /\ handler[h].at = "next" /\ handler[h].of.route # "webhook"
    /\ handler[h].next <= Len(handler[h].of.ids)
    /\ IF Outcome(k) # "Done"
       THEN Go(h, "claimed")
       ELSE handler' = [handler EXCEPT ![h].next = @ + 1]
    /\ Begin(k)
    /\ UNCHANGED <<sending, since, twice>>

\* enqueue_inbound: the next message of the batch, or past it if it is known.
BeginInbound(h) ==
    /\ handler[h].at = "next" /\ handler[h].of.route # "webhook"
    /\ handler[h].next <= Len(handler[h].of.ids)
    /\ LET k == handler[h].of.ids[handler[h].next] IN
       /\ IF Outcome(k) = "Started"
          THEN Go(h, "claimed")
          ELSE handler' = [handler EXCEPT ![h].next = @ + 1,
                                          ![h].joined = @ \/ Outcome(k) = "InProgress"]
       /\ Begin(k)
    /\ UNCHANGED <<sending, since, twice>>

\* ChannelBus::try_send: the runtime's queue takes the message, or is full, or
\* there is no runtime behind the bus.
TrySend(h) ==
    /\ handler[h].at = "claimed"
    /\ \/ Go(h, "queued") /\ Worked(Holds(h))
       \/ Go(h, "refused") /\ UNCHANGED <<since, twice>>
    /\ UNCHANGED <<store, sending, lapsed>>

\* finish_inbound(.., true): on to the next message of the batch.
FinishQueued(h) ==
    /\ handler[h].at = "queued"
    /\ MarkDone(Holds(h))
    /\ handler' = [handler EXCEPT ![h].at = "next", ![h].next = @ + 1]
    /\ UNCHANGED <<sending, history>>

\* Mutant: a refused message is retired like one that was queued.
FinishRefusedDone(h) ==
    /\ handler[h].at = "refused"
    /\ MarkDone(Holds(h))
    /\ Answer(h, "unavailable")
    /\ UNCHANGED <<sending, history>>

\* finish_inbound(.., false) and a 503 for the batch; the rest is not looked at.
FinishRefused(h) ==
    /\ handler[h].at = "refused"
    /\ Abort(Holds(h))
    /\ Answer(h, "unavailable")
    /\ UNCHANGED <<sending, history>>

AnswerBatch(h) ==
    /\ handler[h].at = "next" /\ handler[h].of.route # "webhook"
    /\ handler[h].next > Len(handler[h].of.ids)
    /\ Answer(h, "ok")
    /\ UNCHANGED <<store, sending, history>>

-----------------------------------------------------------------------------
(* /webhook: the turn runs in the handler.                                 *)

BeginWebhook(h) ==
    /\ handler[h].at = "next" /\ handler[h].of.route = "webhook"
    /\ LET k == handler[h].of.ids[1] IN
       /\ \/ Outcome(k) = "Started" /\ Go(h, "turn")
          \/ Outcome(k) = "InProgress" /\ Answer(h, "busy")
          \/ Outcome(k) = "Done" /\ Answer(h, "duplicate")
       /\ Begin(k)
    /\ UNCHANGED <<sending, since, twice>>

TurnEnds(h) ==
    /\ handler[h].at = "turn"
    /\ \/ Go(h, "ran") /\ Worked(Holds(h))
       \/ Go(h, "failed") /\ UNCHANGED <<since, twice>>
    /\ UNCHANGED <<store, sending, lapsed>>

FinishWebhook(h) ==
    /\ \/ handler[h].at = "ran" /\ MarkDone(Holds(h)) /\ Answer(h, "ok")
       \/ handler[h].at = "failed" /\ Abort(Holds(h)) /\ Answer(h, "error")
    /\ UNCHANGED <<sending, history>>

-----------------------------------------------------------------------------
\* The client hangs up, or the timeout layer gives up: the future goes where it
\* awaits, a send to the bus, a turn, or between the nonce and the first message.
DropFuture(h) ==
    /\ \/ handler[h].at \in {"claimed", "turn"}
       \/ handler[h].at = "next" /\ handler[h].of.route = "nonce" /\ handler[h].next = 1
    /\ Answer(h, "none")
    /\ UNCHANGED <<store, sending, history>>

Tick ==
    /\ \/ \E k \in Keys : store[k] # Absent /\ store[k].age < Ttl
       \/ \E k \in Keys : since[k] # Never /\ since[k] < Ttl
    /\ store' = [k \in Keys |-> IF store[k] # Absent /\ store[k].age < Ttl
                                THEN [store[k] EXCEPT !.age = @ + 1] ELSE store[k]]
    /\ since' = [k \in Keys |-> IF since[k] # Never /\ since[k] < Ttl THEN since[k] + 1 ELSE since[k]]
    /\ UNCHANGED <<handler, sending, lapsed, twice>>

HandlerStep(h) ==
    \/ BeginNonce(h) \/ RetireNonce(h) \/ BeginInbound(h) \/ TrySend(h) \/ FinishQueued(h)
    \/ FinishRefused(h) \/ AnswerBatch(h) \/ BeginWebhook(h) \/ TurnEnds(h) \/ FinishWebhook(h)

WebhookNext ==
    \/ \E h \in Handlers : Receive(h) \/ HandlerStep(h) \/ DropFuture(h)
    \/ Tick

WebhookSpec == WebhookInit /\ [][WebhookNext]_vars

\* Tasks that are ready are polled, time passes and requests keep coming.
FairWebhooks ==
    /\ WebhookSpec
    /\ WF_vars(Tick)
    /\ \A h \in Handlers : WF_vars(HandlerStep(h))
    /\ WF_vars(\E h \in Handlers : Receive(h))

-----------------------------------------------------------------------------
(* Properties.                                                             *)

\* Every variable keeps its type.
TypeOK ==
    /\ store \in [Keys -> [state : {"InProgress", "Done"}, age : 0..Ttl] \cup {Absent}]
    /\ handler \in [Handlers -> [at : Phases, of : Deliveries, next : Nat \ {0},
                                 joined : BOOLEAN, answer : Answers]]
    /\ sending \subseteq Deliveries
    /\ since \in [Keys -> Never..Ttl]
    /\ lapsed \subseteq Keys /\ twice \subseteq Keys

\* Two requests are never at work on one key, unless the claim of the first has
\* expired or been evicted under it: the release of one, by key alone, otherwise
\* never opens the door while another still works (IdempotencyStore).
OneWorkerPerKey ==
    \A g, h \in Handlers :
        (g # h /\ Holds(g) # NoKey /\ Holds(g) = Holds(h)) => Holds(g) \in lapsed

\* "a redelivery inside the TTL must not run the turn a second time"
\* (enqueue_inbound): but for a claim or a mark that went before its time, a turn of
\* a key never follows within Ttl of the last one.
NoSecondTurnInsideTtl == twice = {}

\* What is answered with success was worked: each message of the batch has reached
\* the bus, each webhook its turn, save where the request left it to another that
\* was in flight, or its nonce was known.
AcksAreEarned ==
    \A h \in Handlers :
        (\/ handler[h].answer = "ok"
         \/ handler[h].answer = "duplicate" /\ handler[h].of.route = "webhook")
            => \/ handler[h].joined
               \/ \A i \in 1..Len(handler[h].of.ids) : since[handler[h].of.ids[i]] # Never

Stranded(k) == store[k].state = "InProgress" /\ \A h \in Handlers : Holds(h) # k

\* "a dropped/cancelled handler future doesn't strand a key forever"
\* (IdempotencyStore::begin): a claim nobody works on is lifted in the end, as
\* long as requests of any kind come in.
StrandedKeysComeBack == \A k \in Keys : Stranded(k) ~> ~Stranded(k)
=============================================================================
