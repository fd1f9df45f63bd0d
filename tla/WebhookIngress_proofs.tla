------------------------ MODULE WebhookIngress_proofs -----------------------
(***************************************************************************)
(* For every set of requests, keys and deliveries: the types of            *)
(* WebhookIngress, that no two requests work on one key while its claim    *)
(* stands, that no key is worked twice within Ttl, and that an answer of   *)
(* success was earned.                                                     *)
(***************************************************************************)
EXTENDS WebhookIngress, TLAPS

HandlerType == [at : Phases, of : Deliveries, next : Nat \ {0}, joined : BOOLEAN, answer : Answers]
Entry == [state : {"InProgress", "Done"}, age : 0..Ttl]

\* Phases in which a request has a claim on the message it is at.
AtMessage == {"claimed", "queued", "refused", "turn", "ran", "failed"}

\* What a request has a claim on is a message of its delivery, or its nonce.
Placed(r) ==
    /\ r.at \in AtMessage => r.next \in 1..Len(r.of.ids)
    /\ r.at \in {"received", "nonce"} => r.of.route = "nonce" /\ r.next = 1
    /\ r.at \in {"claimed", "queued", "refused"} => r.of.route # "webhook"
    /\ r.at \in {"turn", "ran", "failed"} => r.of.route = "webhook" /\ r.next = 1
    /\ (r.at = "next" /\ r.of.route = "webhook") => r.next = 1

PlaceInv == \A h \in Handlers : Placed(handler[h])

\* A claim that has not lapsed is in the store, and one request has it.
ClaimInv ==
    \A h \in Handlers :
        (Holds(h) # NoKey /\ Holds(h) \notin lapsed)
            => /\ store[Holds(h)].state = "InProgress"
               /\ \A g \in Handlers : Holds(g) = Holds(h) => g = h

-----------------------------------------------------------------------------
(* Deliveries, keys and the store.                                         *)

LEMMA DeliveryTyped ==
    ASSUME NEW d \in Deliveries
    PROVE  /\ d.ids \in Seq(Keys) /\ Len(d.ids) \in Nat /\ Len(d.ids) > 0
           /\ \A i \in 1..Len(d.ids) : d.ids[i] \in Keys
           /\ d.route = "nonce" => d.nonce \in Keys
  BY WebhookAssumption

LEMMA HoldsTyped ==
    ASSUME TypeOK, PlaceInv, NEW h \in Handlers
    PROVE  Holds(h) \in Keys \cup {NoKey}
<1>1. handler[h] \in HandlerType
  BY DEF TypeOK, HandlerType
<1>2. CASE handler[h].at = "nonce"
  BY <1>1, <1>2, DeliveryTyped DEF Holds, PlaceInv, Placed, HandlerType
<1>3. CASE handler[h].at \in AtMessage
  BY <1>1, <1>3, DeliveryTyped DEF Holds, PlaceInv, Placed, HandlerType, AtMessage
<1>4. CASE handler[h].at \notin AtMessage \cup {"nonce"}
  BY <1>4 DEF Holds, AtMessage
<1> QED
  BY <1>2, <1>3, <1>4

LEMMA HoldsAKey ==
    ASSUME TypeOK, PlaceInv, NEW h \in Handlers, handler[h].at \in AtMessage \cup {"nonce"}
    PROVE  Holds(h) \in Keys /\ Holds(h) # NoKey
<1>1. handler[h] \in HandlerType
  BY DEF TypeOK, HandlerType
<1>2. CASE handler[h].at = "nonce"
  BY <1>1, <1>2, DeliveryTyped, WebhookAssumption DEF Holds, PlaceInv, Placed, HandlerType
<1>3. CASE handler[h].at \in AtMessage
  BY <1>1, <1>3, DeliveryTyped, WebhookAssumption DEF Holds, PlaceInv, Placed, HandlerType, AtMessage
<1> QED
  BY <1>2, <1>3

\* A request that is not touched keeps its key.
LEMMA HoldsKept ==
    ASSUME NEW h, handler'[h] = handler[h]
    PROVE  Holds(h)' = Holds(h)
  BY DEF Holds

\* What Begin does to the store and to what has lapsed.
LEMMA BeginTyped ==
    ASSUME TypeOK, PlaceInv, NEW k \in Keys, Begin(k)
    PROVE  store' \in [Keys -> Entry \cup {Absent}] /\ lapsed' \subseteq Keys
<1> DEFINE kept == [q \in Keys |-> IF q \in Live THEN store[q] ELSE Absent]
           oldest == {e \in Live : \A q \in Live : store[e].age >= store[q].age}
           held == {Holds(g) : g \in Handlers}
           standing == held \cup {q \in Keys : since[q] \in 0..(Ttl - 1)}
           expired == {q \in held \cap Keys : store[q].state = "InProgress" /\ q \notin Live}
<1>1. /\ store \in [Keys -> Entry \cup {Absent}] /\ lapsed \subseteq Keys
      /\ expired \subseteq Keys /\ oldest \subseteq Keys
  BY DEF TypeOK, Entry, Live
<1>2. kept \in [Keys -> Entry \cup {Absent}] /\ [state |-> "InProgress", age |-> 0] \in Entry
  BY <1>1, WebhookAssumption DEF Entry
<1>3. \/ store' = kept /\ lapsed' = lapsed \cup expired
      \/ \E gone \in IF Cardinality(Live) >= MaxKeys THEN {{e} : e \in oldest} ELSE {{}} :
            /\ store' = [q \in Keys |-> IF q = k THEN [state |-> "InProgress", age |-> 0]
                                        ELSE IF q \in gone THEN Absent ELSE kept[q]]
            /\ lapsed' = (lapsed \ ({k} \ standing)) \cup expired \cup (gone \cap standing)
  BY DEF Begin
<1> HIDE DEF kept, held, standing, expired, oldest
<1>4. CASE store' = kept /\ lapsed' = lapsed \cup expired
  BY <1>1, <1>2, <1>4
<1>5. ASSUME NEW gone \in IF Cardinality(Live) >= MaxKeys THEN {{e} : e \in oldest} ELSE {{}},
             store' = [q \in Keys |-> IF q = k THEN [state |-> "InProgress", age |-> 0]
                                      ELSE IF q \in gone THEN Absent ELSE kept[q]],
             lapsed' = (lapsed \ ({k} \ standing)) \cup expired \cup (gone \cap standing)
      PROVE  store' \in [Keys -> Entry \cup {Absent}] /\ lapsed' \subseteq Keys
  <2>1. gone \subseteq Keys
    BY <1>1, <1>5
  <2> QED
    BY <1>1, <1>2, <1>5, <2>1
<1> QED
  BY <1>3, <1>4, <1>5

\* A claim that stands and has not lapsed by the end of a begin is in the store as it
\* was; and a begin that starts finds such a claim on its key with nobody.
LEMMA BeginKeepsClaims ==
    ASSUME TypeOK, PlaceInv, ClaimInv, NEW k \in Keys, Begin(k),
           NEW h \in Handlers, Holds(h) \in Keys, Holds(h) # NoKey, Holds(h) \notin lapsed'
    PROVE  /\ Holds(h) \notin lapsed
           /\ store'[Holds(h)].state = "InProgress"
           /\ Outcome(k) = "Started" => Holds(h) # k
<1> DEFINE kept == [q \in Keys |-> IF q \in Live THEN store[q] ELSE Absent]
           oldest == {e \in Live : \A q \in Live : store[e].age >= store[q].age}
           held == {Holds(g) : g \in Handlers}
           standing == held \cup {q \in Keys : since[q] \in 0..(Ttl - 1)}
           expired == {q \in held \cap Keys : store[q].state = "InProgress" /\ q \notin Live}
           mine == Holds(h)
<1>1. \/ Outcome(k) # "Started" /\ store' = kept /\ lapsed' = lapsed \cup expired
      \/ /\ Outcome(k) = "Started"
         /\ \E gone \in IF Cardinality(Live) >= MaxKeys THEN {{e} : e \in oldest} ELSE {{}} :
               /\ store' = [q \in Keys |-> IF q = k THEN [state |-> "InProgress", age |-> 0]
                                           ELSE IF q \in gone THEN Absent ELSE kept[q]]
               /\ lapsed' = (lapsed \ ({k} \ standing)) \cup expired \cup (gone \cap standing)
  BY DEF Begin
<1>2. mine \in held /\ mine \in standing /\ mine \in Keys
  OBVIOUS
<1>3. ASSUME mine \notin lapsed, mine \notin expired
      PROVE  /\ store[mine].state = "InProgress" /\ mine \in Live /\ kept[mine] = store[mine]
             /\ Outcome(k) = "Started" => mine # k
  <2>1. store[mine].state = "InProgress"
    BY <1>3 DEF ClaimInv
  <2>2. mine \in Live
    BY <1>2, <1>3, <2>1
  <2> QED
    BY <1>2, <2>1, <2>2 DEF Outcome
<1> HIDE DEF kept, held, standing, expired, oldest, mine
<1>4. CASE store' = kept /\ lapsed' = lapsed \cup expired
  <2>1. mine \notin lapsed /\ mine \notin expired
    BY <1>4 DEF mine
  <2> QED
    BY <1>3, <1>4, <2>1 DEF mine
<1>5. ASSUME NEW gone,
             store' = [q \in Keys |-> IF q = k THEN [state |-> "InProgress", age |-> 0]
                                      ELSE IF q \in gone THEN Absent ELSE kept[q]],
             lapsed' = (lapsed \ ({k} \ standing)) \cup expired \cup (gone \cap standing)
      PROVE  /\ mine \notin lapsed
             /\ store'[mine].state = "InProgress"
             /\ Outcome(k) = "Started" => mine # k
  <2>1. mine \notin lapsed /\ mine \notin expired /\ mine \notin gone
    BY <1>2, <1>5 DEF mine
  <2> QED
    BY <1>2, <1>3, <1>5, <2>1
<1> QED
  BY <1>1, <1>4, <1>5 DEF mine

\* A step of one request that leaves the store, or touches it at a key that nobody
\* else claims, and after which the request holds nothing new.
LEMMA ClaimsKept ==
    ASSUME TypeOK, PlaceInv, ClaimInv, NEW h \in Handlers,
           handler' \in [Handlers -> HandlerType],
           \A g \in Handlers \ {h} : handler'[g] = handler[g],
           Holds(h)' \in {NoKey, Holds(h)},
           lapsed' = lapsed,
           \A q \in Keys : \/ store'[q].state = store[q].state
                           \/ q = Holds(h) /\ Holds(h)' = NoKey
    PROVE  ClaimInv'
<1> SUFFICES ASSUME NEW g \in Handlers, Holds(g)' # NoKey, Holds(g)' \notin lapsed'
             PROVE  /\ store'[Holds(g)'].state = "InProgress"
                    /\ \A f \in Handlers : Holds(f)' = Holds(g)' => f = g
  BY DEF ClaimInv
<1>1. \A f \in Handlers : Holds(f)' \in {NoKey, Holds(f)}
  BY HoldsKept
<1>2. Holds(g)' = Holds(g) /\ Holds(g) \in Keys /\ Holds(g) # NoKey /\ Holds(g) \notin lapsed
  BY <1>1, HoldsTyped
<1>3. /\ store[Holds(g)].state = "InProgress"
      /\ \A f \in Handlers : Holds(f) = Holds(g) => f = g
  BY <1>2 DEF ClaimInv
<1>4. store'[Holds(g)].state = store[Holds(g)].state
  <2>1. CASE Holds(g) = Holds(h) /\ Holds(h)' = NoKey
    BY <1>2, <1>3, <2>1
  <2> QED
    BY <1>2, <2>1
<1> QED
  BY <1>1, <1>2, <1>3, <1>4

\* A step in which a request begins a key: it holds that key if it was started, and
\* nothing otherwise.
LEMMA ClaimsBegun ==
    ASSUME TypeOK, PlaceInv, ClaimInv, NEW h \in Handlers, NEW k \in Keys, Begin(k),
           \A g \in Handlers \ {h} : handler'[g] = handler[g],
           Holds(h)' = IF Outcome(k) = "Started" THEN k ELSE NoKey
    PROVE  ClaimInv'
<1> SUFFICES ASSUME NEW g \in Handlers, Holds(g)' # NoKey, Holds(g)' \notin lapsed'
             PROVE  /\ store'[Holds(g)'].state = "InProgress"
                    /\ \A f \in Handlers : Holds(f)' = Holds(g)' => f = g
  BY DEF ClaimInv
<1>1. \A f \in Handlers \ {h} : Holds(f)' = Holds(f) /\ Holds(f) \in Keys \cup {NoKey}
  BY HoldsKept, HoldsTyped
<1>2. CASE g = h
  <2>1. Outcome(k) = "Started" /\ Holds(g)' = k
    BY <1>2
  <2>2. store'[k].state = "InProgress"
    BY <2>1 DEF Begin
  <2>3. \A f \in Handlers \ {h} : Holds(f)' # k
    BY <1>1, <2>1, BeginKeepsClaims
  <2> QED
    BY <1>2, <2>1, <2>2, <2>3
<1>3. CASE g # h
  <2>1. Holds(g)' = Holds(g) /\ Holds(g) \in Keys /\ Holds(g) # NoKey /\ Holds(g) \notin lapsed'
    BY <1>1, <1>3
  <2>2. /\ Holds(g) \notin lapsed
        /\ store'[Holds(g)].state = "InProgress"
        /\ Outcome(k) = "Started" => Holds(g) # k
    BY <2>1, BeginKeepsClaims
  <2>3. \A f \in Handlers : Holds(f) = Holds(g) => f = g
    BY <2>1, <2>2 DEF ClaimInv
  <2> QED
    BY <1>1, <1>3, <2>1, <2>2, <2>3
<1> QED
  BY <1>2, <1>3

-----------------------------------------------------------------------------
(* What a step does to its request.                                        *)

Steps(h) == Receive(h) \/ HandlerStep(h) \/ DropFuture(h)

\* A request that answers, goes on to the next message, or past one.
LEMMA Answered ==
    ASSUME NEW r \in HandlerType, NEW at \in Phases, NEW next \in Nat \ {0}, NEW answer \in Answers
    PROVE  [r EXCEPT !.at = at, !.next = next, !.answer = answer] \in HandlerType
  BY DEF HandlerType

LEMMA Advanced ==
    ASSUME NEW r \in HandlerType, NEW at \in Phases, NEW next \in Nat \ {0}
    PROVE  [r EXCEPT !.at = at, !.next = next] \in HandlerType
  BY DEF HandlerType

LEMMA Passed ==
    ASSUME NEW r \in HandlerType, NEW next \in Nat \ {0}, NEW joined \in BOOLEAN
    PROVE  [r EXCEPT !.next = next, !.joined = joined] \in HandlerType
  BY DEF HandlerType

LEMMA Parts ==
    ASSUME NEW r \in HandlerType
    PROVE  /\ r.at \in Phases /\ r.next \in Nat \ {0} /\ r.joined \in BOOLEAN /\ r.answer \in Answers
           /\ r.next + 1 \in Nat \ {0}
  BY DEF HandlerType

LEMMA GoTyped ==
    ASSUME TypeOK, NEW h \in Handlers, NEW phase \in Phases, Go(h, phase)
    PROVE  \E r \in HandlerType : /\ r = [handler[h] EXCEPT !.at = phase]
                                  /\ handler' = [handler EXCEPT ![h] = r]
<1>1. handler[h] \in HandlerType
  BY DEF TypeOK, HandlerType
<1>2. [handler[h] EXCEPT !.at = phase] \in HandlerType
  BY <1>1 DEF HandlerType
<1> QED
  BY <1>2 DEF Go

LEMMA AnswerTyped ==
    ASSUME TypeOK, NEW h \in Handlers, NEW answer \in Answers, Answer(h, answer)
    PROVE  \E r \in HandlerType : Placed(r) /\ r.at = "answered" /\ handler' = [handler EXCEPT ![h] = r]
<1> DEFINE r == [handler[h] EXCEPT !.at = "answered", !.next = 1, !.answer = answer]
<1>1. handler[h] \in HandlerType
  BY DEF TypeOK, HandlerType
<1>2. r \in HandlerType /\ r.at = "answered"
  <2>1. "answered" \in Phases /\ 1 \in Nat \ {0}
    BY DEF Phases
  <2>2. r \in HandlerType
    BY <1>1, <2>1, Answered
  <2>3. r.at = "answered"
    BY <1>1 DEF HandlerType
  <2> QED
    BY <2>2, <2>3
<1>3. Placed(r)
  BY <1>2 DEF Placed, AtMessage
<1>4. handler' = [handler EXCEPT ![h] = r]
  BY DEF Answer
<1> HIDE DEF r
<1> QED
  BY <1>2, <1>3, <1>4

\* Any step of a request leaves a request that is typed and rightly placed, and no
\* other request notices.
LEMMA StepPlaces ==
    ASSUME TypeOK, PlaceInv, NEW h \in Handlers, Steps(h)
    PROVE  \E r \in HandlerType : Placed(r) /\ handler' = [handler EXCEPT ![h] = r]
<1>1. handler[h] \in HandlerType /\ Placed(handler[h]) /\ handler[h].of \in Deliveries
  BY DEF TypeOK, HandlerType, PlaceInv
<1>2. /\ Len(handler[h].of.ids) \in Nat /\ Len(handler[h].of.ids) > 0
      /\ handler[h].next \in Nat /\ handler[h].next > 0
  BY <1>1, DeliveryTyped DEF HandlerType
<1>3. ASSUME NEW phase \in Phases, Go(h, phase),
             phase \in AtMessage => handler[h].next \in 1..Len(handler[h].of.ids),
             phase \in {"received", "nonce"} => handler[h].of.route = "nonce" /\ handler[h].next = 1,
             phase \in {"claimed", "queued", "refused"} => handler[h].of.route # "webhook",
             phase \in {"turn", "ran", "failed"} => handler[h].of.route = "webhook" /\ handler[h].next = 1,
             phase = "next" /\ handler[h].of.route = "webhook" => handler[h].next = 1
      PROVE  \E r \in HandlerType : Placed(r) /\ handler' = [handler EXCEPT ![h] = r]
  <2>1. PICK r \in HandlerType : /\ r = [handler[h] EXCEPT !.at = phase]
                                 /\ handler' = [handler EXCEPT ![h] = r]
    BY <1>3, GoTyped
  <2>2. r.at = phase /\ r.next = handler[h].next /\ r.of = handler[h].of
    BY <1>1, <2>1 DEF HandlerType
  <2> QED
    BY <1>3, <2>1, <2>2 DEF Placed
<1>4. ASSUME NEW answer \in Answers, Answer(h, answer)
      PROVE  \E r \in HandlerType : Placed(r) /\ handler' = [handler EXCEPT ![h] = r]
  BY <1>4, AnswerTyped
<1>5. ASSUME handler[h].of.route # "webhook", NEW more \in BOOLEAN, handler[h].at \in {"next", "queued"},
             \/ handler' = [handler EXCEPT ![h].at = "next", ![h].next = @ + 1]
             \/ handler' = [handler EXCEPT ![h].next = @ + 1, ![h].joined = @ \/ more] /\ handler[h].at = "next"
      PROVE  \E r \in HandlerType : Placed(r) /\ handler' = [handler EXCEPT ![h] = r]
  <2>1. CASE handler' = [handler EXCEPT ![h].at = "next", ![h].next = @ + 1]
    <3> DEFINE r == [handler[h] EXCEPT !.at = "next", !.next = @ + 1]
    <3>1. r \in HandlerType /\ r.at = "next" /\ r.of = handler[h].of
      <4>1. "next" \in Phases
        BY DEF Phases
      <4>2. r \in HandlerType
        BY <1>1, <4>1, Parts, Advanced
      <4>3. r.at = "next" /\ r.of = handler[h].of
        BY <1>1 DEF HandlerType
      <4> QED
        BY <4>2, <4>3
    <3>2. Placed(r)
      BY <1>5, <3>1 DEF Placed, AtMessage
    <3>3. handler' = [handler EXCEPT ![h] = r]
      BY <2>1
    <3> HIDE DEF r
    <3> QED
      BY <3>1, <3>2, <3>3
  <2>2. CASE handler' = [handler EXCEPT ![h].next = @ + 1, ![h].joined = @ \/ more] /\ handler[h].at = "next"
    <3> DEFINE r == [handler[h] EXCEPT !.next = @ + 1, !.joined = @ \/ more]
    <3>1. r \in HandlerType /\ r.at = "next" /\ r.of = handler[h].of
      <4>1. (handler[h].joined \/ more) \in BOOLEAN
        OBVIOUS
      <4>2. r \in HandlerType
        BY <1>1, <4>1, Parts, Passed
      <4>3. r.at = "next" /\ r.of = handler[h].of
        BY <1>1, <2>2 DEF HandlerType
      <4> QED
        BY <4>2, <4>3
    <3>2. Placed(r)
      BY <1>5, <3>1 DEF Placed, AtMessage
    <3>3. handler' = [handler EXCEPT ![h] = r]
      BY <2>2
    <3> HIDE DEF r
    <3> QED
      BY <3>1, <3>2, <3>3
  <2> QED
    BY <1>5, <2>1, <2>2
<1>6. CASE Receive(h)
  <2>1. PICK d \in sending :
           handler' = [handler EXCEPT ![h] =
              [at |-> IF d.route = "nonce" THEN "received" ELSE "next",
               of |-> d, next |-> 1, joined |-> FALSE, answer |-> "none"]]
    BY <1>6 DEF Receive
  <2> DEFINE r == [at |-> IF d.route = "nonce" THEN "received" ELSE "next",
                   of |-> d, next |-> 1, joined |-> FALSE, answer |-> "none"]
  <2>2. r \in HandlerType
    BY DEF TypeOK, HandlerType, Phases, Answers
  <2>3. Placed(r)
    BY DEF Placed, AtMessage
  <2> HIDE DEF r
  <2> QED
    BY <2>1, <2>2, <2>3 DEF r
<1>7. CASE BeginNonce(h)
  <2>1. Go(h, "nonce") \/ Answer(h, "duplicate")
    BY <1>7 DEF BeginNonce
  <2>2. handler[h].of.route = "nonce" /\ handler[h].next = 1
    BY <1>1, <1>7 DEF BeginNonce, Placed
  <2>3. CASE Go(h, "nonce")
    BY <1>3, <2>2, <2>3 DEF Phases, AtMessage
  <2> QED
    BY <1>4, <2>1, <2>3 DEF Answers
<1>8. CASE RetireNonce(h)
  <2>1. Go(h, "next") /\ handler[h].of.route = "nonce"
    BY <1>1, <1>8 DEF RetireNonce, Placed
  <2> QED
    BY <1>3, <2>1 DEF Phases, AtMessage
<1>9. CASE BeginInbound(h)
  <2>1. /\ handler[h].of.route # "webhook" /\ handler[h].at = "next"
        /\ handler[h].next \in 1..Len(handler[h].of.ids)
    BY <1>2, <1>9 DEF BeginInbound
  <2>2. \/ Go(h, "claimed")
        \/ \E more \in BOOLEAN :
              handler' = [handler EXCEPT ![h].next = @ + 1, ![h].joined = @ \/ more]
    BY <1>9 DEF BeginInbound
  <2>3. CASE Go(h, "claimed")
    BY <1>3, <2>1, <2>3 DEF Phases, AtMessage
  <2> QED
    BY <1>5, <2>1, <2>2, <2>3
<1>10. CASE TrySend(h)
  <2>1. /\ Go(h, "queued") \/ Go(h, "refused")
        /\ handler[h].next \in 1..Len(handler[h].of.ids) /\ handler[h].of.route # "webhook"
    BY <1>1, <1>10 DEF TrySend, Placed, AtMessage
  <2> QED
    BY <1>3, <2>1 DEF Phases
<1>11. CASE FinishQueued(h)
  <2>1. /\ handler[h].of.route # "webhook" /\ handler[h].at = "queued"
        /\ handler' = [handler EXCEPT ![h].at = "next", ![h].next = @ + 1]
    BY <1>1, <1>11 DEF FinishQueued, Placed
  <2> QED
    BY <1>5, <2>1
<1>12. CASE FinishRefused(h)
  BY <1>4, <1>12 DEF FinishRefused, Answers
<1>13. CASE AnswerBatch(h)
  BY <1>4, <1>13 DEF AnswerBatch, Answers
<1>14. CASE BeginWebhook(h)
  <2>1. Go(h, "turn") \/ Answer(h, "busy") \/ Answer(h, "duplicate")
    BY <1>14 DEF BeginWebhook
  <2>2. /\ handler[h].next \in 1..Len(handler[h].of.ids)
        /\ handler[h].of.route = "webhook" /\ handler[h].next = 1
    BY <1>1, <1>2, <1>14 DEF BeginWebhook, Placed
  <2>3. CASE Go(h, "turn")
    BY <1>3, <2>2, <2>3 DEF Phases, AtMessage
  <2> QED
    BY <1>4, <2>1, <2>3 DEF Answers
<1>15. CASE TurnEnds(h)
  <2>1. /\ Go(h, "ran") \/ Go(h, "failed")
        /\ handler[h].next \in 1..Len(handler[h].of.ids)
        /\ handler[h].of.route = "webhook" /\ handler[h].next = 1
    BY <1>1, <1>15 DEF TurnEnds, Placed, AtMessage
  <2> QED
    BY <1>3, <2>1 DEF Phases
<1>16. CASE FinishWebhook(h)
  BY <1>4, <1>16 DEF FinishWebhook, Answers
<1>17. CASE DropFuture(h)
  BY <1>4, <1>17 DEF DropFuture, Answers
<1> QED
  BY <1>6, <1>7, <1>8, <1>9, <1>10, <1>11, <1>12, <1>13, <1>14, <1>15, <1>16, <1>17
     DEF Steps, HandlerStep

-----------------------------------------------------------------------------
(* The types.                                                              *)

\* Marks, releases and turns keep the types of the store and of the histories.
LEMMA StoreTyped ==
    ASSUME TypeOK, NEW k \in Keys
    PROVE  /\ MarkDone(k) => store' \in [Keys -> Entry \cup {Absent}]
           /\ Abort(k) => store' \in [Keys -> Entry \cup {Absent}]
           /\ Worked(k) => since' \in [Keys -> Never..Ttl] /\ twice' \subseteq Keys
<1>1. /\ store \in [Keys -> Entry \cup {Absent}] /\ since \in [Keys -> Never..Ttl]
      /\ twice \subseteq Keys
  BY DEF TypeOK, Entry
<1>2. [state |-> "Done", age |-> 0] \in Entry /\ 0 \in Never..Ttl
  BY WebhookAssumption DEF Entry, Never
<1>3. MarkDone(k) => store' \in [Keys -> Entry \cup {Absent}]
  BY <1>1, <1>2 DEF MarkDone
<1>4. Abort(k) => store' \in [Keys -> Entry \cup {Absent}]
  BY <1>1 DEF Abort
<1>5. Worked(k) => since' \in [Keys -> Never..Ttl] /\ twice' \subseteq Keys
  BY <1>1, <1>2 DEF Worked
<1> QED
  BY <1>3, <1>4, <1>5

\* What a request does to all but its own record.
LEMMA StepTypes ==
    ASSUME TypeOK, PlaceInv, NEW h \in Handlers, Steps(h)
    PROVE  /\ store' \in [Keys -> Entry \cup {Absent}] /\ sending' = sending
           /\ since' \in [Keys -> Never..Ttl]
           /\ lapsed' \subseteq Keys /\ twice' \subseteq Keys
<1>1. /\ store \in [Keys -> Entry \cup {Absent}] /\ since \in [Keys -> Never..Ttl]
      /\ lapsed \subseteq Keys /\ twice \subseteq Keys
  BY DEF TypeOK, Entry
<1>2. handler[h] \in HandlerType /\ Placed(handler[h])
  BY DEF TypeOK, HandlerType, PlaceInv
<1>3. handler[h].at = "received" => handler[h].of.nonce \in Keys
  BY <1>2, DeliveryTyped DEF HandlerType, Placed
<1>4. handler[h].next \in 1..Len(handler[h].of.ids) => handler[h].of.ids[handler[h].next] \in Keys
  BY <1>2, DeliveryTyped DEF HandlerType
<1>5. handler[h].of.ids[1] \in Keys
  BY <1>2, DeliveryTyped DEF HandlerType
<1>6. CASE Receive(h) \/ AnswerBatch(h) \/ DropFuture(h)
  BY <1>1, <1>6 DEF Receive, AnswerBatch, DropFuture, history
<1>7. CASE BeginNonce(h)
  BY <1>1, <1>3, <1>7, BeginTyped DEF BeginNonce
<1>8. CASE BeginInbound(h)
  <2>1. handler[h].next \in 1..Len(handler[h].of.ids)
    BY <1>2, <1>8, DeliveryTyped DEF BeginInbound, HandlerType
  <2> QED
    BY <1>1, <1>4, <1>8, <2>1, BeginTyped DEF BeginInbound
<1>9. CASE BeginWebhook(h)
  BY <1>1, <1>5, <1>9, BeginTyped DEF BeginWebhook
<1>10. CASE RetireNonce(h)
  <2>1. Holds(h) \in Keys /\ Holds(h) = handler[h].of.nonce
    BY <1>10, HoldsAKey DEF RetireNonce, Holds
  <2> QED
    BY <1>1, <1>10, <2>1, StoreTyped DEF RetireNonce, history
<1>11. CASE FinishQueued(h) \/ FinishRefused(h) \/ FinishWebhook(h)
  <2>1. handler[h].at \in AtMessage /\ (MarkDone(Holds(h)) \/ Abort(Holds(h))) /\ UNCHANGED <<sending, history>>
    BY <1>11 DEF FinishQueued, FinishRefused, FinishWebhook, AtMessage
  <2>2. Holds(h) \in Keys
    BY <2>1, HoldsAKey
  <2> QED
    BY <1>1, <2>1, <2>2, StoreTyped DEF history
<1>12. CASE TrySend(h) \/ TurnEnds(h)
  <2>1. /\ handler[h].at \in AtMessage /\ UNCHANGED <<store, sending, lapsed>>
        /\ Worked(Holds(h)) \/ UNCHANGED <<since, twice>>
    BY <1>12 DEF TrySend, TurnEnds, AtMessage
  <2>2. Holds(h) \in Keys
    BY <2>1, HoldsAKey
  <2> QED
    BY <1>1, <2>1, <2>2, StoreTyped
<1> QED
  BY <1>6, <1>7, <1>8, <1>9, <1>10, <1>11, <1>12 DEF Steps, HandlerStep

LEMMA TickTypes ==
    ASSUME TypeOK, Tick
    PROVE  TypeOK'
<1>1. store \in [Keys -> Entry \cup {Absent}] /\ since \in [Keys -> Never..Ttl]
  BY DEF TypeOK, Entry
<1>2. ASSUME NEW k \in Keys, store[k] # Absent, store[k].age < Ttl
      PROVE  [store[k] EXCEPT !.age = @ + 1] \in Entry
  <2>1. store[k] \in Entry /\ store[k].age + 1 \in 0..Ttl
    BY <1>1, <1>2, WebhookAssumption DEF Entry
  <2> QED
    BY <2>1 DEF Entry
<1>3. store' \in [Keys -> Entry \cup {Absent}]
  BY <1>1, <1>2 DEF Tick
<1>4. since' \in [Keys -> Never..Ttl]
  BY <1>1, WebhookAssumption DEF Tick, Never
<1> QED
  BY <1>3, <1>4 DEF Tick, TypeOK, Entry

-----------------------------------------------------------------------------
(* Claims.                                                                 *)

\* The key of a request that goes on, or answers.
LEMMA HoldsAfter ==
    ASSUME TypeOK, NEW h \in Handlers
    PROVE  /\ \A answer : Answer(h, answer) => Holds(h)' = NoKey
           /\ Go(h, "next") => Holds(h)' = NoKey
           /\ Go(h, "nonce") => Holds(h)' = handler[h].of.nonce
           /\ \A phase \in AtMessage : Go(h, phase) => Holds(h)' = handler[h].of.ids[handler[h].next]
<1>1. handler \in [Handlers -> HandlerType] /\ handler[h] \in HandlerType
  BY DEF TypeOK, HandlerType
<1>2. ASSUME NEW answer, Answer(h, answer)
      PROVE  Holds(h)' = NoKey
  <2>1. handler'[h].at = "answered"
    BY <1>1, <1>2 DEF Answer, HandlerType
  <2> QED
    BY <2>1 DEF Holds
<1>3. ASSUME NEW phase \in Phases, Go(h, phase)
      PROVE  /\ handler'[h].at = phase /\ handler'[h].of = handler[h].of
             /\ handler'[h].next = handler[h].next
  BY <1>1, <1>3 DEF Go, HandlerType
<1>4. "next" \in Phases /\ "nonce" \in Phases /\ AtMessage \subseteq Phases
  BY DEF Phases, AtMessage
<1>5. Go(h, "next") => Holds(h)' = NoKey
  BY <1>3, <1>4 DEF Holds
<1>6. Go(h, "nonce") => Holds(h)' = handler[h].of.nonce
  BY <1>3, <1>4 DEF Holds
<1>7. ASSUME NEW phase \in AtMessage, Go(h, phase)
      PROVE  Holds(h)' = handler[h].of.ids[handler[h].next]
  <2>1. /\ handler'[h].at = phase /\ handler'[h].of = handler[h].of
        /\ handler'[h].next = handler[h].next
    BY <1>3, <1>4, <1>7
  <2> QED
    BY <2>1 DEF Holds, AtMessage
<1> QED
  BY <1>2, <1>5, <1>6, <1>7

LEMMA StepClaims ==
    ASSUME TypeOK, PlaceInv, ClaimInv, NEW h \in Handlers, Steps(h)
    PROVE  ClaimInv'
<1>1. PICK r \in HandlerType : Placed(r) /\ handler' = [handler EXCEPT ![h] = r]
  BY StepPlaces
<1>2. /\ handler \in [Handlers -> HandlerType] /\ handler[h] \in HandlerType
      /\ Placed(handler[h]) /\ store \in [Keys -> Entry \cup {Absent}]
  BY DEF TypeOK, HandlerType, Entry, PlaceInv
<1>3. /\ handler' \in [Handlers -> HandlerType]
      /\ \A g \in Handlers \ {h} : handler'[g] = handler[g]
  BY <1>1, <1>2
<1>4. /\ handler[h].of.ids[1] \in Keys
      /\ handler[h].next \in 1..Len(handler[h].of.ids) => handler[h].of.ids[handler[h].next] \in Keys
      /\ handler[h].at = "received" => handler[h].of.nonce \in Keys
  BY <1>2, DeliveryTyped DEF HandlerType, Placed
\* A request that begins a key.
<1>5. CASE BeginNonce(h)
  <2>1. Holds(h)' = IF Outcome(handler[h].of.nonce) = "Started" THEN handler[h].of.nonce ELSE NoKey
    BY <1>5, HoldsAfter DEF BeginNonce
  <2>2. handler[h].of.nonce \in Keys /\ Begin(handler[h].of.nonce)
    BY <1>4, <1>5 DEF BeginNonce
  <2> QED
    BY <1>3, <2>1, <2>2, ClaimsBegun
<1>6. CASE BeginInbound(h)
  <2> DEFINE k == handler[h].of.ids[handler[h].next]
  <2>1. k \in Keys /\ Begin(k) /\ handler[h].at = "next"
    BY <1>2, <1>4, <1>6 DEF BeginInbound, HandlerType
  <2>2. CASE Outcome(k) = "Started"
    <3>1. Holds(h)' = k
      BY <1>6, <2>2, HoldsAfter DEF BeginInbound, AtMessage
    <3> QED
      BY <1>3, <2>1, <2>2, <3>1, ClaimsBegun
  <2>3. CASE Outcome(k) # "Started"
    <3>1. handler'[h].at = "next"
      BY <1>2, <1>6, <2>1, <2>3 DEF BeginInbound, HandlerType
    <3>2. Holds(h)' = NoKey
      BY <3>1 DEF Holds
    <3> QED
      BY <1>3, <2>1, <2>3, <3>2, ClaimsBegun
  <2> QED
    BY <2>2, <2>3
<1>7. CASE BeginWebhook(h)
  <2> DEFINE k == handler[h].of.ids[1]
  <2>1. k \in Keys /\ Begin(k) /\ handler[h].next = 1
    BY <1>2, <1>4, <1>7 DEF BeginWebhook, Placed
  <2>2. Holds(h)' = IF Outcome(k) = "Started" THEN k ELSE NoKey
    BY <1>7, <2>1, HoldsAfter DEF BeginWebhook, AtMessage
  <2> QED
    BY <1>3, <2>1, <2>2, ClaimsBegun
\* A request that leaves the store alone.
<1>8. CASE Receive(h) \/ AnswerBatch(h) \/ DropFuture(h)
  <2>1. store' = store /\ lapsed' = lapsed
    BY <1>8 DEF Receive, AnswerBatch, DropFuture, history
  <2>2. Holds(h)' = NoKey
    <3>1. CASE Receive(h)
      <4>1. handler'[h].at \in {"received", "next"}
        BY <1>2, <3>1 DEF Receive
      <4> QED
        BY <4>1 DEF Holds
    <3>2. CASE AnswerBatch(h) \/ DropFuture(h)
      BY <3>2, HoldsAfter DEF AnswerBatch, DropFuture
    <3> QED
      BY <1>8, <3>1, <3>2
  <2> QED
    BY <1>3, <2>1, <2>2, ClaimsKept
<1>9. CASE TrySend(h) \/ TurnEnds(h)
  <2>1. store' = store /\ lapsed' = lapsed
    BY <1>9 DEF TrySend, TurnEnds
  <2>2. Holds(h)' = Holds(h)
    <3>1. /\ handler[h].at \in AtMessage
          /\ \E phase \in AtMessage : Go(h, phase)
      BY <1>9 DEF TrySend, TurnEnds, AtMessage
    <3>2. Holds(h) = handler[h].of.ids[handler[h].next]
      BY <3>1 DEF Holds, AtMessage
    <3> QED
      BY <3>1, <3>2, HoldsAfter
  <2> QED
    BY <1>3, <2>1, <2>2, ClaimsKept
\* A request that retires or releases its key.
<1>10. CASE RetireNonce(h) \/ FinishQueued(h) \/ FinishRefused(h) \/ FinishWebhook(h)
  <2>1. lapsed' = lapsed /\ (MarkDone(Holds(h)) \/ Abort(Holds(h)))
    BY <1>10 DEF RetireNonce, FinishQueued, FinishRefused, FinishWebhook, history, Holds
  <2>2. Holds(h)' = NoKey
    <3>1. CASE RetireNonce(h) \/ FinishRefused(h) \/ FinishWebhook(h)
      BY <3>1, HoldsAfter DEF RetireNonce, FinishRefused, FinishWebhook
    <3>2. CASE FinishQueued(h)
      <4>1. handler'[h].at = "next"
        BY <1>2, <3>2 DEF FinishQueued, HandlerType
      <4> QED
        BY <4>1 DEF Holds
    <3> QED
      BY <1>10, <3>1, <3>2
  <2>3. \A q \in Keys : q # Holds(h) => store'[q] = store[q]
    BY <1>2, <2>1 DEF MarkDone, Abort
  <2> QED
    BY <1>3, <2>1, <2>2, <2>3, ClaimsKept
<1> QED
  BY <1>5, <1>6, <1>7, <1>8, <1>9, <1>10 DEF Steps, HandlerStep

LEMMA TickClaims ==
    ASSUME TypeOK, PlaceInv, ClaimInv, Tick
    PROVE  PlaceInv' /\ ClaimInv'
<1>1. PlaceInv'
  BY DEF Tick, PlaceInv
<1>2. \A h \in Handlers : Holds(h)' = Holds(h) /\ Holds(h) \in Keys \cup {NoKey}
  BY HoldsKept, HoldsTyped DEF Tick
<1>3. \A k \in Keys : store'[k].state = store[k].state
  <2>1. \A k \in Keys : store[k] \in Entry \cup {Absent}
    BY DEF TypeOK, Entry
  <2>2. ASSUME NEW k \in Keys
        PROVE  store'[k].state = store[k].state
    BY <2>1 DEF Tick, Entry, Absent
  <2> QED
    BY <2>2
<1>4. lapsed' = lapsed
  BY DEF Tick
<1>5. ASSUME NEW h \in Handlers, Holds(h)' # NoKey, Holds(h)' \notin lapsed'
      PROVE  /\ store'[Holds(h)'].state = "InProgress"
             /\ \A g \in Handlers : Holds(g)' = Holds(h)' => g = h
  BY <1>2, <1>3, <1>4, <1>5 DEF ClaimInv
<1> QED
  BY <1>1, <1>5 DEF ClaimInv

-----------------------------------------------------------------------------
(* Turns within Ttl.                                                       *)

Recent(k) == since[k] \in 0..(Ttl - 1)

\* A recent turn whose key has not lapsed is on record: its request has not marked it
\* yet, or the mark is no older than the turn.
RecordInv ==
    \A k \in Keys :
        (Recent(k) /\ k \notin lapsed)
            => \/ \E h \in Handlers : Holds(h) = k /\ handler[h].at \in {"queued", "ran"}
               \/ store[k].state = "Done" /\ store[k].age <= since[k]

\* A request that has a claim and has not worked it finds no recent turn of its key.
FirstInv ==
    \A h \in Handlers :
        (handler[h].at \in {"claimed", "refused", "turn", "failed"} /\ Holds(h) \notin lapsed)
            => ~Recent(Holds(h))

TurnInv == RecordInv /\ FirstInv

LEMMA StartedIsNotLive ==
    ASSUME TypeOK, NEW k \in Keys
    PROVE  /\ Outcome(k) = "Started" <=> k \notin Live
           /\ Outcome(k) # "Started" => Outcome(k) = store[k].state
<1>1. store[k] \in Entry \cup {Absent}
  BY DEF TypeOK, Entry
<1>2. k \in Live => store[k].state \in {"InProgress", "Done"}
  BY <1>1 DEF Live, Entry
<1> QED
  BY <1>2 DEF Outcome

\* What a begin of k does at a key.
LEMMA BeginAt ==
    ASSUME TypeOK, NEW k \in Keys, Begin(k), NEW q \in Keys
    PROVE  /\ \/ store'[q] = store[q] \/ store'[q] = Absent
              \/ q = k /\ q \notin Live /\ store'[q] = [state |-> "InProgress", age |-> 0]
           /\ (store'[q] # store[q] /\ q \in Live /\ Recent(q)) => q \in lapsed'
           /\ (q \in lapsed /\ q \notin lapsed')
                 => q = k /\ q \notin Live /\ ~Recent(q) /\ \A g \in Handlers : Holds(g) # q
           /\ \A g \in Handlers :
                 (Holds(g) = q /\ store[q].state = "InProgress" /\ q \notin Live) => q \in lapsed'
<1> DEFINE kept == [x \in Keys |-> IF x \in Live THEN store[x] ELSE Absent]
           oldest == {e \in Live : \A x \in Live : store[e].age >= store[x].age}
           held == {Holds(g) : g \in Handlers}
           standing == held \cup {x \in Keys : since[x] \in 0..(Ttl - 1)}
           expired == {x \in held \cap Keys : store[x].state = "InProgress" /\ x \notin Live}
<1>1. \/ Outcome(k) # "Started" /\ store' = kept /\ lapsed' = lapsed \cup expired
      \/ /\ Outcome(k) = "Started"
         /\ \E gone \in IF Cardinality(Live) >= MaxKeys THEN {{e} : e \in oldest} ELSE {{}} :
               /\ store' = [x \in Keys |-> IF x = k THEN [state |-> "InProgress", age |-> 0]
                                           ELSE IF x \in gone THEN Absent ELSE kept[x]]
               /\ lapsed' = (lapsed \ ({k} \ standing)) \cup expired \cup (gone \cap standing)
  BY DEF Begin
<1>2. /\ kept[q] = store[q] \/ kept[q] = Absent
      /\ q \in Live => kept[q] = store[q]
      /\ Recent(q) => q \in standing
      /\ \A g \in Handlers : Holds(g) = q => q \in standing
      /\ \A g \in Handlers :
            (Holds(g) = q /\ store[q].state = "InProgress" /\ q \notin Live) => q \in expired
  BY DEF Recent
<1>3. Outcome(k) = "Started" => k \notin Live
  BY StartedIsNotLive
<1> HIDE DEF kept, held, standing, expired, oldest
<1>4. CASE store' = kept /\ lapsed' = lapsed \cup expired
  BY <1>2, <1>4
<1>5. ASSUME NEW gone, Outcome(k) = "Started",
             store' = [x \in Keys |-> IF x = k THEN [state |-> "InProgress", age |-> 0]
                                      ELSE IF x \in gone THEN Absent ELSE kept[x]],
             lapsed' = (lapsed \ ({k} \ standing)) \cup expired \cup (gone \cap standing)
      PROVE  /\ \/ store'[q] = store[q] \/ store'[q] = Absent
                \/ q = k /\ q \notin Live /\ store'[q] = [state |-> "InProgress", age |-> 0]
             /\ (store'[q] # store[q] /\ q \in Live /\ Recent(q)) => q \in lapsed'
             /\ (q \in lapsed /\ q \notin lapsed')
                   => q = k /\ q \notin Live /\ ~Recent(q) /\ \A g \in Handlers : Holds(g) # q
             /\ \A g \in Handlers :
                   (Holds(g) = q /\ store[q].state = "InProgress" /\ q \notin Live) => q \in lapsed'
  <2>1. k \notin Live
    BY <1>3, <1>5
  <2>2. CASE q = k
    BY <1>2, <1>5, <2>1, <2>2
  <2>3. CASE q # k
    <3>1. store'[q] = IF q \in gone THEN Absent ELSE kept[q]
      BY <1>5, <2>3
    <3> QED
      BY <1>2, <1>5, <2>3, <3>1
  <2> QED
    BY <2>2, <2>3
<1> QED
  BY <1>1, <1>4, <1>5

\* A request begins a key; no turn has taken place.
LEMMA TurnsBegun ==
    ASSUME TypeOK, PlaceInv, ClaimInv, TurnInv, NEW h \in Handlers, NEW k \in Keys, Begin(k),
           handler[h].at \in {"received", "next"}, since' = since,
           \A g \in Handlers \ {h} : handler'[g] = handler[g],
           Holds(h)' = IF Outcome(k) = "Started" THEN k ELSE NoKey,
           handler'[h].at \in {"nonce", "claimed", "turn", "next", "answered"},
           Outcome(k) # "Started" => handler'[h].at \in {"next", "answered"}
    PROVE  TurnInv'
<1>1. \A g \in Handlers \ {h} : Holds(g)' = Holds(g)
  BY HoldsKept
<1>2. \A q : Recent(q)' <=> Recent(q)
  BY DEF Recent
\* A recent turn is still on record, or its key has lapsed now.
<1>3. ASSUME NEW q \in Keys, Recent(q), q \notin lapsed'
      PROVE  /\ q \in Live
             /\ \/ \E g \in Handlers \ {h} : Holds(g) = q /\ handler[g].at \in {"queued", "ran"}
                \/ store'[q].state = "Done" /\ store'[q].age <= since[q]
  <2>1. q \notin lapsed
    BY <1>3, BeginAt
  <2>2. CASE \E g \in Handlers : Holds(g) = q /\ handler[g].at \in {"queued", "ran"}
    <3>1. PICK g \in Handlers : Holds(g) = q /\ handler[g].at \in {"queued", "ran"}
      BY <2>2
    <3>2. store[q].state = "InProgress"
      <4>1. Holds(g) # NoKey
        BY <3>1, WebhookAssumption
      <4> QED
        BY <2>1, <3>1, <4>1 DEF ClaimInv
    <3>3. q \in Live
      BY <1>3, <3>1, <3>2, BeginAt
    <3> QED
      BY <3>1, <3>3
  <2>3. CASE store[q].state = "Done" /\ store[q].age <= since[q]
    <3>1. q \in Live
      <4>1. store[q] \in Entry
        BY <2>3 DEF TypeOK, Entry, Absent
      <4>2. store[q].age < Ttl
        BY <1>3, <2>3, <4>1, WebhookAssumption DEF Entry, Recent
      <4> QED
        BY <2>3, <4>2 DEF Live, Absent
    <3>2. store'[q] = store[q]
      BY <1>3, <3>1, BeginAt
    <3> QED
      BY <2>3, <3>1, <3>2
  <2> QED
    BY <1>3, <2>1, <2>2, <2>3 DEF TurnInv, RecordInv
<1>4. RecordInv'
  BY <1>1, <1>2, <1>3 DEF RecordInv
<1>5. FirstInv'
  <2>1. ASSUME NEW g \in Handlers, handler'[g].at \in {"claimed", "refused", "turn", "failed"},
               Holds(g)' \notin lapsed'
        PROVE  ~Recent(Holds(g))'
    <3>1. CASE g = h
      <4>1. Outcome(k) = "Started" /\ Holds(g)' = k
        BY <2>1, <3>1
      <4>2. k \notin Live
        BY <4>1, StartedIsNotLive
      <4> QED
        BY <1>2, <1>3, <2>1, <4>1, <4>2 DEF Recent
    <3>2. CASE g # h
      <4>1. /\ Holds(g)' = Holds(g) /\ handler[g].at \in {"claimed", "refused", "turn", "failed"}
            /\ Holds(g) \in Keys
        BY <1>1, <2>1, <3>2, HoldsAKey DEF AtMessage
      <4>2. Holds(g) \notin lapsed
        BY <2>1, <4>1, BeginAt
      <4> QED
        BY <4>1, <4>2 DEF TurnInv, FirstInv, Recent
    <3> QED
      BY <3>1, <3>2
  <2> QED
    BY <1>2, <2>1 DEF FirstInv
<1> QED
  BY <1>4, <1>5 DEF TurnInv

\* A request releases or retires what it holds.
LEMMA TurnsReleased ==
    ASSUME TypeOK, PlaceInv, ClaimInv, TurnInv, NEW h \in Handlers, Holds(h) \in Keys,
           \A g \in Handlers \ {h} : handler'[g] = handler[g],
           handler'[h].at \in {"next", "answered"},
           \/ MarkDone(Holds(h))
           \/ Abort(Holds(h)) /\ handler[h].at \in {"refused", "failed"},
           UNCHANGED history
    PROVE  TurnInv'
<1>1. /\ \A g \in Handlers \ {h} : Holds(g)' = Holds(g)
      /\ \A q : Recent(q)' <=> Recent(q)
      /\ lapsed' = lapsed /\ since' = since
      /\ store \in [Keys -> Entry \cup {Absent}]
  BY HoldsKept DEF Recent, history, TypeOK, Entry
<1>2. ASSUME NEW q \in Keys, Recent(q)', q \notin lapsed'
      PROVE  \/ \E g \in Handlers : Holds(g)' = q /\ handler'[g].at \in {"queued", "ran"}
             \/ store'[q].state = "Done" /\ store'[q].age <= since'[q]
  <2>1. Recent(q) /\ q \notin lapsed
    BY <1>1, <1>2
  <2>2. CASE q # Holds(h)
    <3>1. store'[q] = store[q]
      BY <1>1, <2>2 DEF MarkDone, Abort
    <3> QED
      BY <1>1, <2>1, <2>2, <3>1 DEF TurnInv, RecordInv
  <2>3. CASE q = Holds(h) /\ MarkDone(Holds(h))
    <3>1. store'[q] = [state |-> "Done", age |-> 0]
      BY <1>1, <2>3 DEF MarkDone
    <3>2. 0 <= since[q]
      BY <2>1, WebhookAssumption DEF Recent
    <3> QED
      BY <1>1, <3>1, <3>2
  <2>4. CASE q = Holds(h) /\ handler[h].at \in {"refused", "failed"}
    BY <2>1, <2>4 DEF TurnInv, FirstInv
  <2> QED
    BY <2>2, <2>3, <2>4
<1>3. RecordInv'
  BY <1>2 DEF RecordInv
<1>4. FirstInv'
  <2>1. ASSUME NEW g \in Handlers, handler'[g].at \in {"claimed", "refused", "turn", "failed"},
               Holds(g)' \notin lapsed'
        PROVE  ~Recent(Holds(g))'
    <3>1. g # h
      BY <2>1
    <3> QED
      BY <1>1, <2>1, <3>1 DEF TurnInv, FirstInv
  <2> QED
    BY <1>1, <2>1 DEF FirstInv
<1> QED
  BY <1>3, <1>4 DEF TurnInv

\* A request that touches neither the store nor the histories, and has nothing to mark.
LEMMA TurnsIdle ==
    ASSUME TypeOK, TurnInv, NEW h \in Handlers,
           \A g \in Handlers \ {h} : handler'[g] = handler[g],
           handler[h].at \notin {"queued", "ran"},
           \/ handler'[h].at \in {"received", "next", "answered"}
           \/ /\ handler[h].at \in {"claimed", "turn"} /\ handler'[h].at \in {"refused", "failed"}
              /\ Holds(h)' = Holds(h),
           UNCHANGED <<store, since, lapsed>>
    PROVE  TurnInv'
<1>1. /\ \A g \in Handlers \ {h} : Holds(g)' = Holds(g)
      /\ \A q : Recent(q)' <=> Recent(q)
  BY HoldsKept DEF Recent
<1>2. RecordInv'
  BY <1>1 DEF TurnInv, RecordInv
<1>3. FirstInv'
  BY <1>1 DEF TurnInv, FirstInv
<1> QED
  BY <1>2, <1>3 DEF TurnInv

\* A turn: its key, if it has not lapsed, was not worked recently.
LEMMA TurnsWorked ==
    ASSUME TypeOK, PlaceInv, ClaimInv, TurnInv, NEW h \in Handlers, Worked(Holds(h)),
           \A g \in Handlers \ {h} : handler'[g] = handler[g],
           handler[h].at \in {"claimed", "turn"}, handler'[h].at \in {"queued", "ran"},
           Holds(h)' = Holds(h), UNCHANGED <<store, lapsed>>
    PROVE  TurnInv' /\ twice' = twice
<1>1. /\ \A g \in Handlers : Holds(g)' = Holds(g)
      /\ Holds(h) \in Keys /\ Holds(h) # NoKey
      /\ since \in [Keys -> Never..Ttl]
  BY HoldsKept, HoldsAKey DEF AtMessage, TypeOK
<1>2. /\ since'[Holds(h)] = 0
      /\ \A q \in Keys : q # Holds(h) => since'[q] = since[q] /\ (Recent(q)' <=> Recent(q))
  BY <1>1 DEF Worked, Recent
<1>3. Holds(h) \notin lapsed => ~Recent(Holds(h))
  BY DEF TurnInv, FirstInv
<1>4. twice' = twice
  BY <1>3 DEF Worked, Recent
<1>5. RecordInv'
  <2>1. ASSUME NEW q \in Keys, Recent(q)', q \notin lapsed'
        PROVE  \/ \E g \in Handlers : Holds(g)' = q /\ handler'[g].at \in {"queued", "ran"}
               \/ store'[q].state = "Done" /\ store'[q].age <= since'[q]
    <3>1. CASE q = Holds(h)
      BY <1>1, <3>1
    <3>2. CASE q # Holds(h)
      BY <1>1, <1>2, <2>1, <3>2 DEF TurnInv, RecordInv
    <3> QED
      BY <3>1, <3>2
  <2> QED
    BY <2>1 DEF RecordInv
<1>6. FirstInv'
  <2>1. ASSUME NEW g \in Handlers, handler'[g].at \in {"claimed", "refused", "turn", "failed"},
               Holds(g)' \notin lapsed'
        PROVE  ~Recent(Holds(g))'
    <3>1. g # h /\ handler'[g] = handler[g] /\ Holds(g)' = Holds(g) /\ Holds(g) \notin lapsed
      BY <1>1, <2>1
    <3>2. Holds(g) \in Keys /\ Holds(g) # NoKey
      BY <2>1, <3>1, HoldsAKey DEF AtMessage
    <3>3. Holds(g) # Holds(h)
      BY <3>1, <3>2 DEF ClaimInv
    <3> QED
      BY <1>2, <2>1, <3>1, <3>2, <3>3 DEF TurnInv, FirstInv
  <2> QED
    BY <1>1, <2>1 DEF FirstInv
<1> QED
  BY <1>4, <1>5, <1>6 DEF TurnInv

LEMMA TurnsTick ==
    ASSUME TypeOK, PlaceInv, TurnInv, Tick
    PROVE  TurnInv' /\ twice' = twice
<1>1. /\ \A h \in Handlers : Holds(h)' = Holds(h) /\ handler'[h] = handler[h]
      /\ lapsed' = lapsed /\ twice' = twice
      /\ store \in [Keys -> Entry \cup {Absent}] /\ since \in [Keys -> Never..Ttl]
  BY HoldsKept DEF Tick, TypeOK, Entry
<1>2. ASSUME NEW q \in Keys, Recent(q)'
      PROVE  Recent(q) /\ since'[q] = since[q] + 1
  <2>1. since'[q] = IF since[q] # Never /\ since[q] < Ttl THEN since[q] + 1 ELSE since[q]
    BY DEF Tick
  <2> QED
    BY <1>1, <1>2, <2>1, WebhookAssumption DEF Recent, Never
<1>3. RecordInv'
  <2>1. ASSUME NEW q \in Keys, Recent(q)', q \notin lapsed',
               store[q].state = "Done", store[q].age <= since[q]
        PROVE  store'[q].state = "Done" /\ store'[q].age <= since'[q]
    <3>1. store[q] \in Entry /\ store[q] # Absent
      BY <1>1, <2>1 DEF Absent
    <3>2. store[q].age \in 0..Ttl /\ since[q] \in Never..Ttl
      BY <1>1, <3>1 DEF Entry
    <3>3. store'[q] = IF store[q].age < Ttl THEN [store[q] EXCEPT !.age = @ + 1] ELSE store[q]
      BY <3>1 DEF Tick
    <3>4. store'[q].state = "Done" /\ store'[q].age <= store[q].age + 1
      BY <2>1, <3>1, <3>2, <3>3, WebhookAssumption DEF Entry
    <3>5. since'[q] = since[q] + 1
      BY <1>2, <2>1
    <3>6. store'[q].age \in 0..(Ttl + 1)
      BY <3>1, <3>2, <3>3, WebhookAssumption DEF Entry
    <3> QED
      BY <2>1, <3>2, <3>4, <3>5, <3>6, WebhookAssumption DEF Never
  <2> QED
    BY <1>1, <1>2, <2>1 DEF TurnInv, RecordInv
<1>4. FirstInv'
  <2>1. ASSUME NEW g \in Handlers, handler'[g].at \in {"claimed", "refused", "turn", "failed"},
               Holds(g)' \notin lapsed'
        PROVE  ~Recent(Holds(g))'
    <3>1. Holds(g) \in Keys /\ ~Recent(Holds(g))
      BY <1>1, <2>1, HoldsAKey DEF AtMessage, TurnInv, FirstInv
    <3> QED
      BY <1>1, <1>2, <3>1
  <2> QED
    BY <1>1, <2>1 DEF FirstInv
<1> QED
  BY <1>1, <1>3, <1>4 DEF TurnInv

LEMMA StepTurns ==
    ASSUME TypeOK, PlaceInv, ClaimInv, TurnInv, NEW h \in Handlers, Steps(h)
    PROVE  TurnInv' /\ twice' = twice
<1>1. PICK r \in HandlerType : Placed(r) /\ handler' = [handler EXCEPT ![h] = r]
  BY StepPlaces
<1>2. /\ handler \in [Handlers -> HandlerType] /\ handler[h] \in HandlerType /\ Placed(handler[h])
      /\ \A g \in Handlers \ {h} : handler'[g] = handler[g]
      /\ handler'[h] = r
  BY <1>1 DEF TypeOK, HandlerType, PlaceInv
<1>3. /\ handler[h].of.ids[1] \in Keys
      /\ handler[h].next \in 1..Len(handler[h].of.ids) => handler[h].of.ids[handler[h].next] \in Keys
      /\ handler[h].at = "received" => handler[h].of.nonce \in Keys
  BY <1>2, DeliveryTyped DEF HandlerType, Placed
<1>4. /\ \A answer : Answer(h, answer) => handler'[h].at = "answered"
      /\ \A phase \in Phases : Go(h, phase) => handler'[h].at = phase
  BY <1>2 DEF Answer, Go, HandlerType
<1>5. CASE BeginNonce(h)
  <2>1. Holds(h)' = IF Outcome(handler[h].of.nonce) = "Started" THEN handler[h].of.nonce ELSE NoKey
    BY <1>5, HoldsAfter DEF BeginNonce
  <2>2. /\ handler[h].of.nonce \in Keys /\ Begin(handler[h].of.nonce)
        /\ handler[h].at = "received" /\ since' = since /\ twice' = twice
    BY <1>3, <1>5 DEF BeginNonce
  <2>3. /\ handler'[h].at \in {"nonce", "answered"}
        /\ Outcome(handler[h].of.nonce) # "Started" => handler'[h].at = "answered"
    BY <1>4, <1>5 DEF BeginNonce, Phases
  <2> QED
    BY <1>2, <2>1, <2>2, <2>3, TurnsBegun
<1>6. CASE BeginInbound(h)
  <2> DEFINE k == handler[h].of.ids[handler[h].next]
  <2>1. k \in Keys /\ Begin(k) /\ handler[h].at = "next" /\ since' = since /\ twice' = twice
    BY <1>2, <1>3, <1>6 DEF BeginInbound, HandlerType
  <2>2. CASE Outcome(k) = "Started"
    <3>1. Holds(h)' = k /\ handler'[h].at = "claimed"
      BY <1>4, <1>6, <2>2, HoldsAfter DEF BeginInbound, AtMessage, Phases
    <3> QED
      BY <1>2, <2>1, <2>2, <3>1, TurnsBegun
  <2>3. CASE Outcome(k) # "Started"
    <3>1. handler'[h].at = "next"
      BY <1>2, <1>6, <2>1, <2>3 DEF BeginInbound, HandlerType
    <3>2. Holds(h)' = NoKey
      BY <3>1 DEF Holds
    <3> QED
      BY <1>2, <2>1, <2>3, <3>1, <3>2, TurnsBegun
  <2> QED
    BY <2>2, <2>3
<1>7. CASE BeginWebhook(h)
  <2> DEFINE k == handler[h].of.ids[1]
  <2>1. /\ k \in Keys /\ Begin(k) /\ handler[h].next = 1 /\ handler[h].at = "next"
        /\ since' = since /\ twice' = twice
    BY <1>2, <1>3, <1>7 DEF BeginWebhook, Placed
  <2>2. Holds(h)' = IF Outcome(k) = "Started" THEN k ELSE NoKey
    BY <1>7, <2>1, HoldsAfter DEF BeginWebhook, AtMessage
  <2>3. /\ handler'[h].at \in {"turn", "answered"}
        /\ Outcome(k) # "Started" => handler'[h].at = "answered"
    BY <1>4, <1>7 DEF BeginWebhook, Phases
  <2> QED
    BY <1>2, <2>1, <2>2, <2>3, TurnsBegun
<1>8. CASE Receive(h) \/ AnswerBatch(h) \/ DropFuture(h)
  <2>1. /\ UNCHANGED <<store, since, lapsed, twice>>
        /\ handler[h].at \notin {"queued", "ran"}
    BY <1>8 DEF Receive, AnswerBatch, DropFuture, history
  <2>2. handler'[h].at \in {"received", "next", "answered"}
    <3>1. CASE Receive(h)
      BY <1>2, <3>1 DEF Receive
    <3>2. CASE AnswerBatch(h) \/ DropFuture(h)
      BY <1>4, <3>2 DEF AnswerBatch, DropFuture
    <3> QED
      BY <1>8, <3>1, <3>2
  <2> QED
    BY <1>2, <2>1, <2>2, TurnsIdle
<1>9. CASE TrySend(h) \/ TurnEnds(h)
  <2>1. /\ handler[h].at \in {"claimed", "turn"} /\ UNCHANGED <<store, lapsed>>
        /\ \/ Go(h, "queued") /\ Worked(Holds(h))
           \/ Go(h, "ran") /\ Worked(Holds(h))
           \/ Go(h, "refused") /\ UNCHANGED <<since, twice>>
           \/ Go(h, "failed") /\ UNCHANGED <<since, twice>>
    BY <1>9 DEF TrySend, TurnEnds
  <2>2. Holds(h)' = Holds(h)
    <3>1. Holds(h) = handler[h].of.ids[handler[h].next]
      BY <2>1 DEF Holds
    <3> QED
      BY <2>1, <3>1, HoldsAfter DEF AtMessage
  <2>3. CASE (Go(h, "queued") \/ Go(h, "ran")) /\ Worked(Holds(h))
    <3>1. handler'[h].at \in {"queued", "ran"}
      BY <1>4, <2>3 DEF Phases
    <3> QED
      BY <1>2, <2>1, <2>2, <2>3, <3>1, TurnsWorked
  <2>4. CASE (Go(h, "refused") \/ Go(h, "failed")) /\ UNCHANGED <<since, twice>>
    <3>1. handler'[h].at \in {"refused", "failed"}
      BY <1>4, <2>4 DEF Phases
    <3> QED
      BY <1>2, <2>1, <2>2, <2>4, <3>1, TurnsIdle
  <2> QED
    BY <2>1, <2>3, <2>4
<1>10. CASE RetireNonce(h) \/ FinishQueued(h) \/ FinishRefused(h) \/ FinishWebhook(h)
  <2>1. /\ UNCHANGED history /\ handler[h].at \in AtMessage \cup {"nonce"}
        /\ \/ MarkDone(Holds(h))
           \/ Abort(Holds(h)) /\ handler[h].at \in {"refused", "failed"}
    BY <1>10 DEF RetireNonce, FinishQueued, FinishRefused, FinishWebhook, Holds, AtMessage
  <2>2. Holds(h) \in Keys
    BY <2>1, HoldsAKey
  <2>3. handler'[h].at \in {"next", "answered"}
    <3>1. CASE RetireNonce(h) \/ FinishRefused(h) \/ FinishWebhook(h)
      BY <1>4, <3>1 DEF RetireNonce, FinishRefused, FinishWebhook, Phases
    <3>2. CASE FinishQueued(h)
      BY <1>2, <3>2 DEF FinishQueued, HandlerType
    <3> QED
      BY <1>10, <3>1, <3>2
  <2> QED
    BY <1>2, <2>1, <2>2, <2>3, TurnsReleased DEF history
<1> QED
  BY <1>5, <1>6, <1>7, <1>8, <1>9, <1>10 DEF Steps, HandlerStep

-----------------------------------------------------------------------------
(* Answers.                                                                *)

\* A finished entry is that of a nonce, or of a message that was worked.
DoneInv ==
    \A k \in Keys :
        store[k].state = "Done" => since[k] # Never \/ \E d \in Deliveries : d.nonce = k

\* What a request has behind it was worked, or left to another.
EarnedIn(r, s) ==
    /\ (r.at \in {"next", "claimed", "queued", "refused"} /\ r.of.route # "webhook")
          => r.joined \/ \A i \in 1..Len(r.of.ids) : i < r.next => s[r.of.ids[i]] # Never
    /\ r.at \in {"queued", "ran"} => s[r.of.ids[r.next]] # Never
    /\ r.at # "answered" => r.answer = "none"
    /\ (r.answer = "ok" \/ (r.answer = "duplicate" /\ r.of.route = "webhook"))
          => r.joined \/ \A i \in 1..Len(r.of.ids) : s[r.of.ids[i]] # Never

EarnedInv == \A h \in Handlers : EarnedIn(handler[h], since)

\* What was worked stays so.
LEMMA WorkStays ==
    ASSUME TypeOK, NEW k \in Keys, since[k] # Never,
           \/ since' = since
           \/ \E q : since' = [since EXCEPT ![q] = 0]
           \/ Tick
    PROVE  since'[k] # Never
<1>1. since \in [Keys -> Never..Ttl] /\ since[k] \in 0..Ttl
  BY WebhookAssumption DEF TypeOK, Never
<1>2. CASE since' = since
  BY <1>2
<1>3. CASE \E q : since' = [since EXCEPT ![q] = 0]
  BY <1>1, <1>3 DEF Never
<1>4. CASE Tick
  <2>1. since'[k] \in {since[k], since[k] + 1}
    BY <1>4 DEF Tick
  <2> QED
    BY <1>1, <2>1, WebhookAssumption DEF Never
<1> QED
  BY <1>2, <1>3, <1>4

\* What was earned stays so, for a request that does not move.
LEMMA EarnedStays ==
    ASSUME NEW r \in HandlerType, Placed(r), EarnedIn(r, since),
           \A k \in Keys : since[k] # Never => since'[k] # Never
    PROVE  EarnedIn(r, since')
<1>1. \A i \in 1..Len(r.of.ids) : r.of.ids[i] \in Keys
  BY DeliveryTyped DEF HandlerType
<1>2. r.at \in {"queued", "ran"} => r.of.ids[r.next] \in Keys
  BY <1>1 DEF Placed, AtMessage
<1> QED
  BY <1>1, <1>2 DEF EarnedIn

\* A key of a message that is done was worked.
LEMMA DoneIsWorked ==
    ASSUME TypeOK, DoneInv, NEW d \in Deliveries, NEW i \in 1..Len(d.ids), Outcome(d.ids[i]) = "Done"
    PROVE  since[d.ids[i]] # Never
<1>1. d.ids[i] \in Keys
  BY DeliveryTyped
<1>2. store[d.ids[i]].state = "Done"
  BY <1>1, StartedIsNotLive
<1> QED
  BY <1>1, <1>2, WebhookAssumption DEF DoneInv

\* The record of a request after its step.
LEMMA StepEarned ==
    ASSUME TypeOK, PlaceInv, DoneInv, EarnedInv, NEW h \in Handlers, Steps(h),
           \A k \in Keys : since[k] # Never => since'[k] # Never
    PROVE  EarnedIn(handler[h], since)'
<1> DEFINE old == handler[h]
           new == handler'[h]
<1>1. /\ handler \in [Handlers -> HandlerType] /\ old \in HandlerType /\ Placed(old) /\ EarnedIn(old, since)
      /\ old.of \in Deliveries /\ old.next \in Nat /\ old.next > 0
      /\ Len(old.of.ids) \in Nat /\ Len(old.of.ids) > 0
  BY DeliveryTyped DEF TypeOK, HandlerType, PlaceInv, EarnedInv
<1>2. /\ \A i \in 1..Len(old.of.ids) : old.of.ids[i] \in Keys
      /\ old.of.route = "webhook" => Len(old.of.ids) = 1
  BY <1>1, DeliveryTyped, WebhookAssumption
<1>3. \A phase \in Phases : Go(h, phase) =>
          /\ new.at = phase /\ new.of = old.of /\ new.next = old.next
          /\ new.joined = old.joined /\ new.answer = old.answer
  BY <1>1 DEF Go, HandlerType
<1>4. \A answer : Answer(h, answer) =>
          /\ new.at = "answered" /\ new.of = old.of /\ new.joined = old.joined /\ new.answer = answer
  BY <1>1 DEF Answer, HandlerType
<1>5. ASSUME NEW answer, Answer(h, answer), answer \notin {"ok", "duplicate"}
      PROVE  EarnedIn(new, since')
  BY <1>4, <1>5 DEF EarnedIn
<1>6. CASE Receive(h)
  <2>1. PICK d \in sending :
           new = [at |-> IF d.route = "nonce" THEN "received" ELSE "next",
                  of |-> d, next |-> 1, joined |-> FALSE, answer |-> "none"]
    BY <1>1, <1>6 DEF Receive
  <2> QED
    BY <2>1 DEF EarnedIn
<1>7. CASE BeginNonce(h)
  <2>1. old.at = "received" /\ (Go(h, "nonce") \/ Answer(h, "duplicate")) /\ old.of.route = "nonce"
    BY <1>1, <1>7 DEF BeginNonce, Placed
  <2>2. CASE Go(h, "nonce")
    BY <1>1, <1>3, <2>1, <2>2 DEF Phases, EarnedIn
  <2>3. CASE Answer(h, "duplicate")
    BY <1>4, <2>1, <2>3 DEF EarnedIn
  <2> QED
    BY <2>1, <2>2, <2>3
<1>8. CASE RetireNonce(h)
  <2>1. old.at = "nonce" /\ Go(h, "next")
    BY <1>8 DEF RetireNonce
  <2>2. new.at = "next" /\ new.of = old.of /\ new.next = old.next /\ new.answer = "none"
    BY <1>1, <1>3, <2>1 DEF Phases, EarnedIn
  <2>3. old.next = 1
    BY <1>1, <2>1 DEF Placed
  <2> QED
    BY <1>1, <2>2, <2>3 DEF EarnedIn
<1>9. CASE BeginInbound(h)
  <2>1. /\ old.at = "next" /\ old.of.route # "webhook" /\ old.next \in 1..Len(old.of.ids)
        /\ old.answer = "none"
    BY <1>1, <1>9 DEF BeginInbound, EarnedIn
  <2>2. old.joined \/ \A i \in 1..Len(old.of.ids) : i < old.next => since'[old.of.ids[i]] # Never
    BY <1>1, <1>2, <2>1 DEF EarnedIn
  <2>3. CASE Go(h, "claimed")
    BY <1>3, <2>1, <2>2, <2>3 DEF EarnedIn, Phases
  <2>4. CASE /\ Outcome(old.of.ids[old.next]) # "Started"
             /\ handler' = [handler EXCEPT ![h].next = @ + 1,
                                           ![h].joined = @ \/ Outcome(old.of.ids[old.next]) = "InProgress"]
    <3>1. /\ new.at = old.at /\ new.of = old.of /\ new.next = old.next + 1 /\ new.answer = old.answer
          /\ new.joined <=> old.joined \/ Outcome(old.of.ids[old.next]) = "InProgress"
      BY <1>1, <2>4 DEF HandlerType
    <3>2. Outcome(old.of.ids[old.next]) \in {"InProgress", "Done"}
      <4>1. old.of.ids[old.next] \in Keys
        BY <1>2, <2>1
      <4>2. store[old.of.ids[old.next]] \in Entry \cup {Absent} /\ old.of.ids[old.next] \in Live
        BY <2>4, <4>1, StartedIsNotLive DEF TypeOK, Entry
      <4> QED
        BY <2>4, <4>1, <4>2, StartedIsNotLive DEF Live, Entry
    <3>3. new.joined \/ since'[old.of.ids[old.next]] # Never
      BY <1>1, <1>2, <2>1, <3>1, <3>2, DoneIsWorked
    <3>4. \A i \in 1..Len(old.of.ids) : i < old.next + 1 => i < old.next \/ i = old.next
      BY <1>1
    <3> QED
      BY <2>1, <2>2, <3>1, <3>3, <3>4 DEF EarnedIn
  <2> QED
    BY <1>9, <2>3, <2>4 DEF BeginInbound
<1>10. CASE TrySend(h)
  <2>1. /\ old.at = "claimed" /\ old.of.route # "webhook" /\ old.answer = "none"
        /\ old.next \in 1..Len(old.of.ids) /\ Holds(h) = old.of.ids[old.next]
    BY <1>1, <1>10 DEF TrySend, Placed, EarnedIn, AtMessage, Holds
  <2>2. old.joined \/ \A i \in 1..Len(old.of.ids) : i < old.next => since'[old.of.ids[i]] # Never
    BY <1>1, <1>2, <2>1 DEF EarnedIn
  <2>3. CASE Go(h, "queued") /\ Worked(Holds(h))
    <3>1. since'[old.of.ids[old.next]] # Never
      BY <1>2, <2>1, <2>3 DEF Worked, Never, TypeOK
    <3> QED
      BY <1>3, <2>1, <2>2, <2>3, <3>1 DEF EarnedIn, Phases
  <2>4. CASE Go(h, "refused")
    BY <1>3, <2>1, <2>2, <2>4 DEF EarnedIn, Phases
  <2> QED
    BY <1>10, <2>3, <2>4 DEF TrySend
<1>11. CASE FinishQueued(h)
  <2>1. /\ old.at = "queued" /\ old.of.route # "webhook" /\ old.answer = "none"
        /\ old.next \in 1..Len(old.of.ids) /\ since[old.of.ids[old.next]] # Never
    BY <1>1, <1>11 DEF FinishQueued, Placed, EarnedIn, AtMessage
  <2>2. old.joined \/ \A i \in 1..Len(old.of.ids) : i < old.next => since'[old.of.ids[i]] # Never
    BY <1>1, <1>2, <2>1 DEF EarnedIn
  <2>3. /\ new.at = "next" /\ new.of = old.of /\ new.next = old.next + 1 /\ new.answer = old.answer
        /\ new.joined = old.joined
    BY <1>1, <1>11 DEF FinishQueued, HandlerType
  <2>4. \A i \in 1..Len(old.of.ids) : i < old.next + 1 => i < old.next \/ i = old.next
    BY <1>1
  <2> QED
    BY <1>2, <2>1, <2>2, <2>3, <2>4 DEF EarnedIn
<1>12. CASE FinishRefused(h)
  BY <1>5, <1>12 DEF FinishRefused
<1>13. CASE AnswerBatch(h)
  <2>1. /\ old.at = "next" /\ old.of.route # "webhook" /\ old.next > Len(old.of.ids) /\ Answer(h, "ok")
    BY <1>13 DEF AnswerBatch
  <2>2. \A i \in 1..Len(old.of.ids) : i < old.next
    BY <1>1, <2>1
  <2>3. old.joined \/ \A i \in 1..Len(old.of.ids) : since'[old.of.ids[i]] # Never
    BY <1>1, <1>2, <2>1, <2>2 DEF EarnedIn
  <2> QED
    BY <1>4, <2>1, <2>3 DEF EarnedIn
<1>14. CASE BeginWebhook(h)
  <2>1. /\ old.at = "next" /\ old.of.route = "webhook" /\ old.answer = "none"
        /\ \/ Go(h, "turn") \/ Answer(h, "busy")
           \/ Outcome(old.of.ids[1]) = "Done" /\ Answer(h, "duplicate")
    BY <1>1, <1>14 DEF BeginWebhook, EarnedIn
  <2>2. CASE Go(h, "turn")
    BY <1>3, <2>1, <2>2 DEF EarnedIn, Phases
  <2>3. CASE Outcome(old.of.ids[1]) = "Done" /\ Answer(h, "duplicate")
    <3>1. Len(old.of.ids) = 1 /\ since[old.of.ids[1]] # Never
      BY <1>1, <1>2, <2>1, <2>3, DoneIsWorked
    <3>2. \A i \in 1..Len(old.of.ids) : since'[old.of.ids[i]] # Never
      BY <1>2, <3>1
    <3> QED
      BY <1>4, <2>3, <3>2 DEF EarnedIn
  <2> QED
    BY <1>5, <2>1, <2>2, <2>3
<1>15. CASE TurnEnds(h)
  <2>1. /\ old.at = "turn" /\ old.of.route = "webhook" /\ old.answer = "none"
        /\ old.next \in 1..Len(old.of.ids) /\ Holds(h) = old.of.ids[old.next]
    BY <1>1, <1>15 DEF TurnEnds, Placed, EarnedIn, AtMessage, Holds
  <2>2. CASE Go(h, "ran") /\ Worked(Holds(h))
    <3>1. since'[old.of.ids[old.next]] # Never
      BY <1>2, <2>1, <2>2 DEF Worked, Never, TypeOK
    <3> QED
      BY <1>3, <2>1, <2>2, <3>1 DEF EarnedIn, Phases
  <2>3. CASE Go(h, "failed")
    BY <1>3, <2>1, <2>3 DEF EarnedIn, Phases
  <2> QED
    BY <1>15, <2>2, <2>3 DEF TurnEnds
<1>16. CASE FinishWebhook(h)
  <2>1. CASE old.at = "ran" /\ Answer(h, "ok")
    <3>1. old.next = 1 /\ Len(old.of.ids) = 1 /\ since[old.of.ids[1]] # Never
      BY <1>1, <1>2, <2>1 DEF Placed, EarnedIn
    <3>2. \A i \in 1..Len(old.of.ids) : since'[old.of.ids[i]] # Never
      BY <1>2, <3>1
    <3> QED
      BY <1>4, <2>1, <3>2 DEF EarnedIn
  <2>2. CASE Answer(h, "error")
    BY <1>5, <2>2
  <2> QED
    BY <1>16, <2>1, <2>2 DEF FinishWebhook
<1>17. CASE DropFuture(h)
  BY <1>5, <1>17 DEF DropFuture
<1> QED
  BY <1>6, <1>7, <1>8, <1>9, <1>10, <1>11, <1>12, <1>13, <1>14, <1>15, <1>16, <1>17
     DEF Steps, HandlerStep

\* A step works a key or none.
LEMMA StepWork ==
    ASSUME TypeOK, NEW h \in Handlers, Steps(h)
    PROVE  \A k \in Keys : since[k] # Never => since'[k] # Never
<1>1. since' = since \/ \E q : since' = [since EXCEPT ![q] = 0]
  <2>1. CASE TrySend(h) \/ TurnEnds(h)
    BY <2>1 DEF TrySend, TurnEnds, Worked
  <2>2. CASE Receive(h) \/ AnswerBatch(h) \/ DropFuture(h)
    BY <2>2 DEF Receive, AnswerBatch, DropFuture, history
  <2>3. CASE RetireNonce(h) \/ FinishQueued(h) \/ FinishRefused(h) \/ FinishWebhook(h)
    BY <2>3 DEF RetireNonce, FinishQueued, FinishRefused, FinishWebhook, history
  <2>4. CASE BeginNonce(h) \/ BeginInbound(h) \/ BeginWebhook(h)
    BY <2>4 DEF BeginNonce, BeginInbound, BeginWebhook
  <2> QED
    BY <2>1, <2>2, <2>3, <2>4 DEF Steps, HandlerStep
<1> QED
  BY <1>1, WorkStays

\* What is marked done was worked, or is a nonce.
LEMMA StepDone ==
    ASSUME TypeOK, PlaceInv, DoneInv, EarnedInv, NEW h \in Handlers, Steps(h)
    PROVE  DoneInv'
<1>1. /\ \A k \in Keys : since[k] # Never => since'[k] # Never
      /\ store \in [Keys -> Entry \cup {Absent}]
      /\ handler[h] \in HandlerType /\ Placed(handler[h]) /\ handler[h].of \in Deliveries
      /\ EarnedIn(handler[h], since)
  BY StepWork DEF TypeOK, Entry, HandlerType, PlaceInv, EarnedInv
<1>2. ASSUME \A k \in Keys : store'[k].state = "Done" =>
                 \/ store[k].state = "Done" \/ since[k] # Never \/ \E d \in Deliveries : d.nonce = k
      PROVE  DoneInv'
  BY <1>1, <1>2 DEF DoneInv
<1>3. CASE BeginNonce(h) \/ BeginInbound(h) \/ BeginWebhook(h)
  <2>1. PICK k \in Keys : Begin(k)
    <3>1. CASE BeginNonce(h)
      BY <1>1, <3>1, DeliveryTyped DEF BeginNonce, Placed
    <3>2. CASE BeginInbound(h)
      <4>1. handler[h].next \in 1..Len(handler[h].of.ids)
        BY <1>1, <3>2, DeliveryTyped DEF BeginInbound, HandlerType
      <4> QED
        BY <1>1, <3>2, <4>1, DeliveryTyped DEF BeginInbound
    <3>3. CASE BeginWebhook(h)
      <4>1. 1 \in 1..Len(handler[h].of.ids)
        BY <1>1, DeliveryTyped
      <4> QED
        BY <1>1, <3>3, <4>1, DeliveryTyped DEF BeginWebhook
    <3> QED
      BY <1>3, <3>1, <3>2, <3>3
  <2>2. ASSUME NEW q \in Keys
        PROVE  store'[q] = store[q] \/ store'[q].state \in {"absent", "InProgress"}
    BY <2>1, BeginAt DEF Absent
  <2> QED
    BY <1>2, <2>2
<1>4. CASE Receive(h) \/ TrySend(h) \/ AnswerBatch(h) \/ TurnEnds(h) \/ DropFuture(h)
  <2>1. store' = store
    BY <1>4 DEF Receive, TrySend, AnswerBatch, TurnEnds, DropFuture
  <2> QED
    BY <1>2, <2>1
<1>5. CASE RetireNonce(h) \/ FinishQueued(h) \/ FinishRefused(h) \/ FinishWebhook(h)
  <2>1. /\ handler[h].at \in AtMessage \cup {"nonce"}
        /\ \/ MarkDone(Holds(h)) /\ handler[h].at \in {"nonce", "queued", "ran"}
           \/ Abort(Holds(h))
    BY <1>5 DEF RetireNonce, FinishQueued, FinishRefused, FinishWebhook, Holds, AtMessage
  <2>2. Holds(h) \in Keys
    BY <2>1, HoldsAKey
  <2>3. ASSUME NEW q \in Keys, q # Holds(h)
        PROVE  store'[q] = store[q]
    BY <1>1, <2>1, <2>3 DEF MarkDone, Abort
  <2>4. CASE Abort(Holds(h))
    <3>1. store'[Holds(h)].state = "absent"
      BY <1>1, <2>2, <2>4 DEF Abort, Absent
    <3> QED
      BY <1>2, <2>3, <3>1
  <2>5. CASE handler[h].at = "nonce"
    <3>1. Holds(h) = handler[h].of.nonce
      BY <2>5 DEF Holds
    <3> QED
      BY <1>1, <1>2, <2>3, <3>1
  <2>6. CASE handler[h].at \in {"queued", "ran"}
    <3>1. Holds(h) = handler[h].of.ids[handler[h].next]
      BY <2>6 DEF Holds
    <3>2. since[Holds(h)] # Never
      BY <1>1, <2>6, <3>1 DEF EarnedIn
    <3> QED
      BY <1>2, <2>3, <3>2
  <2> QED
    BY <2>1, <2>4, <2>5, <2>6
<1> QED
  BY <1>3, <1>4, <1>5 DEF Steps, HandlerStep

\* Nor does the clock change what is done, or what was earned.
LEMMA TickAnswers ==
    ASSUME TypeOK, PlaceInv, DoneInv, EarnedInv, Tick
    PROVE  DoneInv' /\ EarnedInv'
<1>1. /\ \A k \in Keys : since[k] # Never => since'[k] # Never
      /\ handler' = handler /\ store \in [Keys -> Entry \cup {Absent}]
  BY WorkStays DEF Tick, TypeOK, Entry
<1>2. ASSUME NEW k \in Keys
      PROVE  store'[k].state = store[k].state
  <2>1. CASE store[k] # Absent /\ store[k].age < Ttl
    <3>1. store[k] \in Entry /\ store'[k] = [store[k] EXCEPT !.age = @ + 1]
      BY <1>1, <2>1 DEF Tick
    <3> QED
      BY <3>1 DEF Entry
  <2>2. CASE ~(store[k] # Absent /\ store[k].age < Ttl)
    BY <2>2 DEF Tick
  <2> QED
    BY <2>1, <2>2
<1>3. DoneInv'
  BY <1>1, <1>2 DEF DoneInv
<1>4. ASSUME NEW h \in Handlers
      PROVE  EarnedIn(handler[h], since')
  <2>1. handler[h] \in HandlerType /\ Placed(handler[h]) /\ EarnedIn(handler[h], since)
    BY DEF TypeOK, HandlerType, PlaceInv, EarnedInv
  <2> QED
    BY <1>1, <2>1, EarnedStays
<1>5. EarnedInv'
  BY <1>1, <1>4 DEF EarnedInv
<1> QED
  BY <1>3, <1>5

\* The answers of all requests, after a step of one.
LEMMA StepAnswers ==
    ASSUME TypeOK, PlaceInv, DoneInv, EarnedInv, NEW h \in Handlers, Steps(h)
    PROVE  DoneInv' /\ EarnedInv'
<1>1. \A k \in Keys : since[k] # Never => since'[k] # Never
  BY StepWork
<1>2. PICK r \in HandlerType : handler' = [handler EXCEPT ![h] = r]
  BY StepPlaces
<1>3. ASSUME NEW g \in Handlers
      PROVE  EarnedIn(handler'[g], since')
  <2>1. CASE g = h
    BY <1>1, <2>1, StepEarned
  <2>2. CASE g # h
    <3>1. handler'[g] = handler[g]
      BY <1>2, <2>2 DEF TypeOK
    <3>2. handler[g] \in HandlerType /\ Placed(handler[g]) /\ EarnedIn(handler[g], since)
      BY DEF TypeOK, HandlerType, PlaceInv, EarnedInv
    <3>3. EarnedIn(handler[g], since')
      BY <1>1, <3>2, EarnedStays
    <3> QED
      BY <3>1, <3>3
  <2> QED
    BY <2>1, <2>2
<1>4. EarnedInv'
  BY <1>3 DEF EarnedInv
<1> QED
  BY <1>4, StepDone

-----------------------------------------------------------------------------
(* The theorems.                                                           *)

WebhookInv == TypeOK /\ PlaceInv /\ ClaimInv /\ TurnInv /\ DoneInv /\ EarnedInv /\ twice = {}

LEMMA InitHolds == WebhookInit => WebhookInv
<1> SUFFICES ASSUME WebhookInit
             PROVE  WebhookInv
  OBVIOUS
<1>1. PICK d0 : d0 = CHOOSE d \in Deliveries : TRUE
  OBVIOUS
<1>2. sending \in Scenarios /\ sending # {} /\ sending \subseteq Deliveries
  BY WebhookAssumption DEF WebhookInit, Deliveries
<1>3. d0 \in Deliveries
  BY <1>1, <1>2
<1>4. [at |-> "idle", of |-> d0, next |-> 1, joined |-> FALSE, answer |-> "none"] \in HandlerType
  BY <1>3 DEF HandlerType, Phases, Answers
<1>5. /\ handler \in [Handlers -> HandlerType]
      /\ \A h \in Handlers : handler[h].at = "idle" /\ handler[h].answer = "none"
  BY <1>1, <1>4 DEF WebhookInit
<1>6. TypeOK
  BY <1>2, <1>5, WebhookAssumption DEF WebhookInit, TypeOK, HandlerType, Never
<1>7. PlaceInv /\ ClaimInv
  BY <1>5 DEF PlaceInv, Placed, AtMessage, ClaimInv, Holds
<1>8. \A k \in Keys : since[k] = Never /\ store[k].state = "absent" /\ ~Recent(k)
  BY WebhookAssumption DEF WebhookInit, Recent, Never, Absent
<1>9. TurnInv
  BY <1>5, <1>8 DEF TurnInv, RecordInv, FirstInv
<1>10. DoneInv /\ EarnedInv
  BY <1>5, <1>8 DEF DoneInv, EarnedInv, EarnedIn
<1> QED
  BY <1>6, <1>7, <1>9, <1>10 DEF WebhookInv, WebhookInit

LEMMA NextHolds == WebhookInv /\ [WebhookNext]_vars => WebhookInv'
<1> SUFFICES ASSUME TypeOK, PlaceInv, ClaimInv, TurnInv, DoneInv, EarnedInv, twice = {},
                    [WebhookNext]_vars
             PROVE  WebhookInv'
  BY DEF WebhookInv
<1>1. ASSUME NEW h \in Handlers, Steps(h)
      PROVE  WebhookInv'
  <2>1. PICK r \in HandlerType : Placed(r) /\ handler' = [handler EXCEPT ![h] = r]
    BY <1>1, StepPlaces
  <2>2. handler' \in [Handlers -> HandlerType] /\ \A g \in Handlers : Placed(handler'[g])
    BY <2>1 DEF TypeOK, HandlerType, PlaceInv
  <2>3. TypeOK'
    BY <1>1, <2>2, StepTypes DEF TypeOK, HandlerType, Entry
  <2>4. PlaceInv'
    BY <2>2 DEF PlaceInv
  <2>5. ClaimInv' /\ TurnInv' /\ twice' = {} /\ DoneInv' /\ EarnedInv'
    BY <1>1, StepClaims, StepTurns, StepAnswers
  <2> QED
    BY <2>3, <2>4, <2>5 DEF WebhookInv
<1>2. CASE Tick
  BY <1>2, TickTypes, TickClaims, TurnsTick, TickAnswers DEF WebhookInv
<1>3. CASE UNCHANGED vars
  <2>1. /\ TypeOK' /\ PlaceInv' /\ ClaimInv' /\ twice' = {}
    BY <1>3 DEF vars, history, TypeOK, PlaceInv, Placed, ClaimInv, Holds
  <2>2. TurnInv'
    BY <1>3 DEF vars, history, TurnInv, RecordInv, FirstInv, Recent, Holds
  <2>3. DoneInv' /\ EarnedInv'
    BY <1>3 DEF vars, history, DoneInv, EarnedInv
  <2> QED
    BY <2>1, <2>2, <2>3 DEF WebhookInv
<1> QED
  BY <1>1, <1>2, <1>3 DEF WebhookNext, Steps

\* Every variable keeps its type: the entries of IdempotencyStore, the handlers and
\* what the histories remember, whatever is delivered and however often.
THEOREM WebhookTypeCorrect == WebhookSpec => []TypeOK
<1>1. WebhookInv => TypeOK
  BY DEF WebhookInv
<1> QED
  BY <1>1, InitHolds, NextHolds, PTL DEF WebhookSpec

\* Two handlers never work on one key while its claim has neither expired nor been
\* evicted: finish_inbound retires and releases by the key alone, and that is enough.
THEOREM OneWorker == WebhookSpec => []OneWorkerPerKey
<1>1. WebhookInv => OneWorkerPerKey
  BY DEF WebhookInv, ClaimInv, OneWorkerPerKey
<1> QED
  BY <1>1, InitHolds, NextHolds, PTL DEF WebhookSpec

\* A redelivery inside the TTL does not run the turn a second time (enqueue_inbound,
\* /webhook), unless the claim or the mark of its key went before its time.
THEOREM NoSecondTurn == WebhookSpec => []NoSecondTurnInsideTtl
<1>1. WebhookInv => NoSecondTurnInsideTtl
  BY DEF WebhookInv, NoSecondTurnInsideTtl
<1> QED
  BY <1>1, InitHolds, NextHolds, PTL DEF WebhookSpec

\* A 200 of the webhooks stands for work that was done: every message of the batch
\* reached the bus, the turn of /webhook ran, or another request had it in flight.
THEOREM AcksEarned == WebhookSpec => []AcksAreEarned
<1>1. WebhookInv => AcksAreEarned
  BY DEF WebhookInv, EarnedInv, EarnedIn, AcksAreEarned
<1> QED
  BY <1>1, InitHolds, NextHolds, PTL DEF WebhookSpec
=============================================================================
