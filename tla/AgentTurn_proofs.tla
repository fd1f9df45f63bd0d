--------------------------- MODULE AgentTurn_proofs ---------------------------
(***************************************************************************)
(* Proofs about AgentTurn, for any tools, presets, iterations and batch    *)
(* sizes: its types, that a batch obeys the policy left alone while it     *)
(* ran, that the audit line tells who let a call through, and that the     *)
(* tools are not offered again after a no.                                 *)
(*                                                                         *)
(* The argument follows one call: what a call has been told so far (Said)  *)
(* and which gates it must have passed to be where it is (LetThrough).     *)
(* Both only speak of that call, so a step of one call leaves the others.  *)
(***************************************************************************)
EXTENDS AgentTurn, SequenceTheorems, TLAPS

-----------------------------------------------------------------------------
(* The inductive invariant.                                                *)

\* What a call's record says, by where the call is.
Said(c) ==
    /\ c.at # "none"
    /\ c.at = "finished" <=> c.out # "none"
    /\ c.at = "finished" <=> c.audit # "none"
    /\ c.acted => c.at \in {"acting", "finished"}
    /\ c.at = "acting" => c.acted
    /\ c.at \in {"waiting", "prompted"} => c.outer = "NotRequired" /\ c.heard = {}
    /\ c.at \in {"waiting", "prompted", "cleared", "asking"} => c.cell = "none"
    /\ c.at \in {"cleared", "gated", "asking"} =>
          c.heard = IF c.outer = "Granted" THEN {"yes"} ELSE {}
    /\ c.at = "gated" /\ c.cell # "none" => c.cell = "Granted" /\ c.outer = "Granted"
    /\ c.at = "acting" =>
          /\ c.cell # "Denied"
          /\ c.heard = IF Merged(c.outer, c.cell) = "Granted" THEN {"yes"} ELSE {}
    /\ c.audit # "none" =>
          /\ c.audit = "Granted" => c.heard = {"yes"}
          /\ c.audit = "NotRequired" => c.heard = {}
          /\ c.audit = "Denied" <=> ~c.acted

\* The gates call i has passed to be where c says it is.
LetThrough(i, c) ==
    /\ (c.at \in {"cleared", "gated", "asking"} \/ c.acted) /\ i \in strict => "yes" \in c.heard
    /\ c.at \in {"gated", "asking"} \/ c.acted => i \notin barred
    /\ c.at \in {"prompted", "cleared", "gated", "asking"} \/ c.acted => ~PastCeiling(i)

CallInv ==
    /\ \A i \in Batch : Said(call[i]) /\ LetThrough(i, call[i])
    /\ \A i \in Slots \ Batch : call[i] = NoCall

\* What has been so since the batch came is so now.
WatchInv ==
    /\ \A i \in strict : Needs(calls[i])
    /\ \A i \in barred : BarredByLevel(calls[i])

TurnInv == TypeOK /\ (refused => cancelled) /\ WatchInv /\ CallInv

LEMMA InitInv == AgentTurnInit => TurnInv
<1> SUFFICES ASSUME AgentTurnInit PROVE TurnInv
  OBVIOUS
<1>1. NoCall \in CallsType
  BY DEF NoCall, CallsType, CallPhases, Outcomes
<1>2. calls = << >> /\ recent = << >> /\ Batch = {}
  BY DEF AgentTurnInit, Batch
<1>3. TypeOK
  <2>1. /\ calls \in Seq(Tools) /\ Len(calls) = 0
        /\ recent \in Seq(Tools \X {"ok", "failed", "refused"}) /\ Len(recent) = 0
    BY <1>2
  <2>2. call \in [Slots -> CallsType]
    BY <1>1 DEF AgentTurnInit
  <2>3. 0 \in 0..MaxSwitches /\ 0 \in 0..MaxIterations /\ 0 <= MaxCalls /\ 0 <= LoopWindow
    BY TurnAssumption DEF LoopWindow
  <2> QED
    BY <2>1, <2>2, <2>3 DEF AgentTurnInit, TypeOK, Phases
<1> QED
  BY <1>2, <1>3 DEF AgentTurnInit, TurnInv, WatchInv, CallInv, Batch

-----------------------------------------------------------------------------
(* Steps that leave the calls alone.                                       *)

LEMMA WatchShrinks ==
    ASSUME Watch
    PROVE  strict' \subseteq strict /\ barred' \subseteq barred /\ WatchInv'
BY DEF Watch, WatchInv

LEMMA CallsKept ==
    ASSUME TurnInv, UNCHANGED <<guest, calls, call>>,
           strict' \subseteq strict, barred' \subseteq barred
    PROVE  CallInv'
<1>1. Batch' = Batch
  BY DEF Batch
<1> QED
  BY <1>1 DEF TurnInv, CallInv, LetThrough, PastCeiling

\* The loop goes on without touching the batch or the policy.
LEMMA LoopMoves ==
    ASSUME TurnInv, NEW p \in Phases, GoTo(p), iter' \in 0..MaxIterations
    PROVE  TurnInv'
<1>1. /\ UNCHANGED <<policy, granted, switches, guest, cancelled, parallel, calls, call>>
      /\ UNCHANGED <<recent, refused, strict, barred>>
      /\ phase' = p
  BY DEF GoTo, policyVars, batchVars, watchVars
<1>2. TypeOK'
  BY <1>1 DEF TurnInv, TypeOK, Batch
<1>3. WatchInv'
  BY <1>1 DEF TurnInv, WatchInv, Needs, BarredByLevel
<1>4. CallInv'
  BY <1>1, CallsKept
<1> QED
  BY <1>1, <1>2, <1>3, <1>4 DEF TurnInv

LEMMA LoopSteps ==
    ASSUME TurnInv,
           \/ StartTurn \/ BudgetGone \/ NextIteration \/ ProviderEnds \/ SummaryEnds
           \/ CancelRequest \/ \E i \in Slots : CancelCall(i)
    PROVE  TurnInv'
<1>1. iter \in 0..MaxIterations
  BY DEF TurnInv, TypeOK
<1>2. \E p \in Phases : GoTo(p) /\ iter' \in 0..MaxIterations
  BY <1>1, TurnAssumption DEF StartTurn, BudgetGone, NextIteration, ProviderEnds, SummaryEnds,
         CancelRequest, CancelCall, Phases
<1> QED
  BY <1>2, LoopMoves

LEMMA OperatorSteps ==
    ASSUME TurnInv, SwitchPolicy \/ Stop
    PROVE  TurnInv'
<1>1. CASE SwitchPolicy
  <2>1. /\ UNCHANGED <<granted, guest, cancelled, phase, iter, parallel, calls, call, recent, refused>>
        /\ policy' \in Presets /\ switches' \in 0..MaxSwitches /\ Watch
    BY <1>1, TurnAssumption DEF SwitchPolicy, batchVars, TurnInv, TypeOK
  <2>2. strict' \subseteq strict /\ barred' \subseteq barred /\ WatchInv'
    BY <2>1, WatchShrinks
  <2>3. TypeOK'
    BY <2>1, <2>2 DEF TurnInv, TypeOK, Batch
  <2> QED
    BY <2>1, <2>2, <2>3, CallsKept DEF TurnInv
<1>2. CASE Stop
  <2>1. /\ UNCHANGED <<policy, granted, switches, guest, phase, iter, parallel, calls, call>>
        /\ UNCHANGED <<recent, refused, strict, barred>>
        /\ cancelled' = TRUE
    BY <1>2 DEF Stop, policyVars, batchVars, watchVars
  <2>2. TypeOK'
    BY <2>1 DEF TurnInv, TypeOK, Batch
  <2>3. WatchInv'
    BY <2>1 DEF TurnInv, WatchInv, Needs, BarredByLevel
  <2> QED
    BY <2>1, <2>2, <2>3, CallsKept DEF TurnInv
<1> QED
  BY <1>1, <1>2

-----------------------------------------------------------------------------
(* A batch comes and goes.                                                 *)

\* An answer with tool calls: run side by side only if none needs approval.
LEMMA BatchComes ==
    ASSUME TurnInv, NEW n \in 1..MaxCalls, NEW ts \in [1..n -> Tools], ProviderCalls(ts)
    PROVE  TurnInv'
<1> DEFINE placed(i) == IF i > n THEN "none" ELSE IF RunsInParallel(ts) THEN "cleared" ELSE "waiting"
<1>1. n \in Nat /\ ts \in Seq(Tools) /\ Len(ts) = n
  BY TurnAssumption
<1>2. /\ UNCHANGED <<policy, granted, switches, guest, cancelled, iter, recent, refused>>
      /\ calls' = ts /\ parallel' = RunsInParallel(ts) /\ phase' = "batch"
      /\ strict' = {i \in 1..n : Needs(ts[i])} /\ barred' = {i \in 1..n : BarredByLevel(ts[i])}
  BY <1>1 DEF ProviderCalls, policyVars
<1>3. Batch' = 1..n
  BY <1>1, <1>2 DEF Batch
<1>4. call' = [i \in Slots |-> [NoCall EXCEPT !.at = placed(i)]]
  BY <1>1 DEF ProviderCalls
<1>5. \A i \in Slots : [NoCall EXCEPT !.at = placed(i)] \in CallsType
  BY DEF NoCall, CallsType, CallPhases, Outcomes
<1>6. TypeOK'
  <2>1. RunsInParallel(ts) \in BOOLEAN
    BY DEF RunsInParallel
  <2> QED
    BY <1>1, <1>2, <1>3, <1>4, <1>5, <2>1, TurnAssumption DEF TurnInv, TypeOK, Phases
<1>7. WatchInv'
  BY <1>2 DEF WatchInv, Needs, BarredByLevel
<1>8. ASSUME NEW i \in Batch' PROVE (Said(call[i]) /\ LetThrough(i, call[i]))'
  <2>1. i \in Slots /\ i \in 1..n /\ ~(i > n)
    BY <1>1, <1>3, <1>8, TurnAssumption DEF Slots
  <2>2. call'[i] = [NoCall EXCEPT !.at = IF RunsInParallel(ts) THEN "cleared" ELSE "waiting"]
    BY <1>4, <2>1
  <2>3. Said(call[i])'
    BY <2>2 DEF Said, NoCall
  <2>4. RunsInParallel(ts) => ~guest' /\ i \notin strict'
    BY <1>1, <1>2, <2>1 DEF RunsInParallel
  <2>5. LetThrough(i, call[i])'
    BY <2>2, <2>4 DEF LetThrough, NoCall, PastCeiling
  <2> QED
    BY <2>3, <2>5
<1>9. \A i \in Slots \ Batch' : call'[i] = NoCall
  BY <1>1, <1>3, <1>4 DEF NoCall, Slots
<1> QED
  BY <1>2, <1>6, <1>7, <1>8, <1>9 DEF TurnInv, CallInv, Slots

\* The results go into the detector's window, and the batch is gone.
LEMMA BatchGoes ==
    ASSUME TurnInv, BatchDone
    PROVE  TurnInv'
<1> DEFINE K == Tools \X {"ok", "failed", "refused"}
           results == [i \in Batch |-> <<calls[i], call[i].out>>]
           first == IF Len(Keys) > LoopWindow THEN Len(Keys) - LoopWindow + 1 ELSE 1
<1>1. TypeOK /\ CallInv
  BY DEF TurnInv
<1>2. results \in Seq(K)
  <2>1. \A i \in Batch : calls[i] \in Tools
    BY <1>1 DEF TypeOK, Batch
  <2>2. \A i \in Batch : call[i].out \in {"ok", "failed", "refused"}
    <3>1. \A i \in Batch : i \in Slots
      BY <1>1, TurnAssumption DEF TypeOK, Batch, Slots
    <3> QED
      BY <1>1, <3>1 DEF TypeOK, CallsType, CallInv, Said, BatchDone
  <2>3. Len(calls) \in Nat
    BY <1>1 DEF TypeOK
  <2> QED
    BY <2>1, <2>2, <2>3 DEF Batch
<1>3. Keys \in Seq(K)
  BY <1>1, <1>2, ConcatProperties DEF Keys, TypeOK
<1>4. recent' \in Seq(K) /\ Len(recent') <= LoopWindow
  <2>1. Len(Keys) \in Nat /\ first \in Nat /\ first >= 1
    BY <1>3 DEF LoopWindow
  <2>2. \A j \in first..Len(Keys) : Keys[j] \in K
    BY <1>3, <2>1, ElementOfSeq
  <2>3. recent' = SubSeq(Keys, first, Len(Keys))
    BY DEF BatchDone
  <2> HIDE DEF K
  <2>4. /\ recent' \in Seq(K)
        /\ Len(recent') = IF first <= Len(Keys) THEN Len(Keys) - first + 1 ELSE 0
    BY <2>1, <2>2, <2>3, SubSeqProperties
  <2> QED
    BY <2>1, <2>4 DEF LoopWindow
<1>5. /\ UNCHANGED <<policy, granted, switches, guest, cancelled, iter, refused>>
      /\ calls' = << >> /\ parallel' = FALSE /\ strict' = {} /\ barred' = {}
      /\ call' = [i \in Slots |-> NoCall] /\ phase' \in Phases
  BY DEF BatchDone, policyVars, Phases
<1>6. Batch' = {}
  BY <1>5 DEF Batch
<1>7. TypeOK'
  <2>1. NoCall \in CallsType
    BY DEF NoCall, CallsType, CallPhases, Outcomes
  <2>2. calls' \in Seq(Tools) /\ Len(calls') = 0 /\ 0 <= MaxCalls
    BY <1>5, TurnAssumption
  <2> QED
    BY <1>1, <1>4, <1>5, <2>1, <2>2 DEF TypeOK
<1> QED
  BY <1>5, <1>6, <1>7 DEF TurnInv, WatchInv, CallInv

-----------------------------------------------------------------------------
(* A call moves.                                                           *)

\* The step of one call, with what else the step may change: the policy, the
\* token and what is still watched.
LEMMA CallMoves ==
    ASSUME TurnInv, NEW i \in Batch, NEW c \in CallsType, CallStep(i, c),
           policy' \in Presets, granted' \subseteq Tools, switches' \in 0..MaxSwitches,
           cancelled' \in BOOLEAN, refused' \in BOOLEAN, refused' => cancelled',
           strict' \subseteq strict, barred' \subseteq barred, WatchInv',
           Said(c), LetThrough(i, c)
    PROVE  TurnInv'
<1>1. TypeOK /\ CallInv
  BY DEF TurnInv
<1>2. i \in Slots
  BY <1>1, TurnAssumption DEF TypeOK, Batch, Slots
<1>3. /\ UNCHANGED <<guest, phase, iter, parallel, calls, recent>> /\ Batch' = Batch
      /\ call' = [call EXCEPT ![i] = c]
  BY DEF CallStep, Update, batchVars, Batch
<1>4. TypeOK'
  BY <1>1, <1>2, <1>3 DEF TypeOK
<1>5. call'[i] = c /\ \A j \in Slots : j # i => call'[j] = call[j]
  BY <1>1, <1>2, <1>3 DEF TypeOK
<1>6. \A j \in Batch : (Said(call[j]) /\ LetThrough(j, call[j]))'
  <2> SUFFICES ASSUME NEW j \in Batch PROVE (Said(call[j]) /\ LetThrough(j, call[j]))'
    OBVIOUS
  <2>1. j \in Slots
    BY <1>1, TurnAssumption DEF TypeOK, Batch, Slots
  <2>2. Said(call'[j]) /\ LetThrough(j, call'[j])
    BY <1>1, <1>5, <2>1 DEF CallInv
  <2> QED
    BY <1>3, <2>2 DEF Said, LetThrough, PastCeiling
<1>7. \A j \in Slots \ Batch : call'[j] = NoCall
  BY <1>1, <1>5 DEF CallInv
<1> QED
  BY <1>3, <1>4, <1>6, <1>7 DEF TurnInv, CallInv, Slots

\* The step of one call and nothing else.
LEMMA CallMovesAside ==
    ASSUME TurnInv, NEW i \in Batch, NEW c \in CallsType, CallStep(i, c), Aside,
           Said(c), LetThrough(i, c)
    PROVE  TurnInv'
<1>1. /\ UNCHANGED <<policy, granted, switches, cancelled, refused, strict, barred>>
      /\ UNCHANGED calls
  BY DEF Aside, policyVars, watchVars, CallStep, batchVars
<1>2. WatchInv'
  BY <1>1 DEF TurnInv, WatchInv, Needs, BarredByLevel
<1> QED
  BY <1>1, <1>2, CallMoves DEF TurnInv, TypeOK

-----------------------------------------------------------------------------
(* One call's steps.                                                       *)

LEMMA OfTheBatch ==
    ASSUME TurnInv, NEW i \in Slots, call[i].at # "none"
    PROVE  i \in Batch /\ call[i] \in CallsType /\ Said(call[i]) /\ LetThrough(i, call[i])
<1>1. i \in Batch
  BY DEF TurnInv, CallInv, NoCall
<1> QED
  BY <1>1 DEF TurnInv, TypeOK, CallInv

\* A refusal says of the call what its audit line says.
LEMMA RefusalSaid ==
    ASSUME NEW c \in CallsType, ~c.acted
    PROVE  Finished(c, "refused", "Denied") \in CallsType /\ Said(Finished(c, "refused", "Denied"))
BY DEF Finished, CallsType, CallPhases, Outcomes, Said

LEMMA RefusalLetThrough ==
    ASSUME NEW i, NEW c \in CallsType, ~c.acted, NEW out, NEW audit
    PROVE  LetThrough(i, Finished(c, out, audit))
BY DEF LetThrough, Finished, CallsType

LEMMA SerialSteps ==
    ASSUME TurnInv, NEW i \in Slots, RefuseGuest(i) \/ Ask(i) \/ ClearUnasked(i)
    PROVE  TurnInv'
<1>0. /\ call[i].at = "waiting" /\ i \in Batch /\ call[i] \in CallsType
      /\ Said(call[i]) /\ ~call[i].acted
  <2>1. call[i].at = "waiting"
    BY DEF RefuseGuest, Ask, ClearUnasked, Reached
  <2> QED
    BY <2>1, OfTheBatch DEF Said
<1>1. CASE RefuseGuest(i)
  <2> DEFINE c == Finished(call[i], "refused", "Denied")
  <2>1. c \in CallsType /\ Said(c)
    BY <1>0, RefusalSaid
  <2>2. LetThrough(i, c)
    BY <1>0, RefusalLetThrough
  <2>3. CallStep(i, c) /\ Aside
    BY <1>1 DEF RefuseGuest
  <2> QED
    BY <1>0, <2>1, <2>2, <2>3, CallMovesAside
<1>2. CASE Ask(i)
  <2> DEFINE c == [call[i] EXCEPT !.at = "prompted"]
  <2>1. c \in CallsType /\ Said(c)
    BY <1>0 DEF CallsType, CallPhases, Said
  <2>2. LetThrough(i, c)
    BY <1>0, <1>2 DEF Ask, LetThrough, CallsType
  <2> QED
    BY <1>0, <1>2, <2>1, <2>2, CallMovesAside DEF Ask
<1>3. CASE ClearUnasked(i)
  <2> DEFINE c == [call[i] EXCEPT !.at = "cleared"]
  <2>1. c \in CallsType /\ Said(c)
    BY <1>0 DEF CallsType, CallPhases, Said
  <2>2. i \notin strict
    BY <1>3 DEF ClearUnasked, TurnInv, WatchInv
  <2>3. LetThrough(i, c)
    BY <1>0, <1>3, <2>2 DEF ClearUnasked, LetThrough, CallsType
  <2> QED
    BY <1>0, <1>3, <2>1, <2>3, CallMovesAside DEF ClearUnasked
<1> QED
  BY <1>1, <1>2, <1>3

\* What comes of a prompt of the outer gate.
LEMMA PromptSteps ==
    ASSUME TurnInv, NEW i \in Slots, OuterYes(i) \/ OuterNo(i) \/ NoApprover(i)
    PROVE  TurnInv'
<1>0. /\ call[i].at = "prompted" /\ i \in Batch /\ call[i] \in CallsType
      /\ Said(call[i]) /\ LetThrough(i, call[i]) /\ ~call[i].acted /\ TypeOK
  <2>1. call[i].at = "prompted"
    BY DEF OuterYes, OuterNo, NoApprover
  <2> QED
    BY <2>1, OfTheBatch DEF Said, TurnInv
<1>1. CASE OuterYes(i)
  <2>1. PICK full \in BOOLEAN :
          CallStep(i, [call[i] EXCEPT !.at = "cleared", !.outer = "Granted", !.full = full,
                                      !.heard = @ \cup {"yes"}])
    BY <1>1 DEF OuterYes
  <2> DEFINE c == [call[i] EXCEPT !.at = "cleared", !.outer = "Granted", !.full = full,
                                  !.heard = @ \cup {"yes"}]
  <2>2. c \in CallsType /\ Said(c)
    BY <1>0 DEF CallsType, CallPhases, Said
  <2>3. LetThrough(i, c)
    BY <1>0 DEF LetThrough, CallsType
  <2>4. /\ policy' = policy /\ switches' = switches /\ cancelled' = cancelled /\ refused' = refused
        /\ granted' \in {granted, granted \cup {calls[i]}} /\ Watch
    BY <1>1 DEF OuterYes
  <2>5. granted' \subseteq Tools
    <3>1. calls[i] \in Tools
      BY <1>0 DEF TypeOK, Batch
    <3> QED
      BY <1>0, <2>4, <3>1 DEF TypeOK
  <2>6. strict' \subseteq strict /\ barred' \subseteq barred /\ WatchInv'
    BY <2>4, WatchShrinks
  <2> QED
    BY <1>0, <2>1, <2>2, <2>3, <2>4, <2>5, <2>6, CallMoves DEF TurnInv, TypeOK
<1>2. CASE OuterNo(i)
  <2> DEFINE h == [call[i] EXCEPT !.heard = @ \cup {"no"}]
             c == Finished(h, "refused", "Denied")
  <2>1. h \in CallsType /\ ~h.acted
    BY <1>0 DEF CallsType
  <2>2. c \in CallsType /\ Said(c) /\ LetThrough(i, c)
    BY <2>1, RefusalSaid, RefusalLetThrough
  <2>3. CallStep(i, c) /\ refused' = TRUE /\ cancelled' = TRUE
    BY <1>2 DEF OuterNo
  <2>4. UNCHANGED <<policy, granted, switches, strict, barred, calls>>
    BY <1>2 DEF OuterNo, policyVars, watchVars, CallStep, batchVars
  <2>5. WatchInv'
    BY <2>4 DEF TurnInv, WatchInv, Needs, BarredByLevel
  <2> HIDE DEF c
  <2> QED
    BY <1>0, <2>2, <2>3, <2>4, <2>5, CallMoves DEF TypeOK
<1>3. CASE NoApprover(i)
  BY <1>0, <1>3, RefusalSaid, RefusalLetThrough, CallMovesAside, Zenon DEF NoApprover
<1> QED
  BY <1>1, <1>2, <1>3

\* The autonomy gate and the start of the tool.
LEMMA GateSteps ==
    ASSUME TurnInv, NEW i \in Slots, PassGate(i) \/ BeginTool(i)
    PROVE  TurnInv'
<1>0. /\ call[i].at \in {"cleared", "gated"} /\ i \in Batch /\ call[i] \in CallsType
      /\ Said(call[i]) /\ LetThrough(i, call[i]) /\ ~call[i].acted
  <2>1. call[i].at \in {"cleared", "gated"}
    BY DEF PassGate, CanStart, BeginTool
  <2> QED
    BY <2>1, OfTheBatch DEF Said
<1>1. CASE PassGate(i) /\ BarredByLevel(calls[i])
  BY <1>0, <1>1, RefusalSaid, RefusalLetThrough, CallMovesAside, Zenon DEF PassGate
<1>2. CASE PassGate(i) /\ ~BarredByLevel(calls[i])
  <2> DEFINE c == [call[i] EXCEPT
                      !.at = "gated",
                      !.cell = IF call[i].outer = "Granted" /\ call[i].full THEN "Granted" ELSE "none"]
  <2>1. call[i].at = "cleared"
    BY <1>2 DEF PassGate, CanStart
  <2>2. c \in CallsType /\ Said(c)
    BY <1>0, <2>1 DEF CallsType, CallPhases, Said
  <2>3. i \notin barred
    BY <1>2 DEF TurnInv, WatchInv
  <2>4. LetThrough(i, c)
    BY <1>0, <2>1, <2>3 DEF LetThrough, CallsType
  <2>5. CallStep(i, c) /\ Aside
    BY <1>2 DEF PassGate
  <2> HIDE DEF c
  <2> QED
    BY <1>0, <2>2, <2>4, <2>5, CallMovesAside
<1>3. CASE BeginTool(i)
  <2>1. call[i].at = "gated"
    BY <1>3 DEF BeginTool
  <2>2. CASE AsksItself(i)
    <3> DEFINE c == [call[i] EXCEPT !.at = "asking"]
    <3>1. c \in CallsType /\ Said(c)
      BY <1>0, <2>1, <2>2 DEF AsksItself, CallsType, CallPhases, Said
    <3>2. LetThrough(i, c)
      BY <1>0, <2>1 DEF LetThrough, CallsType
    <3>3. CallStep(i, c) /\ Aside
      BY <1>3, <2>2 DEF BeginTool
    <3> QED
      BY <1>0, <3>1, <3>2, <3>3, CallMovesAside
  <2>3. CASE ~AsksItself(i)
    <3> DEFINE c == [call[i] EXCEPT !.at = "acting", !.acted = TRUE]
    <3>1. c \in CallsType /\ Said(c)
      BY <1>0, <2>1 DEF CallsType, CallPhases, Said, Merged
    <3>2. LetThrough(i, c)
      BY <1>0, <2>1 DEF LetThrough, CallsType
    <3>3. CallStep(i, c) /\ Aside
      BY <1>3, <2>3 DEF BeginTool
    <3> QED
      BY <1>0, <3>1, <3>2, <3>3, CallMovesAside
  <2> QED
    BY <2>2, <2>3
<1> QED
  BY <1>1, <1>2, <1>3

\* What comes of a tool's own question, and of the tool.
LEMMA ToolSteps ==
    ASSUME TurnInv, NEW i \in Slots, InnerYes(i) \/ InnerNo(i) \/ ToolEnds(i)
    PROVE  TurnInv'
<1>0. /\ call[i].at \in {"asking", "acting"} /\ i \in Batch /\ call[i] \in CallsType
      /\ Said(call[i]) /\ LetThrough(i, call[i]) /\ TypeOK
  <2>1. call[i].at \in {"asking", "acting"}
    BY DEF InnerYes, InnerNo, ToolEnds
  <2> QED
    BY <2>1, OfTheBatch DEF TurnInv
<1>1. CASE InnerYes(i)
  <2> DEFINE c == [call[i] EXCEPT !.at = "acting", !.acted = TRUE, !.cell = "Granted",
                                  !.heard = @ \cup {"yes"}]
  <2>1. call[i].at = "asking"
    BY <1>1 DEF InnerYes
  <2>2. call[i].heard \subseteq {"yes"}
    BY <1>0, <2>1 DEF Said
  <2>3. c \in CallsType /\ Said(c)
    BY <1>0, <2>1, <2>2 DEF CallsType, CallPhases, Said, Merged
  <2>4. LetThrough(i, c)
    BY <1>0, <2>1 DEF LetThrough, CallsType
  <2>5. CallStep(i, c) /\ Aside
    BY <1>1 DEF InnerYes
  <2> HIDE DEF c
  <2> QED
    BY <1>0, <2>3, <2>4, <2>5, CallMovesAside
<1>2. CASE InnerNo(i)
  <2> DEFINE h == [call[i] EXCEPT !.cell = "Denied", !.heard = @ \cup {"no"}]
             c == Finished(h, "refused", "Denied")
  <2>1. call[i].at = "asking" /\ ~call[i].acted
    BY <1>0, <1>2 DEF InnerNo, Said
  <2>2. h \in CallsType /\ ~h.acted
    BY <1>0, <2>1 DEF CallsType
  <2>3. c \in CallsType /\ Said(c) /\ LetThrough(i, c)
    BY <2>2, RefusalSaid, RefusalLetThrough
  <2>4. CallStep(i, c) /\ refused' = TRUE /\ cancelled' = TRUE
    BY <1>2 DEF InnerNo, Merged
  <2>5. UNCHANGED <<policy, granted, switches, strict, barred, calls>>
    BY <1>2 DEF InnerNo, policyVars, watchVars, CallStep, batchVars
  <2>6. WatchInv'
    BY <2>5 DEF TurnInv, WatchInv, Needs, BarredByLevel
  <2> HIDE DEF c
  <2> QED
    BY <1>0, <2>3, <2>4, <2>5, <2>6, CallMoves DEF TypeOK
<1>3. CASE ToolEnds(i)
  <2>1. PICK out \in {"ok", "failed"} :
          CallStep(i, Finished(call[i], out, Merged(call[i].outer, call[i].cell)))
    BY <1>3 DEF ToolEnds
  <2> DEFINE c == Finished(call[i], out, Merged(call[i].outer, call[i].cell))
  <2>2. call[i].at = "acting" /\ call[i].acted /\ Aside
    BY <1>0, <1>3 DEF ToolEnds, Said
  <2>3. Merged(call[i].outer, call[i].cell) \in {"NotRequired", "Granted"}
    BY <1>0, <2>2 DEF Merged, CallsType, Said
  <2>4. c \in CallsType /\ Said(c)
    BY <1>0, <2>2, <2>3 DEF Finished, CallsType, CallPhases, Outcomes, Said
  <2>5. LetThrough(i, c)
    BY <1>0, <2>2 DEF Finished, LetThrough, CallsType
  <2> HIDE DEF c
  <2>6. CallStep(i, c)
    BY <2>1 DEF c
  <2> QED
    BY <1>0, <2>2, <2>4, <2>5, <2>6, CallMovesAside
<1> QED
  BY <1>1, <1>2, <1>3

LEMMA StutterInv ==
    ASSUME TurnInv, UNCHANGED vars
    PROVE  TurnInv'
<1>1. /\ UNCHANGED <<policy, granted, switches, guest, cancelled, phase, iter, parallel, calls>>
      /\ UNCHANGED <<call, recent, refused, strict, barred>>
  BY DEF vars, policyVars, batchVars, watchVars
<1> QED
  BY <1>1, CallsKept DEF TurnInv, TypeOK, WatchInv, Batch, Needs, BarredByLevel

LEMMA NextInv ==
    ASSUME TurnInv, [AgentTurnNext]_vars
    PROVE  TurnInv'
<1>1. CASE SwitchPolicy \/ Stop
  BY <1>1, OperatorSteps
<1>2. CASE StartTurn \/ BudgetGone \/ NextIteration \/ ProviderEnds \/ SummaryEnds \/ CancelRequest
  BY <1>2, LoopSteps
<1>3. CASE BatchDone
  BY <1>3, BatchGoes
<1>4. CASE \E n \in 1..MaxCalls : \E ts \in [1..n -> Tools] : ProviderCalls(ts)
  BY <1>4, BatchComes
<1>5. CASE \E i \in Slots : RefuseGuest(i) \/ Ask(i) \/ ClearUnasked(i)
  BY <1>5, SerialSteps
<1>6. CASE \E i \in Slots : OuterYes(i) \/ OuterNo(i) \/ NoApprover(i)
  BY <1>6, PromptSteps
<1>7. CASE \E i \in Slots : PassGate(i) \/ BeginTool(i)
  BY <1>7, GateSteps
<1>8. CASE \E i \in Slots : InnerYes(i) \/ InnerNo(i) \/ ToolEnds(i)
  BY <1>8, ToolSteps
<1>9. CASE \E i \in Slots : CancelCall(i)
  BY <1>9, LoopSteps
<1>10. CASE UNCHANGED vars
  BY <1>10, StutterInv
<1> QED
  BY <1>1, <1>2, <1>3, <1>4, <1>5, <1>6, <1>7, <1>8, <1>9, <1>10 DEF AgentTurnNext, LoopStep

LEMMA TurnInvAlways == AgentTurnSpec => []TurnInv
<1> QED
  BY InitInv, NextInv, PTL DEF AgentTurnSpec

-----------------------------------------------------------------------------
(* The theorems.                                                           *)

\* The turn's state keeps its types: the provider is asked at most
\* max_tool_iterations times (run_structured_loop).
THEOREM TurnTypeCorrect == AgentTurnSpec => []TypeOK
<1>1. TurnInv => TypeOK
  BY DEF TurnInv
<1> QED
  BY <1>1, TurnInvAlways, PTL

\* What acts was let through by the policy left alone while its batch ran
\* (execute_tool_calls_collecting, execute_one_tool_structured).
THEOREM ActsAreLetThrough == AgentTurnSpec => []BatchesObeyThePolicy
<1>1. TurnInv => BatchesObeyThePolicy
  BY DEF TurnInv, CallInv, LetThrough, PastCeiling, BatchesObeyThePolicy
<1> QED
  BY <1>1, TurnInvAlways, PTL

\* The audit line names the verdict that let the call through, or its refusal
\* (merge_tool_approval_outcome).
THEOREM AuditIsTrue == AgentTurnSpec => []AuditTellsTheTruth
<1>1. TurnInv => AuditTellsTheTruth
  BY DEF TurnInv, CallInv, Said, AuditTellsTheTruth
<1> QED
  BY <1>1, TurnInvAlways, PTL

\* A no ends the turn: the provider is not asked with tools again, whoever said
\* it and at either gate (execute_tool_calls_collecting, request_decision_with).
THEOREM NoEndsTheTools == AgentTurnSpec => NoToolsAfterNo
<1>1. ASSUME TurnInv, [AgentTurnNext]_vars
      PROVE  [refused /\ phase # "ask" => phase' # "ask"]_vars
  <2> SUFFICES ASSUME refused, phase # "ask", phase' = "ask", AgentTurnNext PROVE FALSE
    BY <1>1
  <2>1. cancelled
    BY <1>1 DEF TurnInv
  <2>2. ~NextIteration
    BY <2>1 DEF NextIteration, GoTo
  <2>3. ~SwitchPolicy /\ ~Stop /\ ~StartTurn /\ ~BudgetGone /\ ~BatchDone /\ ~CancelRequest
        /\ ~ProviderEnds /\ ~SummaryEnds
    BY DEF SwitchPolicy, Stop, StartTurn, BudgetGone, BatchDone, CancelRequest, ProviderEnds,
           SummaryEnds, GoTo
  <2>4. ASSUME NEW n \in 1..MaxCalls, NEW ts \in [1..n -> Tools], ProviderCalls(ts) PROVE FALSE
    BY <2>4 DEF ProviderCalls
  <2>5. ASSUME NEW i \in Slots,
               \/ RefuseGuest(i) \/ Ask(i) \/ ClearUnasked(i) \/ PassGate(i) \/ CancelCall(i)
               \/ OuterYes(i) \/ OuterNo(i) \/ NoApprover(i)
               \/ BeginTool(i) \/ InnerYes(i) \/ InnerNo(i) \/ ToolEnds(i)
        PROVE  FALSE
    <3>1. CASE CancelCall(i)
      BY <3>1 DEF CancelCall, GoTo
    <3>2. CASE ~CancelCall(i)
      <4>1. phase' = phase
        BY <2>5, <3>2 DEF RefuseGuest, Ask, ClearUnasked, PassGate, OuterYes, OuterNo, NoApprover,
               BeginTool, InnerYes, InnerNo, ToolEnds, CallStep
      <4> QED
        BY <4>1
    <3> QED
      BY <3>1, <3>2
  <2> QED
    BY <2>2, <2>3, <2>4, <2>5 DEF AgentTurnNext, LoopStep
<1> QED
  BY <1>1, TurnInvAlways, PTL DEF AgentTurnSpec, NoToolsAfterNo
=============================================================================
