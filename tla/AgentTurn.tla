------------------------------ MODULE AgentTurn ------------------------------
(***************************************************************************)
(* One turn of the agent, agent/loop_.rs: the loop that asks the provider, *)
(* puts the tool calls of an answer through the gates, runs them one after *)
(* the other or side by side, and asks again (run_structured_loop,         *)
(* execute_tool_calls_collecting, execute_one_tool_structured), with the   *)
(* approval manager of approval/mod.rs.  The turn is one of a surface that *)
(* passes a cancellation token: a chat channel or the web console.         *)
(*                                                                         *)
(* While it runs the operator switches the policy, people answer prompts,  *)
(* and the turn is stopped.  Arguments, outputs and the conversation are   *)
(* not modelled: a call is its tool, and the tool is registered.           *)
(***************************************************************************)
EXTENDS Naturals, Sequences, FiniteSets

CONSTANTS
    Tools,
    SelfAsking,     \* tools that ask a human from inside: pty, ssh
    ReadOnlyTools,  \* tools whose calls declare themselves read-only
    GuestTools,     \* what the role ceiling leaves a guest
    Presets,        \* the policies the operator switches between
    MaxIterations,  \* max_tool_iterations
    MaxCalls,       \* bound: calls in one answer
    MaxSwitches     \* bound: policy switches in one turn

Levels == {"ReadOnly", "Supervised", "Full"}

ASSUME TurnAssumption ==
    /\ SelfAsking \subseteq Tools /\ ReadOnlyTools \subseteq Tools /\ GuestTools \subseteq Tools
    /\ Presets \subseteq [level : Levels, alwaysAsk : SUBSET Tools, autoApprove : SUBSET Tools]
    /\ Presets # {}
    /\ MaxIterations \in Nat \ {0} /\ MaxCalls \in Nat \ {0} /\ MaxSwitches \in Nat

\* The loop detector looks three equal calls up in the last five.
LoopWindow == 5
LoopRepeats == 3

VARIABLES
    policy,     \* the live policy
    granted,    \* the manager's session allowlist
    switches,   \* policy switches so far
    guest,      \* a guest's turn
    cancelled,  \* the turn's token
    phase,      \* where the loop is
    iter,       \* provider requests with tools so far
    parallel,   \* the calls of the batch run side by side
    calls,      \* the tools of the batch
    call,       \* where each call is, and what was said of it
    recent,     \* the loop detector's window
    refused,    \* history: a human, or the deadline in their place, said no
    strict,     \* history: calls that have needed approval since the batch came
    barred      \* history: calls read-only mode has barred since the batch came

policyVars == <<policy, granted, switches>>
watchVars == <<strict, barred>>
batchVars == <<parallel, calls>>
vars == <<policyVars, guest, cancelled, phase, iter, batchVars, call, recent, refused, watchVars>>

Phases == {"start", "next", "ask", "batch", "summary", "over"}
CallPhases == {"none", "waiting", "prompted", "cleared", "gated", "asking", "acting", "finished"}
Outcomes == {"none", "NotRequired", "Granted", "Denied"}
Slots == 1..MaxCalls
Batch == 1..Len(calls)

NoCall ==
    [at |-> "none", outer |-> "NotRequired", full |-> FALSE, cell |-> "none", heard |-> {},
     acted |-> FALSE, audit |-> "none", out |-> "none"]

-----------------------------------------------------------------------------
(* The policy.                                                             *)

\* ApprovalManager::needs_approval.
Needs(tool) ==
    /\ policy.level # "ReadOnly"
    /\ \/ tool \in policy.alwaysAsk
       \/ policy.level = "Supervised" /\ tool \notin policy.autoApprove \cup granted

BarredByLevel(tool) == policy.level = "ReadOnly" /\ tool \notin ReadOnlyTools

Watch ==
    /\ strict' = {i \in strict : Needs(calls[i])'}
    /\ barred' = {i \in barred : BarredByLevel(calls[i])'}

SwitchPolicy ==
    /\ switches < MaxSwitches /\ phase # "over"
    /\ \E p \in Presets : p # policy /\ policy' = p
    /\ switches' = switches + 1
    /\ UNCHANGED <<granted, guest, cancelled, phase, iter, batchVars, call, recent, refused>>
    /\ Watch

\* The chat sends a newer message, or the console's client goes.
Stop ==
    /\ ~cancelled /\ phase # "over"
    /\ cancelled' = TRUE
    /\ UNCHANGED <<policyVars, guest, phase, iter, batchVars, call, recent, refused, watchVars>>

-----------------------------------------------------------------------------
(* The loop.                                                               *)

AgentTurnInit ==
    /\ policy \in Presets /\ granted = {} /\ switches = 0
    /\ guest \in BOOLEAN /\ cancelled = FALSE
    /\ phase = "start" /\ iter = 0
    /\ parallel = FALSE /\ calls = << >>
    /\ call = [i \in Slots |-> NoCall]
    /\ recent = << >> /\ refused = FALSE
    /\ strict = {} /\ barred = {}

GoTo(p) ==
    /\ phase' = p
    /\ UNCHANGED <<policyVars, guest, cancelled, batchVars, call, recent, refused, watchVars>>

\* The ledger is under the day's ceiling, or the turn is refused.
StartTurn == phase = "start" /\ GoTo("next") /\ UNCHANGED iter
BudgetGone == phase = "start" /\ GoTo("over") /\ UNCHANGED iter

\* Mutant: one iteration too many.
NextIterationLate ==
    /\ phase = "next"
    /\ \/ iter > MaxIterations /\ GoTo("summary") /\ UNCHANGED iter
       \/ iter <= MaxIterations /\ cancelled /\ GoTo("over") /\ UNCHANGED iter
       \/ iter <= MaxIterations /\ ~cancelled /\ GoTo("ask") /\ iter' = iter + 1

NextIteration ==
    /\ phase = "next"
    /\ \/ iter = MaxIterations /\ GoTo("summary") /\ UNCHANGED iter
       \/ iter < MaxIterations /\ cancelled /\ GoTo("over") /\ UNCHANGED iter
       \/ iter < MaxIterations /\ ~cancelled /\ GoTo("ask") /\ iter' = iter + 1

\* The final answer, or a provider error.
ProviderEnds == phase = "ask" /\ GoTo("over") /\ UNCHANGED iter

\* Mutant: only the first call of the batch is looked at.
RunsInParallelFirst(ts) == Len(ts) > 1 /\ ~guest /\ ~Needs(ts[1])

\* should_execute_tools_in_parallel, and the guest's serial rule.
RunsInParallel(ts) == Len(ts) > 1 /\ ~guest /\ \A i \in 1..Len(ts) : ~Needs(ts[i])

ProviderCalls(ts) ==
    /\ phase = "ask"
    /\ calls' = ts
    /\ parallel' = RunsInParallel(ts)
    /\ call' = [i \in Slots |->
                  [NoCall EXCEPT !.at = IF i > Len(ts) THEN "none"
                                        ELSE IF RunsInParallel(ts) THEN "cleared" ELSE "waiting"]]
    /\ strict' = {i \in 1..Len(ts) : Needs(ts[i])}
    /\ barred' = {i \in 1..Len(ts) : BarredByLevel(ts[i])}
    /\ phase' = "batch"
    /\ UNCHANGED <<policyVars, guest, cancelled, iter, recent, refused>>

\* The results of the batch go past the loop detector, each against the calls
\* before it.
Keys == recent \o [i \in Batch |-> <<calls[i], call[i].out>>]

Window(n) == {j \in 1..(n - 1) : j >= n - LoopWindow}

LooksStuck ==
    \E n \in (Len(recent) + 1)..Len(Keys) :
        Cardinality({j \in Window(n) : Keys[j] = Keys[n]}) + 1 >= LoopRepeats

\* Calls that look alike may have had other arguments or other results.  The
\* batch is gone after it.
BatchDone ==
    /\ phase = "batch"
    /\ \A i \in Batch : call[i].at = "finished"
    /\ \/ LooksStuck /\ phase' = "summary"
       \/ phase' = "next"
    /\ recent' = SubSeq(Keys, IF Len(Keys) > LoopWindow THEN Len(Keys) - LoopWindow + 1 ELSE 1, Len(Keys))
    /\ calls' = << >> /\ parallel' = FALSE
    /\ call' = [i \in Slots |-> NoCall]
    /\ strict' = {} /\ barred' = {}
    /\ UNCHANGED <<policyVars, guest, cancelled, iter, refused>>

\* force_final_summary: the request is not raced against the token.
SummaryEnds == phase = "summary" /\ GoTo("over") /\ UNCHANGED iter

CancelRequest == phase = "ask" /\ cancelled /\ GoTo("over") /\ UNCHANGED iter

-----------------------------------------------------------------------------
(* A call.                                                                 *)

Update(i, c) == call' = [call EXCEPT ![i] = c]
CallStep(i, c) ==
    /\ Update(i, c)
    /\ UNCHANGED <<guest, phase, iter, batchVars, recent>>
Aside == UNCHANGED <<policyVars, cancelled, refused, watchVars>>

Finished(c, out, audit) == [c EXCEPT !.at = "finished", !.out = out, !.audit = audit]

\* The serial loop has come to this call.
Reached(i) ==
    /\ phase = "batch" /\ i \in Batch /\ call[i].at = "waiting"
    /\ \A j \in Batch : j < i => call[j].at = "finished"

PastCeiling(i) == guest /\ calls[i] \notin GuestTools

RefuseGuest(i) ==
    /\ Reached(i) /\ PastCeiling(i)
    /\ CallStep(i, Finished(call[i], "refused", "Denied")) /\ Aside

Ask(i) ==
    /\ Reached(i) /\ ~PastCeiling(i) /\ Needs(calls[i])
    /\ CallStep(i, [call[i] EXCEPT !.at = "prompted"]) /\ Aside

ClearUnasked(i) ==
    /\ Reached(i) /\ ~PastCeiling(i) /\ ~Needs(calls[i])
    /\ CallStep(i, [call[i] EXCEPT !.at = "cleared"]) /\ Aside

\* A person says yes, with or without Always, to a prompt that showed the
\* arguments in full or cut.
OuterYes(i) ==
    /\ phase = "batch" /\ call[i].at = "prompted"
    /\ \E full \in BOOLEAN :
          CallStep(i, [call[i] EXCEPT !.at = "cleared", !.outer = "Granted", !.full = full,
                                      !.heard = @ \cup {"yes"}])
    /\ granted' \in {granted, granted \cup {calls[i]}}
    /\ UNCHANGED <<policy, switches, cancelled, refused>>
    /\ Watch

\* Mutant: a no is a result like another.
OuterNoGoesOn(i) ==
    /\ phase = "batch" /\ call[i].at = "prompted"
    /\ CallStep(i, Finished([call[i] EXCEPT !.heard = @ \cup {"no"}], "refused", "Denied"))
    /\ refused' = TRUE
    /\ UNCHANGED <<policyVars, cancelled, watchVars>>

\* A person says no, or the deadline does: the turn's token is cancelled.
OuterNo(i) ==
    /\ phase = "batch" /\ call[i].at = "prompted"
    /\ CallStep(i, Finished([call[i] EXCEPT !.heard = @ \cup {"no"}], "refused", "Denied"))
    /\ refused' = TRUE /\ cancelled' = TRUE
    /\ UNCHANGED <<policyVars, watchVars>>

\* Nobody could be asked: no human's no.
NoApprover(i) ==
    /\ phase = "batch" /\ call[i].at = "prompted"
    /\ CallStep(i, Finished(call[i], "refused", "Denied")) /\ Aside

\* A parallel batch is polled in order.
CanStart(i) ==
    /\ phase = "batch" /\ call[i].at = "cleared"
    /\ parallel => \A j \in Batch : j < i => call[j].at # "cleared"

\* The autonomy gate of execute_one_tool_structured; the cell the tool finds.
PassGate(i) ==
    /\ CanStart(i)
    /\ IF BarredByLevel(calls[i])
       THEN CallStep(i, Finished(call[i], "refused", "Denied"))
       ELSE CallStep(i, [call[i] EXCEPT
                !.at = "gated",
                !.cell = IF call[i].outer = "Granted" /\ call[i].full THEN "Granted" ELSE "none"])
    /\ Aside

AsksItself(i) ==
    calls[i] \in SelfAsking /\ policy.level # "Full" /\ call[i].cell # "Granted"

BeginTool(i) ==
    /\ phase = "batch" /\ call[i].at = "gated"
    /\ IF AsksItself(i)
       THEN CallStep(i, [call[i] EXCEPT !.at = "asking"])
       ELSE CallStep(i, [call[i] EXCEPT !.at = "acting", !.acted = TRUE])
    /\ Aside

\* Mutant: what the outer gate heard outranks what the tool heard.
OuterWins(outer, cell) == IF outer = "NotRequired" /\ cell # "none" THEN cell ELSE outer

\* merge_tool_approval_outcome.
Merged(outer, cell) == IF cell = "none" THEN outer ELSE cell

InnerYes(i) ==
    /\ phase = "batch" /\ call[i].at = "asking"
    /\ CallStep(i, [call[i] EXCEPT !.at = "acting", !.acted = TRUE, !.cell = "Granted",
                                   !.heard = @ \cup {"yes"}])
    /\ Aside

\* cancel_turn_on_human_deny; the tool returns its failure in the same poll.
InnerNo(i) ==
    /\ phase = "batch" /\ call[i].at = "asking"
    /\ CallStep(i, Finished([call[i] EXCEPT !.cell = "Denied", !.heard = @ \cup {"no"}],
                            "refused", Merged(call[i].outer, "Denied")))
    /\ refused' = TRUE /\ cancelled' = TRUE
    /\ UNCHANGED <<policyVars, watchVars>>

ToolEnds(i) ==
    /\ phase = "batch" /\ call[i].at = "acting"
    /\ \E out \in {"ok", "failed"} :
          CallStep(i, Finished(call[i], out, Merged(call[i].outer, call[i].cell)))
    /\ Aside

\* Mutant: the wait for the approval does not see the token.
RacesRunningToolOnly(i) == call[i].at \in {"gated", "asking", "acting"}

\* What is raced against the token: the wait for a verdict and the tool.
RacesToken(i) == call[i].at \in {"prompted", "gated", "asking", "acting"}

\* ToolLoopCancelled: the calls beside this one are dropped where they are.
CancelCall(i) ==
    /\ phase = "batch" /\ cancelled /\ RacesToken(i)
    /\ GoTo("over") /\ UNCHANGED iter

-----------------------------------------------------------------------------
LoopStep ==
    \/ StartTurn \/ BudgetGone \/ NextIteration \/ BatchDone \/ CancelRequest
    \/ \E i \in Slots :
          \/ RefuseGuest(i) \/ Ask(i) \/ ClearUnasked(i) \/ PassGate(i) \/ CancelCall(i)

AgentTurnNext ==
    \/ SwitchPolicy \/ Stop
    \/ LoopStep
    \/ ProviderEnds \/ SummaryEnds
    \/ \E n \in 1..MaxCalls : \E ts \in [1..n -> Tools] : ProviderCalls(ts)
    \/ \E i \in Slots :
          \/ OuterYes(i) \/ OuterNo(i) \/ NoApprover(i)
          \/ BeginTool(i) \/ InnerYes(i) \/ InnerNo(i) \/ ToolEnds(i)

AgentTurnSpec == AgentTurnInit /\ [][AgentTurnNext]_vars

\* The task is polled, and the provider ends a request nothing else ends; when
\* it answers other requests, whether a person answers and whether a tool ends
\* is open.
FairTurn == AgentTurnSpec /\ WF_vars(LoopStep) /\ WF_vars(SummaryEnds)

-----------------------------------------------------------------------------
(* Properties.                                                             *)

CallsType ==
    [at : CallPhases, outer : {"NotRequired", "Granted"}, full : BOOLEAN,
     cell : {"none", "Granted", "Denied"}, heard : SUBSET {"yes", "no"}, acted : BOOLEAN,
     audit : Outcomes, out : {"none", "ok", "failed", "refused"}]

\* The types of the turn's state: among them, that the loop asks the provider at
\* most max_tool_iterations times and that the detector's window is bounded.
TypeOK ==
    /\ policy \in Presets /\ granted \subseteq Tools /\ switches \in 0..MaxSwitches
    /\ guest \in BOOLEAN /\ cancelled \in BOOLEAN /\ parallel \in BOOLEAN /\ refused \in BOOLEAN
    /\ phase \in Phases /\ iter \in 0..MaxIterations
    /\ calls \in Seq(Tools) /\ Len(calls) <= MaxCalls
    /\ call \in [Slots -> CallsType]
    /\ recent \in Seq(Tools \X {"ok", "failed", "refused"}) /\ Len(recent) <= LoopWindow
    /\ strict \subseteq Batch /\ barred \subseteq Batch

\* What a tool does obeys the policy the operator left alone while the batch
\* ran, whatever else they switched: a call that needed approval all along acts
\* only after a yes of its own, a call read-only mode barred all along does not
\* act, and a guest's call acts only under the ceiling
\* (execute_tool_calls_collecting, execute_one_tool_structured).
BatchesObeyThePolicy ==
    \A i \in Batch : call[i].acted =>
        /\ i \in strict => "yes" \in call[i].heard
        /\ i \notin barred
        /\ guest => calls[i] \in GuestTools

\* The audit line of a call: Granted if a human let it through at either gate and
\* none refused it, NotRequired only if nobody was asked, and Denied exactly of
\* the calls that did not act (merge_tool_approval_outcome).
AuditTellsTheTruth ==
    \A i \in Batch : call[i].audit # "none" =>
        /\ call[i].audit = "Granted" => call[i].heard = {"yes"}
        /\ call[i].audit = "NotRequired" => call[i].heard = {}
        /\ call[i].audit = "Denied" <=> ~call[i].acted

\* After a no, a human's or the deadline's, the model is not offered the tools
\* again in this turn: "the turn ends here" (execute_tool_calls_collecting).
NoToolsAfterNo == [][refused /\ phase # "ask" => phase' # "ask"]_vars

\* A stopped turn ends, though the provider, the tool and the person it waits
\* for may never answer (the selects on the token).
StoppedTurnsEnd == cancelled ~> (phase = "over")
=============================================================================
