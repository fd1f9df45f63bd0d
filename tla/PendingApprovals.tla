-------------------------- MODULE PendingApprovals --------------------------
(***************************************************************************)
(* The queue of approval requests, security/pending.rs PendingApprovals:   *)
(* a tool call registers a request and awaits its oneshot; surfaces answer *)
(* it by id (the modals of the terminal and of the web console), by handle *)
(* or by name (the chat relay, channels/approval_relay.rs).  The queue is  *)
(* two maps behind two locks, so every lookup, removal and send of an      *)
(* answer interleaves with the deadline, with the drop of the waiting      *)
(* future and with other requests.                                         *)
(*                                                                         *)
(* ToolQueue says which of the process's queues this is: the one for whole *)
(* tools (Layer A of the relay and the web console, where the prompt goes  *)
(* out before the request is registered) or the shell's (Layer B and the   *)
(* terminal, where the gate of tools/shell.rs acts on the decision).       *)
(* Session stands for Persist as well: they differ in what is on disk.     *)
(***************************************************************************)
EXTENDS FiniteSets

CONSTANTS
    Requests,     \* request ids; an id is never used twice
    Replies,      \* the answers people give in one behaviour
    Names,        \* basenames: tools, or commands
    Chats,        \* (channel, reply_target) pairs
    NameOf,       \* [Requests -> Names]
    ChatOf,       \* [Requests -> Chats \cup {NoChat}]
    ScopeOf,      \* [Requests -> SessionScopes]
    NoChat,       \* an empty reply_target
    HasDeadline,  \* Inner.timeout is Some
    ToolQueue     \* the queue for whole tools, not the shell's

SessionScopes == {"None", "Command", "MediumRisk", "HighRisk"}

ASSUME ApprovalsAssumption ==
    /\ Requests # {}
    /\ NameOf \in [Requests -> Names]
    /\ ChatOf \in [Requests -> Chats \cup {NoChat}] /\ NoChat \notin Chats
    /\ ScopeOf \in [Requests -> SessionScopes]
    /\ HasDeadline \in BOOLEAN /\ ToolQueue \in BOOLEAN

Decisions == {"Once", "Session", "Deny"}
Forms == {"modal", "handle", "tool", "bareTool", "named", "bare"}

VARIABLES
    waiting,     \* the map of oneshot senders
    snapshot,    \* the map of requests the surfaces read
    slot,        \* the value in each oneshot
    req,         \* where each request's caller is
    outcome,     \* the PendingOutcome of each request
    rep,         \* what each reply is and where it is
    allowlist,   \* the runtime allowlist
    mediumRisk,  \* the medium-risk session grants
    widenedFor   \* history: the scopes of the requests names came to the allowlist for

queueVars == <<waiting, snapshot>>
grantVars == <<allowlist, mediumRisk, widenedFor>>
vars == <<waiting, snapshot, slot, req, outcome, rep, grantVars>>

CallerPhases == {"idle", "announced", "inserting", "waiting", "elapsed", "closing",
                 "unlisting", "acting", "over"}
ReplyPhases == {"idle", "looked", "scoped", "matched", "taken", "sent", "over"}
Acks == {"none", "accepted", "failed", "nothing", "unauthorized"}

\* A reply that was just typed.
Typed(form, chat, decision) ==
    [at |-> "looked", form |-> form, chat |-> chat, decision |-> decision,
     name |-> CHOOSE n \in Names : TRUE, scope |-> "None",
     pick |-> CHOOSE r \in Requests : TRUE, ack |-> "none"]

\* Where a decision can still arrive: the receiver of the oneshot is alive.
Receiving(r) == req[r] \in {"inserting", "waiting", "elapsed"}

GoCaller(r, phase) == req' = [req EXCEPT ![r] = phase]

-----------------------------------------------------------------------------
ApprovalsInit ==
    /\ waiting = {} /\ snapshot = {}
    /\ slot = [r \in Requests |-> "none"]
    /\ req = [r \in Requests |-> "idle"]
    /\ outcome = [r \in Requests |-> "none"]
    /\ rep = [a \in Replies |-> [Typed("modal", NoChat, "Deny") EXCEPT !.at = "idle"]]
    /\ allowlist = {} /\ mediumRisk = {} /\ widenedFor = {}

-----------------------------------------------------------------------------
(* The caller: request_decision_with and the gate around it.               *)

\* ChatRelayApprovalBackend and WebModalApprovalBackend show the prompt first.
Announce(r) ==
    /\ ToolQueue /\ req[r] = "idle"
    /\ GoCaller(r, "announced")
    /\ UNCHANGED <<queueVars, slot, outcome, rep, grantVars>>

\* The prompt could not be posted: Verdict::no_approver.
AnnounceFails(r) ==
    /\ ToolQueue /\ req[r] = "idle"
    /\ outcome' = [outcome EXCEPT ![r] = "no_approver"]
    /\ GoCaller(r, "over")
    /\ UNCHANGED <<queueVars, slot, rep, grantVars>>

InsertWaiting(r) ==
    /\ req[r] = IF ToolQueue THEN "announced" ELSE "idle"
    /\ waiting' = waiting \cup {r}
    /\ GoCaller(r, "inserting")
    /\ UNCHANGED <<snapshot, slot, outcome, rep, grantVars>>

InsertSnapshot(r) ==
    /\ req[r] = "inserting"
    /\ snapshot' = snapshot \cup {r}
    /\ GoCaller(r, "waiting")
    /\ UNCHANGED <<waiting, slot, outcome, rep, grantVars>>

\* The oneshot is polled before the timer, so a decision that is there wins.
ReceiveDecision(r) ==
    /\ req[r] = "waiting" /\ slot[r] # "none"
    /\ outcome' = [outcome EXCEPT ![r] = slot[r]]
    /\ GoCaller(r, "closing")
    /\ UNCHANGED <<queueVars, slot, rep, grantVars>>

\* Mutant: the timer is polled before the oneshot.
ElapseFirst(r) ==
    /\ HasDeadline /\ req[r] = "waiting"
    /\ GoCaller(r, "elapsed")
    /\ UNCHANGED <<queueVars, slot, outcome, rep, grantVars>>

\* The timer has fired on an empty oneshot; its receiver is not dropped yet.
Elapse(r) ==
    /\ HasDeadline /\ req[r] = "waiting" /\ slot[r] = "none"
    /\ GoCaller(r, "elapsed")
    /\ UNCHANGED <<queueVars, slot, outcome, rep, grantVars>>

AutoDeny(r) ==
    /\ req[r] = "elapsed"
    /\ outcome' = [outcome EXCEPT ![r] = "timeout"]
    /\ GoCaller(r, "closing")
    /\ UNCHANGED <<queueVars, slot, rep, grantVars>>

\* Mutant: cleanup only on the normal return, not when the future is dropped.
WithdrawLeaking(r) ==
    /\ req[r] = "waiting"
    /\ outcome' = [outcome EXCEPT ![r] = "withdrawn"]
    /\ GoCaller(r, "over")
    /\ UNCHANGED <<queueVars, slot, rep, grantVars>>

\* The waiting future is dropped: the turn was cancelled around the tool.
Withdraw(r) ==
    /\ req[r] = "waiting"
    /\ outcome' = [outcome EXCEPT ![r] = "withdrawn"]
    /\ GoCaller(r, "closing")
    /\ UNCHANGED <<queueVars, slot, rep, grantVars>>

\* Cleanup::drop, the first lock.
CleanWaiting(r) ==
    /\ req[r] = "closing"
    /\ waiting' = waiting \ {r}
    /\ GoCaller(r, "unlisting")
    /\ UNCHANGED <<snapshot, slot, outcome, rep, grantVars>>

\* Cleanup::drop, the second lock; the gate acts on a decision to go on.
CleanSnapshot(r) ==
    /\ req[r] = "unlisting"
    /\ snapshot' = snapshot \ {r}
    /\ GoCaller(r, IF outcome[r] \in {"Once", "Session"} /\ ~ToolQueue THEN "acting" ELSE "over")
    /\ UNCHANGED <<waiting, slot, outcome, rep, grantVars>>

Widen(name, scope) ==
    /\ allowlist' = allowlist \cup {name}
    /\ widenedFor' = widenedFor \cup {scope}

\* ShellTool::execute: an unallowed basename joins the allowlist whatever the
\* yes was; the risk gate records a session grant for medium risk only.
ShellGateActs(r) ==
    /\ req[r] = "acting"
    /\ \/ /\ ScopeOf[r] = "Command"
          /\ Widen(NameOf[r], ScopeOf[r])
          /\ UNCHANGED mediumRisk
       \/ /\ ScopeOf[r] # "Command"
          /\ mediumRisk' = IF ScopeOf[r] = "MediumRisk" /\ outcome[r] = "Session"
                           THEN mediumRisk \cup {NameOf[r]} ELSE mediumRisk
          /\ UNCHANGED <<allowlist, widenedFor>>
    /\ GoCaller(r, "over")
    /\ UNCHANGED <<queueVars, slot, outcome, rep>>

-----------------------------------------------------------------------------
(* A reply.                                                                *)

Reply(a, fields) == rep' = [rep EXCEPT ![a] = fields]
Ends(a, ack) == Reply(a, [rep[a] EXCEPT !.at = "over", !.ack = ack])

Named(name) == {q \in snapshot : NameOf[q] = name}
\* Mutant: a bare verb hears the requests of every chat.
AnswerableAnywhere(chat) == {q \in snapshot : ChatOf[q] # NoChat}

AnswerableHere(chat) == {q \in snapshot : ChatOf[q] # NoChat /\ ChatOf[q] = chat}

\* A modal answers the id it was handed; a handle names one listed request, and its
\* sender and the listing are still to be looked at.
ReplyById(a) ==
    /\ rep[a].at = "idle"
    /\ \E r \in Requests, d \in Decisions :
          \/ /\ req[r] # "idle" /\ (ToolQueue \/ req[r] # "inserting")
             /\ Reply(a, [Typed("modal", NoChat, d) EXCEPT !.at = "matched", !.pick = r, !.name = NameOf[r]])
          \/ /\ ToolQueue /\ d \in {"Once", "Deny"} /\ r \in snapshot
             /\ Reply(a, [Typed("handle", NoChat, d) EXCEPT !.at = "looked", !.pick = r, !.name = NameOf[r]])
    /\ UNCHANGED <<queueVars, slot, req, outcome, grantVars>>

\* /approve NAME and /deny NAME, /allow NAME and /deny NAME: the name has to be
\* pending somewhere, in any chat.
ReplyByName(a) ==
    /\ rep[a].at = "idle"
    /\ \E c \in Chats, n \in {NameOf[q] : q \in snapshot} :
          IF ToolQueue
          THEN \E d \in {"Once", "Deny"} : Reply(a, [Typed("tool", c, d) EXCEPT !.name = n])
          ELSE \E d \in {"Session", "Deny"} : Reply(a, [Typed("named", NoChat, d) EXCEPT !.name = n])
    /\ UNCHANGED <<queueVars, slot, req, outcome, grantVars>>

\* A bare verb: it goes on with the name of the one request that is pending in
\* this chat; a denial over the shell's queue may come from any chat.
ReplyBare(a) ==
    /\ rep[a].at = "idle"
    /\ \E c \in Chats, d \in (IF ToolQueue THEN {"Once", "Deny"} ELSE {"Session", "Deny"}) :
          LET heard == IF ~ToolQueue /\ d = "Deny" THEN snapshot ELSE AnswerableHere(c)
              form == IF ToolQueue THEN "bareTool" ELSE "bare"
          IN  \E q \in heard :
                 /\ heard = {q}
                 /\ Reply(a, [Typed(form, c, d) EXCEPT !.name = NameOf[q]])
    /\ UNCHANGED <<queueVars, slot, req, outcome, grantVars>>

\* can_approve refuses a yes of somebody who is not an owner.
RefuseSender(a) ==
    /\ rep[a].at = "looked" /\ rep[a].decision # "Deny"
    /\ Ends(a, "unauthorized")
    /\ UNCHANGED <<queueVars, slot, req, outcome, grantVars>>

\* Mutant: the scope is not looked up.
ScopeUnread(a) ==
    /\ rep[a].at = "looked" /\ rep[a].form \in {"named", "bare"}
    /\ Reply(a, [rep[a] EXCEPT !.at = "scoped"])
    /\ UNCHANGED <<queueVars, slot, req, outcome, grantVars>>

\* handle_parsed reads what the answer will hold for before it resolves.
ReadScope(a) ==
    /\ rep[a].at = "looked" /\ rep[a].form \in {"named", "bare"}
    /\ LET found == Named(rep[a].name)
           scope == IF Cardinality(found) = 1 THEN ScopeOf[CHOOSE q \in found : TRUE] ELSE "None"
       IN  Reply(a, [rep[a] EXCEPT !.at = "scoped",
                                   !.scope = IF rep[a].decision = "Deny" THEN "None" ELSE scope])
    /\ UNCHANGED <<queueVars, slot, req, outcome, grantVars>>

\* Mutant: the chat is not compared.
CandidatesAnywhere(a) == Named(rep[a].name)

\* resolve_by_basename_in compares the chat, resolve_by_basename does not, and
\* resolve_by_handle takes the one request it names, if that is listed still.
Candidates(a) ==
    {q \in Named(rep[a].name) :
        /\ rep[a].form \in {"tool", "bareTool"} => q \in AnswerableHere(rep[a].chat)
        /\ rep[a].form = "handle" => q = rep[a].pick}

Match(a) ==
    /\ \/ rep[a].at = "looked" /\ rep[a].form \in {"tool", "bareTool", "handle"}
       \/ rep[a].at = "scoped"
    /\ IF Cardinality(Candidates(a)) = 1
       THEN Reply(a, [rep[a] EXCEPT !.at = "matched", !.pick = CHOOSE q \in Candidates(a) : TRUE])
       ELSE Ends(a, "nothing")
    /\ UNCHANGED <<queueVars, slot, req, outcome, grantVars>>

\* Mutant: the sender is looked up and stays in the map.
PeekSender(a) ==
    /\ rep[a].at = "matched"
    /\ IF rep[a].pick \in waiting
       THEN Reply(a, [rep[a] EXCEPT !.at = "taken"])
       ELSE Ends(a, "nothing")
    /\ UNCHANGED <<queueVars, slot, req, outcome, grantVars>>

\* resolve: whoever removes the sender from the map owns it.
TakeSender(a) ==
    /\ rep[a].at = "matched"
    /\ waiting' = waiting \ {rep[a].pick}
    /\ IF rep[a].pick \in waiting
       THEN Reply(a, [rep[a] EXCEPT !.at = "taken"])
       ELSE Ends(a, "nothing")
    /\ UNCHANGED <<snapshot, slot, req, outcome, grantVars>>

\* The send succeeds while the receiver is alive, and only then acknowledges.
SendDecision(a) ==
    /\ rep[a].at = "taken"
    /\ IF Receiving(rep[a].pick)
       THEN /\ slot' = [slot EXCEPT ![rep[a].pick] = rep[a].decision]
            /\ Reply(a, [rep[a] EXCEPT !.at = "sent", !.ack = "accepted"])
       ELSE Ends(a, "failed") /\ UNCHANGED slot
    /\ UNCHANGED <<queueVars, req, outcome, grantVars>>

\* What a surface does once the request resolved: a yes of the shell's queue
\* joins the allowlist, unless the scope the surface knows is the risk gate's.
AfterAccepted(a) ==
    LET scope == IF rep[a].form = "modal" THEN ScopeOf[rep[a].pick] ELSE rep[a].scope
        widens == /\ ~ToolQueue /\ rep[a].decision = "Session"
                  /\ scope \notin {"MediumRisk", "HighRisk"}
    IN
    /\ rep[a].at = "sent"
    /\ Reply(a, [rep[a] EXCEPT !.at = "over"])
    /\ IF widens
       THEN Widen(rep[a].name, ScopeOf[rep[a].pick])
       ELSE UNCHANGED <<allowlist, widenedFor>>
    /\ UNCHANGED <<queueVars, slot, req, outcome, mediumRisk>>

-----------------------------------------------------------------------------
CallerStep(r) ==
    \/ InsertWaiting(r) /\ ToolQueue
    \/ InsertSnapshot(r) \/ ReceiveDecision(r) \/ Elapse(r) \/ AutoDeny(r)
    \/ CleanWaiting(r) \/ CleanSnapshot(r) \/ ShellGateActs(r)

ReplyStep(a) ==
    \/ ReadScope(a) \/ Match(a) \/ TakeSender(a) \/ SendDecision(a) \/ AfterAccepted(a)

ApprovalsNext ==
    \/ \E r \in Requests :
          \/ Announce(r) \/ AnnounceFails(r) \/ InsertWaiting(r) \/ InsertSnapshot(r)
          \/ ReceiveDecision(r) \/ Elapse(r) \/ AutoDeny(r) \/ Withdraw(r)
          \/ CleanWaiting(r) \/ CleanSnapshot(r) \/ ShellGateActs(r)
    \/ \E a \in Replies :
          \/ ReplyById(a) \/ ReplyByName(a) \/ ReplyBare(a) \/ RefuseSender(a)
          \/ ReadScope(a) \/ Match(a) \/ TakeSender(a) \/ SendDecision(a) \/ AfterAccepted(a)

ApprovalsSpec == ApprovalsInit /\ [][ApprovalsNext]_vars

\* Ready tasks are polled and a deadline passes; whether somebody answers, or the
\* call is cancelled, is open.
FairApprovals ==
    /\ ApprovalsSpec
    /\ \A r \in Requests : WF_vars(CallerStep(r))
    /\ \A a \in Replies : WF_vars(ReplyStep(a))

-----------------------------------------------------------------------------
(* Properties.                                                             *)

RepliesType ==
    [at : ReplyPhases, form : Forms, chat : Chats \cup {NoChat}, decision : Decisions,
     name : Names, scope : SessionScopes, pick : Requests, ack : Acks]

\* Every variable keeps its type.
TypeOK ==
    /\ waiting \subseteq Requests /\ snapshot \subseteq Requests
    /\ slot \in [Requests -> Decisions \cup {"none"}]
    /\ req \in [Requests -> CallerPhases]
    /\ outcome \in [Requests -> Decisions \cup {"none", "timeout", "withdrawn", "no_approver"}]
    /\ rep \in [Replies -> RepliesType]
    /\ allowlist \subseteq Names /\ mediumRisk \subseteq Names
    /\ widenedFor \subseteq SessionScopes

Accepted(a) == rep[a].ack = "accepted"

\* "Only the first resolver wins; later resolves are no-ops" (security/pending.rs):
\* two replies that found the same request, by any two lookups, are not both
\* acknowledged, and a call that goes on was told so by the one that was.
OnlyFirstResolverWins ==
    /\ \A a, b \in Replies :
          (a # b /\ Accepted(a) /\ Accepted(b)) => rep[a].pick # rep[b].pick
    /\ \A r \in Requests : outcome[r] \in Decisions =>
          \E a \in Replies :
              Accepted(a) /\ rep[a].pick = r /\ rep[a].decision = outcome[r]

\* A request whose caller has gone, by a decision, the deadline or a cancelled
\* turn, is in neither map: a phantom entry would make every later reply to that
\* name ambiguous.
NoPhantomRequests ==
    \A r \in Requests : req[r] \in {"acting", "over"} => r \notin waiting /\ r \notin snapshot

\* A tool approved by name or by a bare verb is one that was waiting in the chat
\* the reply was typed in, whatever was registered, answered or timed out between
\* the two lookups of the reply.
ToolRepliesStayInTheirChat ==
    \A a \in Replies :
        (rep[a].form \in {"tool", "bareTool"} /\ Accepted(a)) => ChatOf[rep[a].pick] = rep[a].chat

\* A twin of a request: another one of its name that was listed and has gone.
GoneTwin(r, t) == t # r /\ NameOf[t] = NameOf[r] /\ req[t] \in {"acting", "over"}

\* "A bare verb now only answers a request from the same chat"
\* (channels/approval_relay.rs, try_handle_reply): over the shell's queue, which
\* resolves by name alone, a bare yes approves a request of another chat only when
\* the one it was typed for has gone in between.
BareRepliesStrayOnlyToATwin ==
    \A a \in Replies :
        (/\ rep[a].form = "bare" /\ rep[a].decision # "Deny" /\ Accepted(a)
         /\ ChatOf[rep[a].pick] # rep[a].chat)
            => \E t \in Requests : GoneTwin(rep[a].pick, t) /\ ChatOf[t] = rep[a].chat

\* An answer to the risk gate "never touches the allowlist"
\* (channels/approval_relay.rs, handle_parsed): by a surface that reads the scope
\* and resolves in two lookups, it does so only when a request of the same command
\* was listed at the first and has gone by the second.
RiskGateWidensOnlyByATwin ==
    widenedFor \cap {"MediumRisk", "HighRisk"} # {} =>
        \E r, t \in Requests : ScopeOf[r] \in {"MediumRisk", "HighRisk"} /\ GoneTwin(r, t)

Standing(r) ==
    CASE req[r] \in {"idle", "announced"} -> "new"
      [] req[r] \in {"inserting", "waiting"} /\ slot[r] # "none" -> "decided"
      [] req[r] \in {"inserting", "waiting"} /\ slot[r] = "none" -> "open"
      [] req[r] = "elapsed" -> "open"
      [] req[r] = "over" /\ outcome[r] = "no_approver" -> "new"
      [] OTHER -> "closed"

VerdictOf(r) ==
    CASE Standing(r) = "new" -> "none"
      [] Standing(r) = "closed" -> outcome[r]
      [] req[r] = "elapsed" -> "none"
      [] OTHER -> slot[r]

Contract == INSTANCE ApprovalContract WITH
    standing <- [r \in Requests |-> Standing(r)],
    verdict <- [r \in Requests |-> VerdictOf(r)]

\* The queue implements ApprovalContract: over all interleavings a request is
\* decided once, the decision is handed over unchanged, the deadline only ever
\* denies, and nobody waits for ever on a decision that was sent or a deadline.
ImplementsContract == Contract!Spec
=============================================================================
