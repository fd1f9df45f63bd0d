---------------------- MODULE PendingApprovals_proofs ----------------------
(***************************************************************************)
(* Proofs about PendingApprovals, for any requests, replies, names and     *)
(* chats: its types, that only the first resolver of a request wins, that  *)
(* no entry outlives its caller, that tool replies stay in their chat, and *)
(* that the shell's replies stray only when a twin of the request has gone.*)
(*                                                                         *)
(* The argument follows the oneshot sender of a request.  It is in the map *)
(* of waiting senders, or with the one reply that removed it, or spent.    *)
(***************************************************************************)
EXTENDS PendingApprovals, FiniteSetTheorems, TLAPS

-----------------------------------------------------------------------------
(* Types.                                                                  *)

LEMMA TypedType ==
    ASSUME NEW form \in Forms, NEW chat \in Chats \cup {NoChat}, NEW d \in Decisions
    PROVE  /\ Typed(form, chat, d) \in RepliesType
           /\ Typed(form, chat, d).at = "looked" /\ Typed(form, chat, d).ack = "none"
           /\ Typed(form, chat, d).form = form
<1>1. (CHOOSE r \in Requests : TRUE) \in Requests
  BY ApprovalsAssumption
<1>2. (CHOOSE n \in Names : TRUE) \in Names
  BY ApprovalsAssumption
<1> QED
  BY <1>1, <1>2 DEF Typed, RepliesType, ReplyPhases, SessionScopes, Acks

-----------------------------------------------------------------------------
(* The inductive invariant.                                                *)

\* Where a request's entries and its outcome are as its caller goes on.
CallerInv ==
    \A r \in Requests :
        /\ r \in waiting => req[r] \in {"inserting", "waiting", "elapsed", "closing"}
        /\ r \in snapshot => req[r] \in {"waiting", "elapsed", "closing", "unlisting"}
        /\ outcome[r] # "none" => req[r] \in {"closing", "unlisting", "acting", "over"}
        /\ req[r] = "acting" => outcome[r] \in {"Once", "Session"}
        /\ outcome[r] \in Decisions => slot[r] = outcome[r]
        /\ outcome[r] = "no_approver" => req[r] = "over"
        /\ req[r] = "elapsed" => HasDeadline

\* The reply has removed the sender of the request it picked, or used it.
HasSender(a) == rep[a].at = "taken" \/ Accepted(a)

\* A sender is in one place: in the map, or with one reply; and what was sent was
\* sent by the reply that is acknowledged.
SenderInv ==
    /\ \A a \in Replies : Accepted(a) => rep[a].at \in {"sent", "over"}
    /\ \A a \in Replies : HasSender(a) =>
          rep[a].pick \notin waiting /\ req[rep[a].pick] \notin {"idle", "announced"}
    /\ \A a, b \in Replies : (a # b /\ HasSender(a) /\ HasSender(b)) => rep[a].pick # rep[b].pick
    /\ \A r \in Requests : slot[r] # "none" =>
          \E a \in Replies : Accepted(a) /\ rep[a].pick = r /\ rep[a].decision = slot[r]

\* A request picked by name and chat is one of that chat.
ChatInv ==
    \A a \in Replies :
        /\ rep[a].form \in {"tool", "bareTool"}
        /\ rep[a].at \in {"matched", "taken"} \/ Accepted(a)
        => ChatOf[rep[a].pick] = rep[a].chat

Inv == TypeOK /\ CallerInv /\ SenderInv /\ ChatInv

LEMMA InitInv == ApprovalsInit => Inv
<1> SUFFICES ASSUME ApprovalsInit PROVE Inv
  OBVIOUS
<1> DEFINE fresh == [Typed("modal", NoChat, "Deny") EXCEPT !.at = "idle"]
<1>1. fresh \in RepliesType /\ fresh.at = "idle" /\ fresh.ack = "none"
  <2>1. Typed("modal", NoChat, "Deny") \in RepliesType
    BY TypedType DEF Forms, Decisions
  <2>2. Typed("modal", NoChat, "Deny").ack = "none"
    BY DEF Typed
  <2> QED
    BY <2>1, <2>2 DEF RepliesType, ReplyPhases
<1>2. \A a \in Replies : rep[a] = fresh
  BY DEF ApprovalsInit
<1> HIDE DEF fresh
<1>3. TypeOK
  <2>1. rep \in [Replies -> RepliesType]
    BY <1>1 DEF ApprovalsInit, fresh
  <2> QED
    BY <2>1 DEF ApprovalsInit, TypeOK, CallerPhases, Decisions
<1> QED
  BY <1>1, <1>2, <1>3 DEF ApprovalsInit, Inv, CallerInv, SenderInv, ChatInv, HasSender, Accepted,
                          Decisions

-----------------------------------------------------------------------------
(* Steps of the caller: no reply moves, and no value is sent.              *)

LEMMA SendersKept ==
    ASSUME Inv, rep' = rep, slot' = slot, waiting' \subseteq waiting,
           \A r \in Requests : req[r] \notin {"idle", "announced"} => req'[r] \notin {"idle", "announced"}
    PROVE  SenderInv' /\ ChatInv'
<1>1. \A a \in Replies : rep[a].pick \in Requests
  BY DEF Inv, TypeOK, RepliesType
<1> QED
  BY <1>1 DEF Inv, SenderInv, ChatInv, HasSender, Accepted

LEMMA CallerSteps ==
    ASSUME Inv, NEW r \in Requests,
           \/ Announce(r) \/ AnnounceFails(r) \/ InsertWaiting(r) \/ InsertSnapshot(r)
           \/ ReceiveDecision(r) \/ Elapse(r) \/ AutoDeny(r) \/ Withdraw(r)
           \/ CleanWaiting(r) \/ CleanSnapshot(r) \/ ShellGateActs(r)
    PROVE  Inv'
<1>0. TypeOK /\ CallerInv
  BY DEF Inv
<1>1. CASE Announce(r) \/ AnnounceFails(r)
  <2>1. TypeOK'
    BY <1>0, <1>1 DEF Announce, AnnounceFails, GoCaller, queueVars, grantVars, CallerPhases, TypeOK
  <2>2. CallerInv'
    BY <1>0, <1>1 DEF Announce, AnnounceFails, GoCaller, queueVars, TypeOK, CallerInv, Decisions
  <2>3. SenderInv' /\ ChatInv'
    <3>1. waiting' = waiting /\ slot' = slot /\ rep' = rep
      BY <1>1 DEF Announce, AnnounceFails, queueVars
    <3>2. req[r] = "idle" /\ \A q \in Requests : q # r => req'[q] = req[q]
      BY <1>0, <1>1 DEF Announce, AnnounceFails, GoCaller, TypeOK
    <3> QED
      BY <3>1, <3>2, SendersKept
  <2> QED
    BY <2>1, <2>2, <2>3 DEF Inv
<1>2. CASE InsertWaiting(r)
  <2>1. TypeOK' /\ CallerInv' /\ ChatInv'
    BY <1>2 DEF InsertWaiting, GoCaller, grantVars, CallerPhases, TypeOK, CallerInv, ChatInv, Accepted, Inv
  <2>2. \A a \in Replies : HasSender(a) => rep[a].pick # r
    BY <1>2 DEF InsertWaiting, SenderInv, Inv
  <2>3. SenderInv'
    BY <1>2, <2>2 DEF InsertWaiting, GoCaller, TypeOK, SenderInv, HasSender, Accepted, RepliesType, Inv
  <2> QED
    BY <2>1, <2>3 DEF Inv
<1>3. CASE InsertSnapshot(r) \/ Elapse(r) \/ ReceiveDecision(r) \/ AutoDeny(r) \/ Withdraw(r)
           \/ CleanWaiting(r) \/ CleanSnapshot(r) \/ ShellGateActs(r)
  <2>1. SenderInv' /\ ChatInv'
    <3>1. waiting' \subseteq waiting /\ slot' = slot /\ rep' = rep
      BY <1>3 DEF InsertSnapshot, Elapse, ReceiveDecision, AutoDeny, Withdraw, CleanWaiting,
                  CleanSnapshot, ShellGateActs, queueVars
    <3>2. req'[r] \notin {"idle", "announced"} /\ \A q \in Requests : q # r => req'[q] = req[q]
      BY <1>0, <1>3 DEF InsertSnapshot, Elapse, ReceiveDecision, AutoDeny, Withdraw, CleanWaiting,
                        CleanSnapshot, ShellGateActs, GoCaller, TypeOK
    <3> QED
      BY <3>1, <3>2, SendersKept
  <2>2. TypeOK' /\ CallerInv'
    <3>1. CASE InsertSnapshot(r) \/ Elapse(r)
      BY <1>0, <3>1 DEF InsertSnapshot, Elapse, GoCaller, queueVars, grantVars, CallerPhases,
                        TypeOK, CallerInv
    <3>2. CASE ReceiveDecision(r)
      BY <1>0, <3>2 DEF ReceiveDecision, GoCaller, queueVars, grantVars, CallerPhases, Decisions,
                        TypeOK, CallerInv
    <3>3. CASE AutoDeny(r) \/ Withdraw(r)
      BY <1>0, <3>3 DEF AutoDeny, Withdraw, GoCaller, queueVars, grantVars, CallerPhases, Decisions,
                        TypeOK, CallerInv
    <3>4. CASE CleanWaiting(r)
      BY <1>0, <3>4 DEF CleanWaiting, GoCaller, grantVars, CallerPhases, TypeOK, CallerInv
    <3>5. CASE CleanSnapshot(r)
      BY <1>0, <3>5 DEF CleanSnapshot, GoCaller, grantVars, CallerPhases, TypeOK, CallerInv
    <3>6. CASE ShellGateActs(r)
      <4>1. TypeOK'
        <5>1. NameOf[r] \in Names /\ ScopeOf[r] \in SessionScopes
          BY ApprovalsAssumption
        <5>2. allowlist' \subseteq Names /\ mediumRisk' \subseteq Names
          BY <1>0, <3>6, <5>1 DEF ShellGateActs, Widen, TypeOK
        <5>3. widenedFor' \subseteq SessionScopes
          BY <1>0, <3>6, <5>1 DEF ShellGateActs, Widen, TypeOK
        <5> QED
          BY <1>0, <3>6, <5>2, <5>3 DEF ShellGateActs, GoCaller, queueVars, CallerPhases, TypeOK
      <4>2. CallerInv'
        BY <1>0, <3>6 DEF ShellGateActs, GoCaller, queueVars, TypeOK, CallerInv
      <4> QED
        BY <4>1, <4>2
    <3> QED
      BY <1>3, <3>1, <3>2, <3>3, <3>4, <3>5, <3>6
  <2> QED
    BY <2>1, <2>2 DEF Inv
<1> QED
  BY <1>1, <1>2, <1>3

-----------------------------------------------------------------------------
(* Steps of a reply: no caller moves.                                      *)

\* The fields of a reply that carry the sender, which a lookup does not touch.
LEMMA LookupSteps ==
    ASSUME Inv, NEW a \in Replies,
           \/ ReplyById(a) \/ ReplyByName(a) \/ ReplyBare(a) \/ RefuseSender(a)
           \/ ReadScope(a) \/ Match(a)
    PROVE  Inv'
<1>0. TypeOK /\ CallerInv /\ SenderInv /\ ChatInv
  BY DEF Inv
<1> DEFINE Searching == {"idle", "looked", "scoped"}
<1>1. /\ rep' = [rep EXCEPT ![a] = rep'[a]] /\ rep'[a] \in RepliesType
      /\ rep[a].at \in Searching /\ rep'[a].at \in {"looked", "scoped", "matched", "over"}
      /\ rep'[a].ack # "accepted"
      /\ (rep'[a].form \in {"tool", "bareTool"} /\ rep'[a].at = "matched")
            => ChatOf[rep'[a].pick] = rep'[a].chat
  <2>0. \A b \in Replies : rep[b] \in RepliesType /\ (rep[b].at \in Searching => rep[b].ack # "accepted")
    BY <1>0 DEF TypeOK, SenderInv, Accepted
  <2>1. CASE ReplyById(a)
    <3>1. PICK r \in Requests, d \in Decisions, form \in {"modal", "handle"},
               at \in {"looked", "matched"} :
             rep' = [rep EXCEPT ![a] = [Typed(form, NoChat, d) EXCEPT
                                           !.at = at, !.pick = r, !.name = NameOf[r]]]
      BY <2>1 DEF ReplyById, Reply
    <3> DEFINE new == [Typed(form, NoChat, d) EXCEPT !.at = at, !.pick = r, !.name = NameOf[r]]
    <3>0. form \in Forms
      BY DEF Forms
    <3>2. /\ Typed(form, NoChat, d) \in RepliesType /\ Typed(form, NoChat, d).ack = "none"
          /\ Typed(form, NoChat, d).form = form
      BY <3>0, TypedType
    <3>3. NameOf[r] \in Names
      BY ApprovalsAssumption
    <3>4. new \in RepliesType /\ new.at \in {"looked", "matched"} /\ new.ack = "none" /\ new.form = form
      BY <3>2, <3>3 DEF RepliesType, ReplyPhases
    <3>5. rep' = [rep EXCEPT ![a] = new] /\ rep'[a] = new
      BY <1>0, <3>1 DEF TypeOK
    <3>6. rep[a].at = "idle"
      BY <2>1 DEF ReplyById
    <3> QED
      BY <3>4, <3>5, <3>6
  <2>2. CASE ReplyByName(a)
    <3>1. PICK c \in Chats \cup {NoChat}, n \in {NameOf[q] : q \in snapshot}, d \in Decisions,
               form \in {"tool", "named"} :
             rep' = [rep EXCEPT ![a] = [Typed(form, c, d) EXCEPT !.name = n]]
      BY <2>2 DEF ReplyByName, Reply, Decisions
    <3> DEFINE new == [Typed(form, c, d) EXCEPT !.name = n]
    <3>2. /\ Typed(form, c, d) \in RepliesType /\ Typed(form, c, d).ack = "none"
          /\ Typed(form, c, d).at = "looked"
      BY TypedType DEF Forms
    <3>3. n \in Names
      BY <1>0, ApprovalsAssumption DEF TypeOK
    <3>4. new \in RepliesType /\ new.at = "looked" /\ new.ack = "none"
      BY <3>2, <3>3 DEF RepliesType
    <3>5. rep' = [rep EXCEPT ![a] = new] /\ rep'[a] = new
      BY <1>0, <3>1 DEF TypeOK
    <3>6. rep[a].at = "idle"
      BY <2>2 DEF ReplyByName
    <3> QED
      BY <3>4, <3>5, <3>6
  <2>3. CASE ReplyBare(a)
    <3>1. PICK c \in Chats, q \in Requests, d \in Decisions, form \in {"bareTool", "bare"} :
             rep' = [rep EXCEPT ![a] = [Typed(form, c, d) EXCEPT !.name = NameOf[q]]]
      <4>1. \A c \in Chats : AnswerableHere(c) \subseteq snapshot /\ snapshot \subseteq Requests
        BY <1>0 DEF AnswerableHere, TypeOK
      <4>2. PICK c \in Chats, d \in {"Once", "Session", "Deny"} :
               \E q \in (IF ~ToolQueue /\ d = "Deny" THEN snapshot ELSE AnswerableHere(c)) :
                  Reply(a, [Typed(IF ToolQueue THEN "bareTool" ELSE "bare", c, d) EXCEPT !.name = NameOf[q]])
        BY <2>3 DEF ReplyBare
      <4> QED
        BY <4>1, <4>2 DEF Reply, Decisions
    <3> DEFINE new == [Typed(form, c, d) EXCEPT !.name = NameOf[q]]
    <3>2. /\ Typed(form, c, d) \in RepliesType /\ Typed(form, c, d).ack = "none"
          /\ Typed(form, c, d).at = "looked"
      BY TypedType DEF Forms
    <3>3. NameOf[q] \in Names
      BY ApprovalsAssumption
    <3>4. new \in RepliesType /\ new.at = "looked" /\ new.ack = "none"
      BY <3>2, <3>3 DEF RepliesType
    <3>5. rep' = [rep EXCEPT ![a] = new] /\ rep'[a] = new
      BY <1>0, <3>1 DEF TypeOK
    <3>6. rep[a].at = "idle"
      BY <2>3 DEF ReplyBare
    <3> QED
      BY <3>4, <3>5, <3>6
  <2>4. CASE RefuseSender(a)
    BY <1>0, <2>0, <2>4 DEF RefuseSender, Ends, Reply, TypeOK, RepliesType, ReplyPhases, Acks
  <2>5. CASE ReadScope(a)
    <3>1. PICK scope : /\ rep' = [rep EXCEPT ![a] = [rep[a] EXCEPT !.at = "scoped", !.scope = scope]]
                       /\ scope \in SessionScopes
      <4>1. \A q \in Requests : ScopeOf[q] \in SessionScopes
        BY ApprovalsAssumption
      <4>2. Named(rep[a].name) \subseteq Requests
        BY <1>0 DEF Named, TypeOK
      <4>3. Cardinality(Named(rep[a].name)) = 1 => Named(rep[a].name) # {}
        BY FS_EmptySet
      <4>4. Cardinality(Named(rep[a].name)) = 1 =>
               ScopeOf[CHOOSE q \in Named(rep[a].name) : TRUE] \in SessionScopes
        BY <4>1, <4>2, <4>3
      <4>5. "None" \in SessionScopes
        BY DEF SessionScopes
      <4> QED
        BY <2>5, <4>4, <4>5 DEF ReadScope, Reply
    <3>2. rep[a].at = "looked"
      BY <2>5 DEF ReadScope
    <3> QED
      BY <1>0, <2>0, <3>1, <3>2 DEF TypeOK, RepliesType, ReplyPhases
  <2>6. CASE Match(a)
    <3>1. rep[a].at \in {"looked", "scoped"}
      BY <2>6 DEF Match
    <3>2. CASE Cardinality(Candidates(a)) = 1
      <4>1. Candidates(a) # {} /\ Candidates(a) \subseteq Requests
        <5>1. Candidates(a) \subseteq snapshot
          BY DEF Candidates, Named, AnswerableHere
        <5>2. Candidates(a) # {}
          BY <3>2, FS_EmptySet
        <5> QED
          BY <1>0, <5>1, <5>2 DEF TypeOK
      <4>2. PICK q \in Candidates(a) : rep' = [rep EXCEPT ![a] = [rep[a] EXCEPT !.at = "matched", !.pick = q]]
        BY <2>6, <3>2, <4>1 DEF Match, Reply
      <4>3. rep[a].form \in {"tool", "bareTool"} => ChatOf[q] = rep[a].chat
        BY <4>2 DEF Candidates, AnswerableHere
      <4> QED
        BY <1>0, <2>0, <3>1, <4>1, <4>2, <4>3 DEF TypeOK, RepliesType, ReplyPhases
    <3>3. CASE Cardinality(Candidates(a)) # 1
      <4>1. rep' = [rep EXCEPT ![a] = [rep[a] EXCEPT !.at = "over", !.ack = "nothing"]]
        BY <2>6, <3>3 DEF Match, Ends, Reply
      <4>2. [rep[a] EXCEPT !.at = "over", !.ack = "nothing"] \in RepliesType
        BY <1>0 DEF TypeOK, RepliesType, ReplyPhases, Acks
      <4> QED
        BY <1>0, <2>0, <3>1, <4>1, <4>2 DEF TypeOK
    <3> QED
      BY <3>2, <3>3
  <2> QED
    BY <2>1, <2>2, <2>3, <2>4, <2>5, <2>6
<1>2. UNCHANGED <<queueVars, slot, req, outcome, grantVars>>
  BY DEF ReplyById, ReplyByName, ReplyBare, RefuseSender, ReadScope, Match
<1>3. TypeOK' /\ CallerInv'
  BY <1>0, <1>1, <1>2 DEF TypeOK, CallerInv, queueVars, grantVars
<1>4. \A b \in Replies : (HasSender(b)' => b # a /\ rep'[b] = rep[b] /\ HasSender(b))
                         /\ (b # a => rep'[b] = rep[b])
  BY <1>0, <1>1 DEF TypeOK, HasSender, Accepted
<1>5. ~Accepted(a)
  BY <1>0, <1>1 DEF SenderInv, Accepted
<1>6. SenderInv'
  <2>1. \A b \in Replies : Accepted(b)' => rep'[b].at \in {"sent", "over"}
    BY <1>0, <1>1, <1>4 DEF SenderInv, Accepted, HasSender
  <2>2. \A b \in Replies : HasSender(b)' =>
            rep'[b].pick \notin waiting' /\ req'[rep'[b].pick] \notin {"idle", "announced"}
    BY <1>0, <1>2, <1>4 DEF SenderInv, queueVars
  <2>3. \A b, c \in Replies : (b # c /\ HasSender(b)' /\ HasSender(c)') => rep'[b].pick # rep'[c].pick
    BY <1>0, <1>4 DEF SenderInv
  <2>4. \A r \in Requests : slot'[r] # "none" =>
            \E b \in Replies : Accepted(b)' /\ rep'[b].pick = r /\ rep'[b].decision = slot'[r]
    BY <1>0, <1>2, <1>4, <1>5 DEF SenderInv, Accepted
  <2> QED
    BY <2>1, <2>2, <2>3, <2>4 DEF SenderInv, HasSender, Accepted
<1>7. ChatInv'
  BY <1>0, <1>1, <1>4 DEF ChatInv, TypeOK, Accepted
<1> QED
  BY <1>3, <1>6, <1>7 DEF Inv

\* resolve, its first half: the sender moves from the map to the reply.
LEMMA TakeStep == ASSUME Inv, NEW a \in Replies, TakeSender(a) PROVE Inv'
<1>0. TypeOK /\ CallerInv /\ SenderInv /\ ChatInv
  BY DEF Inv
<1>1. rep[a].at = "matched" /\ rep[a] \in RepliesType /\ rep[a].ack # "accepted"
  BY <1>0 DEF TakeSender, TypeOK, SenderInv, Accepted
<1>2. UNCHANGED <<snapshot, slot, req, outcome, grantVars>> /\ waiting' = waiting \ {rep[a].pick}
  BY DEF TakeSender
<1>3. CASE rep[a].pick \in waiting
  <2>1. rep' = [rep EXCEPT ![a] = [rep[a] EXCEPT !.at = "taken"]]
    BY <1>3 DEF TakeSender, Reply
  <2>2. TypeOK' /\ CallerInv'
    BY <1>0, <1>1, <1>2, <2>1 DEF TypeOK, CallerInv, RepliesType, ReplyPhases, grantVars
  <2>3. /\ rep'[a].at = "taken" /\ rep'[a].pick = rep[a].pick /\ rep'[a].ack = rep[a].ack
        /\ rep'[a].form = rep[a].form /\ rep'[a].chat = rep[a].chat
        /\ \A b \in Replies : b # a => rep'[b] = rep[b]
    BY <1>0, <1>1, <2>1 DEF TypeOK, RepliesType
  <2>4. \A b \in Replies : b # a /\ HasSender(b)' => HasSender(b) /\ rep[b].pick # rep[a].pick
    BY <1>0, <1>3, <2>3 DEF HasSender, Accepted, SenderInv
  <2>5. req[rep[a].pick] \notin {"idle", "announced"}
    BY <1>0, <1>1, <1>3 DEF CallerInv, RepliesType
  <2>6. SenderInv'
    BY <1>0, <1>1, <1>2, <2>3, <2>4, <2>5 DEF SenderInv, HasSender, Accepted
  <2>7. ChatInv'
    BY <1>0, <1>1, <2>3 DEF ChatInv, Accepted
  <2> QED
    BY <2>2, <2>6, <2>7 DEF Inv
<1>4. CASE rep[a].pick \notin waiting
  <2>1. rep' = [rep EXCEPT ![a] = [rep[a] EXCEPT !.at = "over", !.ack = "nothing"]]
    BY <1>4 DEF TakeSender, Ends, Reply
  <2>2. TypeOK' /\ CallerInv'
    BY <1>0, <1>1, <1>2, <2>1 DEF TypeOK, CallerInv, RepliesType, ReplyPhases, Acks, grantVars
  <2>3. rep'[a].at = "over" /\ rep'[a].ack = "nothing" /\ \A b \in Replies : b # a => rep'[b] = rep[b]
    BY <1>0, <1>1, <2>1 DEF TypeOK, RepliesType
  <2>4. SenderInv' /\ ChatInv'
    BY <1>0, <1>1, <1>2, <2>3 DEF SenderInv, ChatInv, HasSender, Accepted
  <2> QED
    BY <2>2, <2>4 DEF Inv
<1> QED
  BY <1>3, <1>4

\* resolve, its second half: the value is sent by the one reply that has the sender.
LEMMA SendStep == ASSUME Inv, NEW a \in Replies, SendDecision(a) PROVE Inv'
<1>0. TypeOK /\ CallerInv /\ SenderInv /\ ChatInv
  BY DEF Inv
<1>1. rep[a].at = "taken" /\ rep[a] \in RepliesType /\ rep[a].ack # "accepted"
  BY <1>0 DEF SendDecision, TypeOK, SenderInv, Accepted
<1>2. UNCHANGED <<queueVars, req, outcome, grantVars>>
  BY DEF SendDecision
<1>3. CASE Receiving(rep[a].pick)
  <2>1. /\ rep' = [rep EXCEPT ![a] = [rep[a] EXCEPT !.at = "sent", !.ack = "accepted"]]
        /\ slot' = [slot EXCEPT ![rep[a].pick] = rep[a].decision]
    BY <1>3 DEF SendDecision, Reply
  <2>2. TypeOK'
    BY <1>0, <1>1, <1>2, <2>1 DEF TypeOK, RepliesType, ReplyPhases, Acks, queueVars, grantVars
  <2>3. /\ rep'[a].at = "sent" /\ rep'[a].ack = "accepted" /\ rep'[a].pick = rep[a].pick
        /\ rep'[a].decision = rep[a].decision
        /\ rep'[a].form = rep[a].form /\ rep'[a].chat = rep[a].chat
        /\ \A b \in Replies : b # a => rep'[b] = rep[b]
    BY <1>0, <1>1, <2>1 DEF TypeOK, RepliesType
  <2>4. /\ slot'[rep[a].pick] = rep[a].decision
        /\ \A r \in Requests : r # rep[a].pick => slot'[r] = slot[r]
    BY <1>0, <1>1, <2>1 DEF TypeOK, RepliesType
  <2>5. CallerInv'
    <3>1. outcome[rep[a].pick] = "none"
      BY <1>0, <1>1, <1>3 DEF CallerInv, Receiving, RepliesType
    <3> QED
      BY <1>0, <1>2, <2>4, <3>1 DEF CallerInv, queueVars, Decisions
  <2>6. \A b \in Replies : HasSender(b)' => HasSender(b) /\ rep'[b].pick = rep[b].pick
    BY <1>1, <2>3 DEF HasSender, Accepted
  <2>7. SenderInv'
    <3>1. \A r \in Requests : slot'[r] # "none" =>
            \E b \in Replies : Accepted(b)' /\ rep'[b].pick = r /\ rep'[b].decision = slot'[r]
      <4> TAKE r \in Requests
      <4>1. CASE r = rep[a].pick
        BY <2>3, <2>4, <4>1 DEF Accepted
      <4>2. CASE r # rep[a].pick
        BY <1>0, <1>1, <2>3, <2>4, <4>2 DEF SenderInv, Accepted
      <4> QED
        BY <4>1, <4>2
    <3>2. \A b \in Replies : Accepted(b)' => rep'[b].at \in {"sent", "over"}
      BY <1>0, <2>3 DEF SenderInv, Accepted
    <3>3. \A b \in Replies : HasSender(b)' =>
            rep'[b].pick \notin waiting' /\ req'[rep'[b].pick] \notin {"idle", "announced"}
      BY <1>0, <1>2, <2>6 DEF SenderInv, queueVars
    <3>4. \A b, c \in Replies : (b # c /\ HasSender(b)' /\ HasSender(c)') => rep'[b].pick # rep'[c].pick
      BY <1>0, <2>6 DEF SenderInv
    <3> QED
      BY <3>1, <3>2, <3>3, <3>4 DEF SenderInv, HasSender, Accepted
  <2>8. ChatInv'
    BY <1>0, <1>1, <2>3 DEF ChatInv, Accepted
  <2> QED
    BY <2>2, <2>5, <2>7, <2>8 DEF Inv
<1>4. CASE ~Receiving(rep[a].pick)
  <2>1. rep' = [rep EXCEPT ![a] = [rep[a] EXCEPT !.at = "over", !.ack = "failed"]] /\ slot' = slot
    BY <1>4 DEF SendDecision, Ends, Reply
  <2>2. TypeOK' /\ CallerInv'
    BY <1>0, <1>1, <1>2, <2>1 DEF TypeOK, CallerInv, RepliesType, ReplyPhases, Acks, queueVars, grantVars
  <2>3. rep'[a].at = "over" /\ rep'[a].ack = "failed" /\ \A b \in Replies : b # a => rep'[b] = rep[b]
    BY <1>0, <1>1, <2>1 DEF TypeOK, RepliesType
  <2>4. SenderInv' /\ ChatInv'
    BY <1>0, <1>1, <1>2, <2>1, <2>3 DEF SenderInv, ChatInv, HasSender, Accepted, queueVars
  <2> QED
    BY <2>2, <2>4 DEF Inv
<1> QED
  BY <1>3, <1>4

\* The surface has its acknowledgement and grants what it grants.
LEMMA GrantStep == ASSUME Inv, NEW a \in Replies, AfterAccepted(a) PROVE Inv'
<1>0. TypeOK /\ CallerInv /\ SenderInv /\ ChatInv
  BY DEF Inv
<1>1. /\ rep[a].at = "sent" /\ rep[a] \in RepliesType
      /\ rep' = [rep EXCEPT ![a] = [rep[a] EXCEPT !.at = "over"]]
      /\ UNCHANGED <<queueVars, slot, req, outcome, mediumRisk>>
  BY <1>0 DEF AfterAccepted, Reply, TypeOK
<1>2. allowlist' \subseteq Names /\ widenedFor' \subseteq SessionScopes
  <2>1. ScopeOf[rep[a].pick] \in SessionScopes /\ rep[a].name \in Names
    BY <1>1, ApprovalsAssumption DEF RepliesType
  <2> QED
    BY <1>0, <2>1 DEF AfterAccepted, Widen, TypeOK
<1>3. TypeOK' /\ CallerInv'
  BY <1>0, <1>1, <1>2 DEF TypeOK, CallerInv, RepliesType, ReplyPhases, queueVars
<1>4. /\ rep'[a].at = "over" /\ rep'[a].ack = rep[a].ack /\ rep'[a].pick = rep[a].pick
      /\ rep'[a].decision = rep[a].decision
      /\ rep'[a].form = rep[a].form /\ rep'[a].chat = rep[a].chat
      /\ \A b \in Replies : b # a => rep'[b] = rep[b]
  BY <1>0, <1>1 DEF TypeOK, RepliesType
<1>5. SenderInv'
  BY <1>0, <1>1, <1>4 DEF SenderInv, HasSender, Accepted, queueVars
<1>6. ChatInv'
  BY <1>0, <1>4 DEF ChatInv, Accepted
<1> QED
  BY <1>3, <1>5, <1>6 DEF Inv

LEMMA NextInv == Inv /\ [ApprovalsNext]_vars => Inv'
<1> SUFFICES ASSUME Inv, [ApprovalsNext]_vars PROVE Inv'
  OBVIOUS
<1>1. CASE UNCHANGED vars
  BY <1>1 DEF vars, grantVars, Inv, TypeOK, CallerInv, SenderInv, ChatInv, HasSender, Accepted
<1>2. CASE ApprovalsNext
  BY <1>2, CallerSteps, LookupSteps, TakeStep, SendStep, GrantStep DEF ApprovalsNext
<1> QED
  BY <1>1, <1>2

LEMMA InvAlways == ApprovalsSpec => []Inv
  BY InitInv, NextInv, PTL DEF ApprovalsSpec

-----------------------------------------------------------------------------
(* The theorems.                                                           *)

\* Every variable keeps its type (security/pending.rs, Inner).
THEOREM ApprovalsTypeCorrect == ApprovalsSpec => []TypeOK
<1>1. Inv => TypeOK
  BY DEF Inv
<1> QED
  BY <1>1, InvAlways, PTL

\* Of all replies that found a request only one is acknowledged, and a caller that
\* goes on was given that reply's decision (PendingApprovals::resolve).
THEOREM OneResolverWins == ApprovalsSpec => []OnlyFirstResolverWins
<1>1. Inv => OnlyFirstResolverWins
  <2> SUFFICES ASSUME Inv PROVE OnlyFirstResolverWins
    OBVIOUS
  <2>1. \A r \in Requests : outcome[r] \in Decisions => slot[r] = outcome[r] /\ slot[r] # "none"
    BY DEF Inv, CallerInv, Decisions
  <2> QED
    BY <2>1 DEF Inv, SenderInv, HasSender, OnlyFirstResolverWins
<1> QED
  BY <1>1, InvAlways, PTL

\* No entry outlives its caller, however the wait ended (Cleanup::drop).
THEOREM NoPhantoms == ApprovalsSpec => []NoPhantomRequests
<1>1. Inv => NoPhantomRequests
  BY DEF Inv, CallerInv, NoPhantomRequests
<1> QED
  BY <1>1, InvAlways, PTL

\* A tool answered by name or by a bare verb was pending in the chat of the reply
\* (resolve_by_basename_in).
THEOREM ToolRepliesKeepToTheirChat == ApprovalsSpec => []ToolRepliesStayInTheirChat
<1>1. Inv => ToolRepliesStayInTheirChat
  BY DEF Inv, ChatInv, ToolRepliesStayInTheirChat
<1> QED
  BY <1>1, InvAlways, PTL

-----------------------------------------------------------------------------
(* The queue implements ApprovalContract, step by step.                    *)

\* One request moves in the contract, the others stand where they stood.
LEMMA ContractMove ==
    ASSUME NEW r \in Requests, NEW to, NEW v,
           Standing(r)' = to, VerdictOf(r)' = v,
           \A q \in Requests : q # r => Standing(q)' = Standing(q) /\ VerdictOf(q)' = VerdictOf(q)
    PROVE  Contract!Move(r, to, v)
BY DEF Contract!Move

LEMMA ContractStutter ==
    ASSUME \A q \in Requests : Standing(q)' = Standing(q) /\ VerdictOf(q)' = VerdictOf(q)
    PROVE  UNCHANGED Contract!vars
BY DEF Contract!vars

LEMMA CallerContract ==
    ASSUME Inv, NEW r \in Requests,
           \/ Announce(r) \/ AnnounceFails(r) \/ InsertWaiting(r) \/ InsertSnapshot(r)
           \/ ReceiveDecision(r) \/ Elapse(r) \/ AutoDeny(r) \/ Withdraw(r)
           \/ CleanWaiting(r) \/ CleanSnapshot(r) \/ ShellGateActs(r)
    PROVE  [Contract!Next]_(Contract!vars)
<1>0. TypeOK /\ CallerInv /\ SenderInv
  BY DEF Inv
<1>1. slot' = slot /\ \A q \in Requests : q # r => req'[q] = req[q] /\ outcome'[q] = outcome[q]
  BY <1>0 DEF Announce, AnnounceFails, InsertWaiting, InsertSnapshot, Elapse, ReceiveDecision, AutoDeny,
              Withdraw, CleanWaiting, CleanSnapshot, ShellGateActs, GoCaller, TypeOK
<1>2. \A q \in Requests : q # r => Standing(q)' = Standing(q) /\ VerdictOf(q)' = VerdictOf(q)
  BY <1>1 DEF Standing, VerdictOf
<1>3. CASE Announce(r) \/ AnnounceFails(r) \/ InsertSnapshot(r) \/ Elapse(r)
           \/ CleanWaiting(r) \/ CleanSnapshot(r) \/ ShellGateActs(r)
  <2>1. Standing(r)' = Standing(r) /\ VerdictOf(r)' = VerdictOf(r)
    <3>1. CASE Announce(r) \/ AnnounceFails(r)
      BY <1>0, <3>1 DEF Announce, AnnounceFails, GoCaller, TypeOK, Standing, VerdictOf
    <3>2. CASE InsertSnapshot(r) \/ Elapse(r)
      BY <1>0, <3>2 DEF InsertSnapshot, Elapse, GoCaller, TypeOK, Standing, VerdictOf
    <3>3. CASE CleanWaiting(r) \/ CleanSnapshot(r) \/ ShellGateActs(r)
      <4>1. /\ req[r] \in {"closing", "unlisting", "acting"}
            /\ req'[r] \in {"unlisting", "acting", "over"} /\ outcome' = outcome
        BY <1>0, <3>3 DEF CleanWaiting, CleanSnapshot, ShellGateActs, GoCaller, TypeOK
      <4>2. outcome[r] # "no_approver"
        BY <1>0, <4>1 DEF CallerInv
      <4> QED
        BY <4>1, <4>2 DEF Standing, VerdictOf
    <3> QED
      BY <1>3, <3>1, <3>2, <3>3
  <2> QED
    BY <1>2, <2>1, ContractStutter
<1>4. CASE InsertWaiting(r)
  <2>1. req[r] \in {"idle", "announced"} /\ req'[r] = "inserting"
    BY <1>0, <1>4 DEF InsertWaiting, GoCaller, TypeOK
  <2>2. slot[r] = "none"
    BY <1>0, <2>1 DEF SenderInv, HasSender
  <2>3. Standing(r) = "new" /\ Standing(r)' = "open" /\ VerdictOf(r)' = "none"
    BY <1>1, <2>1, <2>2 DEF Standing, VerdictOf
  <2>4. Contract!Open(r)
    BY <1>2, <2>3, ContractMove DEF Contract!Open
  <2> QED
    BY <2>4 DEF Contract!Next
<1>5. CASE ReceiveDecision(r)
  <2>1. /\ req[r] = "waiting" /\ slot[r] \in Decisions /\ slot[r] # "none"
        /\ req'[r] = "closing" /\ outcome'[r] = slot[r]
    BY <1>0, <1>5 DEF ReceiveDecision, GoCaller, TypeOK
  <2>2. Standing(r) = "decided" /\ VerdictOf(r) = slot[r]
    BY <2>1 DEF Standing, VerdictOf
  <2>3. Standing(r)' = "closed" /\ VerdictOf(r)' = slot[r]
    BY <2>1 DEF Standing, VerdictOf
  <2>4. Contract!HandOver(r)
    BY <1>2, <2>2, <2>3, ContractMove DEF Contract!HandOver
  <2> QED
    BY <2>4 DEF Contract!Next
<1>6. CASE AutoDeny(r)
  <2>1. req[r] = "elapsed" /\ HasDeadline /\ req'[r] = "closing" /\ outcome'[r] = "timeout"
    BY <1>0, <1>6 DEF AutoDeny, GoCaller, TypeOK, CallerInv
  <2>2. Standing(r) = "open" /\ Standing(r)' = "closed" /\ VerdictOf(r)' = "timeout"
    BY <2>1 DEF Standing, VerdictOf
  <2>3. Contract!Expire(r)
    BY <1>2, <2>1, <2>2, ContractMove DEF Contract!Expire
  <2> QED
    BY <2>3 DEF Contract!Next
<1>7. CASE Withdraw(r)
  <2>1. req[r] = "waiting" /\ req'[r] = "closing" /\ outcome'[r] = "withdrawn"
    BY <1>0, <1>7 DEF Withdraw, GoCaller, TypeOK
  <2>2. Standing(r) \in {"open", "decided"} /\ Standing(r)' = "closed" /\ VerdictOf(r)' = "withdrawn"
    BY <2>1 DEF Standing, VerdictOf
  <2>3. Contract!Withdraw(r)
    BY <1>2, <2>2, ContractMove DEF Contract!Withdraw
  <2> QED
    BY <2>3 DEF Contract!Next
<1> QED
  BY <1>3, <1>4, <1>5, <1>6, <1>7

LEMMA SendContract ==
    ASSUME Inv, NEW a \in Replies, SendDecision(a)
    PROVE  [Contract!Next]_(Contract!vars)
<1>0. TypeOK /\ SenderInv /\ rep[a] \in RepliesType
  BY DEF Inv, TypeOK
<1> PICK r \in Requests, d \in Decisions : r = rep[a].pick /\ d = rep[a].decision
  BY <1>0 DEF RepliesType
<1>1. r = rep[a].pick /\ d = rep[a].decision /\ rep[a].at = "taken"
  BY <1>0 DEF SendDecision
<1>2. req' = req /\ outcome' = outcome
  BY DEF SendDecision
<1>3. slot[r] = "none"
  BY <1>0, <1>1 DEF SenderInv, HasSender, Accepted
<1>4. CASE Receiving(r)
  <2>1. slot'[r] = d /\ \A q \in Requests : q # r => slot'[q] = slot[q]
    BY <1>0, <1>1, <1>4 DEF SendDecision, TypeOK
  <2>2. \A q \in Requests : q # r => Standing(q)' = Standing(q) /\ VerdictOf(q)' = VerdictOf(q)
    BY <1>2, <2>1 DEF Standing, VerdictOf
  <2>3. CASE req[r] = "elapsed"
    <3>1. Standing(r)' = Standing(r) /\ VerdictOf(r)' = VerdictOf(r)
      BY <1>2, <2>3 DEF Standing, VerdictOf
    <3> QED
      BY <2>2, <3>1, ContractStutter
  <2>4. CASE req[r] \in {"inserting", "waiting"}
    <3>1. Standing(r) = "open" /\ Standing(r)' = "decided" /\ VerdictOf(r)' = d
      BY <1>1, <1>2, <1>3, <2>1, <2>4 DEF Standing, VerdictOf, Decisions
    <3>2. Contract!Decide(r)
      BY <1>1, <2>2, <3>1, ContractMove DEF Contract!Decide
    <3> QED
      BY <1>1, <3>2 DEF Contract!Next
  <2> QED
    BY <1>4, <2>3, <2>4 DEF Receiving
<1>5. CASE ~Receiving(r)
  <2>1. slot' = slot
    BY <1>1, <1>5 DEF SendDecision
  <2> QED
    BY <1>2, <2>1, ContractStutter DEF Standing, VerdictOf
<1> QED
  BY <1>4, <1>5

\* What the queue promises without its liveness: the initial states of the detailed
\* specification are the contract's, and each of its steps is one of the contract's
\* or none.  A request is decided once, the decision is handed over unchanged, and
\* in its place only the deadline denies (request_decision_with, resolve, Cleanup).
THEOREM QueueKeepsTheContract ==
    ApprovalsSpec => Contract!Init /\ [][Contract!Next]_(Contract!vars)
<1>1. ApprovalsInit => Contract!Init
  BY DEF ApprovalsInit, Contract!Init, Standing, VerdictOf
<1>2. Inv /\ [ApprovalsNext]_vars => [Contract!Next]_(Contract!vars)
  <2> SUFFICES ASSUME Inv, [ApprovalsNext]_vars PROVE [Contract!Next]_(Contract!vars)
    OBVIOUS
  <2>1. ASSUME UNCHANGED <<slot, req, outcome>> PROVE UNCHANGED Contract!vars
    BY <2>1, ContractStutter DEF Standing, VerdictOf
  <2>2. CASE UNCHANGED vars
    BY <2>1, <2>2 DEF vars
  <2>3. ASSUME NEW a \in Replies,
               \/ ReplyById(a) \/ ReplyByName(a) \/ ReplyBare(a) \/ RefuseSender(a)
               \/ ReadScope(a) \/ Match(a) \/ TakeSender(a) \/ AfterAccepted(a)
        PROVE  UNCHANGED Contract!vars
    <3>1. UNCHANGED <<slot, req, outcome>>
      BY <2>3 DEF ReplyById, ReplyByName, ReplyBare, RefuseSender, ReadScope, Match, TakeSender,
                  AfterAccepted
    <3> QED
      BY <2>1, <3>1
  <2>4. CASE ApprovalsNext
    BY <2>3, <2>4, CallerContract, SendContract DEF ApprovalsNext
  <2> QED
    BY <2>2, <2>4
<1> QED
  BY <1>1, <1>2, InvAlways, PTL DEF ApprovalsSpec

-----------------------------------------------------------------------------
(***************************************************************************)
(* Twins.  A reply over the shell's queue goes by a name that was listed   *)
(* when it was typed; if it resolves another request than the one it was   *)
(* typed for, or than the one whose scope it read, that one has gone.      *)
(***************************************************************************)
Risky == {"MediumRisk", "HighRisk"}

Gone(t) == req[t] \in {"acting", "over"}
WasListed(t) == t \in snapshot \/ Gone(t)

ByName(a) == rep[a].form \in {"named", "bare"}
BareYes(a) == rep[a].form = "bare" /\ rep[a].decision # "Deny"
Held(a) == rep[a].at \in {"matched", "taken", "sent"} \/ Accepted(a)

\* The name the reply goes by was listed, and for a bare yes in its chat.
Heard(a) ==
    (rep[a].at \in {"looked", "scoped"} /\ ByName(a)) =>
        \E t \in Requests : /\ WasListed(t) /\ NameOf[t] = rep[a].name
                            /\ BareYes(a) => ChatOf[t] = rep[a].chat

\* A scope that is not the risk gate's was read from another request, or from none.
ScopeRead(a) ==
    /\ rep[a].at = "scoped" => ByName(a)
    /\ (rep[a].at = "scoped" /\ rep[a].decision # "Deny" /\ rep[a].scope \notin Risky) =>
          \E t, u \in Requests :
             /\ WasListed(t) /\ WasListed(u) /\ NameOf[t] = rep[a].name /\ NameOf[u] = rep[a].name
             /\ Gone(t) \/ t # u \/ ScopeOf[t] \notin Risky

\* What a reply resolves although it was meant for, or read from, another: that one has gone.
Strays(a) ==
    /\ (Held(a) /\ BareYes(a) /\ ChatOf[rep[a].pick] # rep[a].chat) =>
          \E t \in Requests : GoneTwin(rep[a].pick, t) /\ ChatOf[t] = rep[a].chat
    /\ (/\ Held(a) /\ ByName(a) /\ rep[a].decision # "Deny"
        /\ rep[a].scope \notin Risky /\ ScopeOf[rep[a].pick] \in Risky) =>
          \E t \in Requests : GoneTwin(rep[a].pick, t)

ReplyTwins(a) ==
    /\ ToolQueue \/ rep[a].form = "modal" \/ ByName(a)
    /\ Heard(a) /\ ScopeRead(a) /\ Strays(a)

TwinInv ==
    /\ IsFiniteSet(snapshot)
    /\ \A a \in Replies : ReplyTwins(a)
    /\ RiskGateWidensOnlyByATwin

\* What was listed, and what has gone, stays so.
LEMMA TwinsStay ==
    ASSUME NEW a \in Replies, ReplyTwins(a), rep'[a] = rep[a],
           \A t \in Requests : (WasListed(t) => WasListed(t)') /\ (Gone(t) => Gone(t)')
    PROVE  ReplyTwins(a)'
<1>1. \A r : \A t \in Requests : GoneTwin(r, t) => GoneTwin(r, t)'
  BY DEF GoneTwin, Gone
<1>2. /\ ByName(a)' = ByName(a) /\ BareYes(a)' = BareYes(a) /\ Held(a)' = Held(a)
  BY DEF ByName, BareYes, Held, Accepted
<1>3. Heard(a)' /\ ScopeRead(a)'
  BY <1>2 DEF ReplyTwins, Heard, ScopeRead
<1>4. Strays(a)'
  BY <1>1, <1>2 DEF ReplyTwins, Strays
<1> QED
  BY <1>2, <1>3, <1>4 DEF ReplyTwins

LEMMA CallerTwins ==
    ASSUME Inv, TwinInv, NEW r \in Requests,
           \/ Announce(r) \/ AnnounceFails(r) \/ InsertWaiting(r) \/ InsertSnapshot(r)
           \/ ReceiveDecision(r) \/ Elapse(r) \/ AutoDeny(r) \/ Withdraw(r)
           \/ CleanWaiting(r) \/ CleanSnapshot(r) \/ ShellGateActs(r)
    PROVE  TwinInv'
<1>0. TypeOK
  BY DEF Inv
<1>1. rep' = rep
  BY DEF Announce, AnnounceFails, InsertWaiting, InsertSnapshot, Elapse, ReceiveDecision, AutoDeny,
         Withdraw, CleanWaiting, CleanSnapshot, ShellGateActs
<1>2. widenedFor' \cap Risky \subseteq widenedFor
  BY DEF Announce, AnnounceFails, InsertWaiting, InsertSnapshot, Elapse, ReceiveDecision, AutoDeny,
         Withdraw, CleanWaiting, CleanSnapshot, ShellGateActs, Widen, grantVars, Risky
<1>3. IsFiniteSet(snapshot)'
  <2>1. snapshot' = snapshot \/ snapshot' = snapshot \cup {r} \/ snapshot' = snapshot \ {r}
    BY DEF Announce, AnnounceFails, InsertWaiting, InsertSnapshot, Elapse, ReceiveDecision, AutoDeny,
           Withdraw, CleanWaiting, CleanSnapshot, ShellGateActs, queueVars
  <2> QED
    BY <2>1, FS_AddElement, FS_RemoveElement DEF TwinInv
<1>4. /\ \A t \in Requests : t # r => (req'[t] = req[t] /\ (t \in snapshot => t \in snapshot'))
      /\ Gone(r) => Gone(r)'
      /\ WasListed(r) => WasListed(r)'
  <2>1. CASE CleanSnapshot(r)
    BY <1>0, <2>1 DEF CleanSnapshot, GoCaller, TypeOK, Gone, WasListed
  <2>2. CASE InsertSnapshot(r)
    BY <1>0, <2>2 DEF InsertSnapshot, GoCaller, TypeOK, Gone, WasListed
  <2>3. CASE ~CleanSnapshot(r) /\ ~InsertSnapshot(r)
    <3>1. snapshot' = snapshot
      BY <2>3 DEF Announce, AnnounceFails, InsertWaiting, Elapse, ReceiveDecision, AutoDeny,
                  Withdraw, CleanWaiting, ShellGateActs, queueVars
    <3>2. Gone(r) => Gone(r)'
      BY <1>0, <2>3 DEF Announce, AnnounceFails, InsertWaiting, Elapse, ReceiveDecision, AutoDeny,
                  Withdraw, CleanWaiting, ShellGateActs, GoCaller, TypeOK, Gone
    <3>3. \A t \in Requests : t # r => req'[t] = req[t]
      BY <1>0, <2>3 DEF Announce, AnnounceFails, InsertWaiting, Elapse, ReceiveDecision, AutoDeny,
                  Withdraw, CleanWaiting, ShellGateActs, GoCaller, TypeOK
    <3> QED
      BY <3>1, <3>2, <3>3 DEF WasListed
  <2> QED
    BY <2>1, <2>2, <2>3
<1>5. \A t \in Requests : (WasListed(t) => WasListed(t)') /\ (Gone(t) => Gone(t)')
  BY <1>4 DEF WasListed, Gone
<1>6. RiskGateWidensOnlyByATwin'
  <2>1. \A q, t \in Requests : GoneTwin(q, t) => GoneTwin(q, t)'
    BY <1>5 DEF GoneTwin, Gone
  <2> QED
    BY <1>2, <2>1 DEF TwinInv, RiskGateWidensOnlyByATwin, Risky
<1> QED
  BY <1>1, <1>3, <1>5, <1>6, TwinsStay DEF TwinInv

\* A reply that moves leaves the others, and nothing is listed or gone by it.
LEMMA OneReplyMoves ==
    ASSUME TwinInv, NEW a \in Replies, UNCHANGED <<snapshot, req>>,
           \A b \in Replies : b # a => rep'[b] = rep[b],
           ReplyTwins(a)', RiskGateWidensOnlyByATwin'
    PROVE  TwinInv'
<1>1. \A t \in Requests : (WasListed(t) => WasListed(t)') /\ (Gone(t) => Gone(t)')
  BY DEF WasListed, Gone
<1>2. \A b \in Replies : ReplyTwins(b)'
  BY <1>1, TwinsStay DEF TwinInv
<1> QED
  BY <1>2 DEF TwinInv

\* Nothing widens the allowlist but the last step of a reply.
LEMMA LookupTwins ==
    ASSUME Inv, TwinInv, NEW a \in Replies,
           \/ ReplyById(a) \/ ReplyByName(a) \/ ReplyBare(a) \/ RefuseSender(a)
           \/ ReadScope(a) \/ Match(a) \/ TakeSender(a) \/ SendDecision(a)
    PROVE  TwinInv'
<1>0. TypeOK /\ SenderInv /\ rep[a] \in RepliesType /\ ReplyTwins(a) /\ snapshot \subseteq Requests
  BY DEF Inv, TwinInv, TypeOK
<1>1. UNCHANGED <<snapshot, req, widenedFor>>
  BY DEF ReplyById, ReplyByName, ReplyBare, RefuseSender, ReadScope, Match, TakeSender, SendDecision,
         queueVars, grantVars
<1>2. RiskGateWidensOnlyByATwin'
  BY <1>1 DEF TwinInv, RiskGateWidensOnlyByATwin, GoneTwin
<1>3. \A t : (WasListed(t)' <=> WasListed(t)) /\ (Gone(t)' <=> Gone(t))
  BY <1>1 DEF WasListed, Gone
<1>4. \A r, t : GoneTwin(r, t)' <=> GoneTwin(r, t)
  BY <1>1 DEF GoneTwin
<1>5. \A b \in Replies : b # a => rep'[b] = rep[b]
  BY <1>0 DEF ReplyById, ReplyByName, ReplyBare, RefuseSender, ReadScope, Match, TakeSender,
              SendDecision, Reply, Ends, TypeOK
<1> SUFFICES ReplyTwins(a)'
  BY <1>1, <1>2, <1>5, OneReplyMoves
<1> USE DEF Reply, Ends
<1>6. CASE ReplyById(a)
  <2>1. PICK r \in Requests, d \in Decisions, form \in {"modal", "handle"},
             at \in {"looked", "matched"} :
           /\ form = "handle" => ToolQueue
           /\ rep' = [rep EXCEPT ![a] = [Typed(form, NoChat, d) EXCEPT
                                           !.at = at, !.pick = r, !.name = NameOf[r]]]
    BY <1>6 DEF ReplyById
  <2>2. rep'[a].form = form /\ rep'[a].at \in {"looked", "matched"}
    BY <1>0, <2>1 DEF TypeOK, Typed
  <2> QED
    BY <2>1, <2>2 DEF ReplyTwins, Heard, ScopeRead, Strays, ByName, BareYes
<1>7. CASE ReplyByName(a)
  <2>1. PICK c \in Chats, q \in snapshot, d \in Decisions, form \in {"tool", "named"} :
           /\ form = "tool" => ToolQueue
           /\ \E chat \in {c, NoChat} :
                 rep' = [rep EXCEPT ![a] = [Typed(form, chat, d) EXCEPT !.name = NameOf[q]]]
    BY <1>7 DEF ReplyByName, Decisions
  <2>2. /\ rep'[a].form = form /\ rep'[a].at = "looked" /\ rep'[a].ack = "none"
        /\ rep'[a].name = NameOf[q]
    BY <1>0, <2>1 DEF TypeOK, Typed
  <2>3. q \in Requests /\ WasListed(q)
    BY <1>0 DEF WasListed
  <2> QED
    BY <1>3, <2>1, <2>2, <2>3
       DEF ReplyTwins, Heard, ScopeRead, Strays, ByName, BareYes, Held, Accepted
<1>8. CASE ReplyBare(a)
  <2>1. PICK c \in Chats, q \in snapshot, d \in Decisions, form \in {"bareTool", "bare"} :
           /\ form = "bareTool" => ToolQueue
           /\ form = "bare" /\ d # "Deny" => ChatOf[q] = c
           /\ rep' = [rep EXCEPT ![a] = [Typed(form, c, d) EXCEPT !.name = NameOf[q]]]
    BY <1>8 DEF ReplyBare, Decisions, AnswerableHere
  <2>2. /\ rep'[a].form = form /\ rep'[a].at = "looked" /\ rep'[a].ack = "none"
        /\ rep'[a].name = NameOf[q] /\ rep'[a].chat = c /\ rep'[a].decision = d
    BY <1>0, <2>1 DEF TypeOK, Typed
  <2>3. q \in Requests /\ WasListed(q)
    BY <1>0 DEF WasListed
  <2> QED
    BY <1>3, <2>1, <2>2, <2>3
       DEF ReplyTwins, Heard, ScopeRead, Strays, ByName, BareYes, Held, Accepted
<1>9. CASE RefuseSender(a)
  <2>1. rep'[a].at = "over" /\ rep'[a].ack = "unauthorized" /\ rep'[a].form = rep[a].form
    BY <1>0, <1>9 DEF RefuseSender, TypeOK, RepliesType
  <2> QED
    BY <1>0, <2>1 DEF ReplyTwins, Heard, ScopeRead, Strays, ByName, BareYes, Held, Accepted
<1>10. CASE ReadScope(a)
  <2> DEFINE found == Named(rep[a].name)
  <2>1. PICK scope :
           /\ rep' = [rep EXCEPT ![a] = [rep[a] EXCEPT !.at = "scoped", !.scope = scope]]
           /\ (rep[a].decision # "Deny" /\ Cardinality(found) = 1)
                 => scope = ScopeOf[CHOOSE q \in found : TRUE]
    BY <1>10 DEF ReadScope
  <2>2. /\ rep[a].at = "looked" /\ ByName(a) /\ rep[a].ack # "accepted"
    BY <1>0, <1>10 DEF ReadScope, ByName, SenderInv, Accepted
  <2>3. /\ rep'[a].at = "scoped" /\ rep'[a].ack = rep[a].ack /\ rep'[a].scope = scope
        /\ rep'[a].form = rep[a].form /\ rep'[a].name = rep[a].name
        /\ rep'[a].chat = rep[a].chat /\ rep'[a].decision = rep[a].decision
    BY <1>0, <2>1 DEF TypeOK, RepliesType
  <2>4. PICK t \in Requests : /\ WasListed(t) /\ NameOf[t] = rep[a].name
                              /\ BareYes(a) => ChatOf[t] = rep[a].chat
    BY <1>0, <2>2 DEF ReplyTwins, Heard
  <2>5. Heard(a)'
    BY <1>3, <2>3, <2>4 DEF Heard, BareYes
  <2>6. ASSUME rep[a].decision # "Deny", scope \notin Risky
        PROVE  \E v, u \in Requests :
                  /\ WasListed(v) /\ WasListed(u) /\ NameOf[v] = rep[a].name /\ NameOf[u] = rep[a].name
                  /\ Gone(v) \/ v # u \/ ScopeOf[v] \notin Risky
    <3>1. CASE Gone(t)
      BY <2>4, <3>1
    <3>2. CASE \E u \in found : u # t
      BY <1>0, <2>4, <3>2 DEF Named, WasListed
    <3>3. CASE ~Gone(t) /\ ~\E u \in found : u # t
      <4>1. found = {t}
        BY <2>4, <3>3 DEF Named, WasListed
      <4>2. Cardinality(found) = 1 /\ (CHOOSE q \in found : TRUE) = t
        BY <4>1, FS_Singleton
      <4> QED
        BY <2>1, <2>4, <2>6, <4>2
    <3> QED
      BY <3>1, <3>2, <3>3
  <2>7. ScopeRead(a)'
    BY <1>3, <2>2, <2>3, <2>6 DEF ScopeRead, ByName
  <2>8. Strays(a)'
    BY <2>2, <2>3 DEF Strays, Held, Accepted
  <2> QED
    BY <2>2, <2>3, <2>5, <2>7, <2>8 DEF ReplyTwins, ByName
<1>11. CASE Match(a)
  <2>1. /\ rep[a].at \in {"looked", "scoped"}
        /\ rep[a].at = "scoped" \/ rep[a].form \in {"tool", "bareTool", "handle"}
    BY <1>11 DEF Match
  <2>2. CASE Cardinality(Candidates(a)) = 1
    <3>1. PICK p : Candidates(a) = {p}
      <4>1. IsFiniteSet(Candidates(a))
        BY FS_Subset DEF TwinInv, Candidates, Named
      <4> QED
        BY <2>2, <4>1, FS_Singleton
    <3>2. rep' = [rep EXCEPT ![a] = [rep[a] EXCEPT !.at = "matched", !.pick = p]]
      BY <1>11, <2>2, <3>1 DEF Match
    <3>3. p \in snapshot /\ p \in Requests /\ NameOf[p] = rep[a].name
      BY <1>0, <3>1 DEF Candidates, Named
    <3>4. /\ rep'[a].at = "matched" /\ rep'[a].ack = rep[a].ack /\ rep'[a].scope = rep[a].scope
          /\ rep'[a].form = rep[a].form /\ rep'[a].name = rep[a].name
          /\ rep'[a].chat = rep[a].chat /\ rep'[a].decision = rep[a].decision /\ rep'[a].pick = p
      BY <1>0, <3>2, <3>3 DEF TypeOK, RepliesType
    <3>5. ASSUME ByName(a), NEW t \in Requests, WasListed(t), NameOf[t] = rep[a].name, t # p
          PROVE  GoneTwin(p, t)
      <4>1. t \notin snapshot
        BY <3>1, <3>5 DEF Candidates, Named, ByName
      <4> QED
        BY <3>3, <3>5, <4>1 DEF WasListed, Gone, GoneTwin
    <3>6. ~Gone(p)
      BY <3>3 DEF Inv, CallerInv, Gone
    <3>7. ASSUME BareYes(a), ChatOf[p] # rep[a].chat
          PROVE  \E t \in Requests : GoneTwin(p, t) /\ ChatOf[t] = rep[a].chat
      <4>1. ByName(a)
        BY <3>7 DEF BareYes, ByName
      <4>2. PICK t \in Requests : /\ WasListed(t) /\ NameOf[t] = rep[a].name
                                  /\ ChatOf[t] = rep[a].chat
        BY <1>0, <2>1, <3>7, <4>1 DEF ReplyTwins, Heard
      <4> QED
        BY <3>5, <3>7, <4>1, <4>2
    <3>8. ASSUME ByName(a), rep[a].decision # "Deny", rep[a].scope \notin Risky, ScopeOf[p] \in Risky
          PROVE  \E t \in Requests : GoneTwin(p, t)
      <4>1. rep[a].at = "scoped"
        BY <2>1, <3>8 DEF ByName
      <4>2. PICK t, u \in Requests :
               /\ WasListed(t) /\ WasListed(u) /\ NameOf[t] = rep[a].name /\ NameOf[u] = rep[a].name
               /\ Gone(t) \/ t # u \/ ScopeOf[t] \notin Risky
        BY <1>0, <3>8, <4>1 DEF ReplyTwins, ScopeRead
      <4>3. t # p \/ u # p
        BY <3>6, <3>8, <4>2
      <4> QED
        BY <3>5, <3>8, <4>2, <4>3
    <3>9. Strays(a)'
      BY <1>4, <3>4, <3>7, <3>8 DEF Strays, ByName, BareYes
    <3> QED
      BY <1>0, <3>4, <3>9 DEF ReplyTwins, Heard, ScopeRead, ByName
  <2>3. CASE Cardinality(Candidates(a)) # 1
    <3>1. rep'[a].at = "over" /\ rep'[a].ack = "nothing" /\ rep'[a].form = rep[a].form
      <4>1. rep' = [rep EXCEPT ![a] = [rep[a] EXCEPT !.at = "over", !.ack = "nothing"]]
        BY <1>11, <2>3 DEF Match
      <4> QED
        BY <1>0, <4>1 DEF TypeOK, RepliesType
    <3> QED
      BY <1>0, <3>1 DEF ReplyTwins, Heard, ScopeRead, Strays, ByName, BareYes, Held, Accepted
  <2> QED
    BY <2>2, <2>3
<1>12. CASE TakeSender(a) \/ SendDecision(a)
  <2>1. rep[a].at \in {"matched", "taken"}
    BY <1>12 DEF TakeSender, SendDecision
  <2>2. /\ rep'[a].at \in {"taken", "sent", "over"} /\ Held(a)
        /\ rep'[a].form = rep[a].form /\ rep'[a].chat = rep[a].chat /\ rep'[a].pick = rep[a].pick
        /\ rep'[a].decision = rep[a].decision /\ rep'[a].scope = rep[a].scope
    <3>1. \E at \in {"taken", "sent", "over"} : \E ack :
             rep' = [rep EXCEPT ![a] = [rep[a] EXCEPT !.at = at, !.ack = ack]]
      <4>1. \/ rep' = [rep EXCEPT ![a] = [rep[a] EXCEPT !.at = "taken"]]
            \/ rep' = [rep EXCEPT ![a] = [rep[a] EXCEPT !.at = "sent", !.ack = "accepted"]]
            \/ rep' = [rep EXCEPT ![a] = [rep[a] EXCEPT !.at = "over", !.ack = "nothing"]]
            \/ rep' = [rep EXCEPT ![a] = [rep[a] EXCEPT !.at = "over", !.ack = "failed"]]
        BY <1>12 DEF TakeSender, SendDecision
      <4>2. [rep[a] EXCEPT !.at = "taken"] = [rep[a] EXCEPT !.at = "taken", !.ack = rep[a].ack]
        BY <1>0 DEF RepliesType
      <4> QED
        BY <4>1, <4>2
    <3> QED
      BY <1>0, <2>1, <3>1 DEF TypeOK, RepliesType, Held
  <2>3. Strays(a)'
    BY <1>0, <1>4, <2>2 DEF ReplyTwins, Strays, ByName, BareYes
  <2> QED
    BY <1>0, <2>2, <2>3 DEF ReplyTwins, Heard, ScopeRead, ByName
<1> QED
  BY <1>6, <1>7, <1>8, <1>9, <1>10, <1>11, <1>12

\* The surface that has its acknowledgement widens for the risk gate only by a twin.
LEMMA GrantTwins == ASSUME Inv, TwinInv, NEW a \in Replies, AfterAccepted(a) PROVE TwinInv'
<1>0. TypeOK /\ rep[a] \in RepliesType /\ ReplyTwins(a) /\ rep[a].at = "sent"
  BY DEF Inv, TwinInv, TypeOK, AfterAccepted
<1>1. UNCHANGED <<snapshot, req>> /\ rep' = [rep EXCEPT ![a] = [rep[a] EXCEPT !.at = "over"]]
  BY DEF AfterAccepted, Reply, queueVars
<1>2. \A b \in Replies : b # a => rep'[b] = rep[b]
  BY <1>0, <1>1 DEF TypeOK
<1>3. /\ rep'[a].at = "over" /\ Held(a)
      /\ rep'[a].form = rep[a].form /\ rep'[a].chat = rep[a].chat /\ rep'[a].pick = rep[a].pick
      /\ rep'[a].decision = rep[a].decision /\ rep'[a].scope = rep[a].scope
  BY <1>0, <1>1 DEF TypeOK, RepliesType, Held
<1>4. \A r, t : GoneTwin(r, t)' <=> GoneTwin(r, t)
  BY <1>1 DEF GoneTwin
<1>5. ReplyTwins(a)'
  <2>1. Strays(a)'
    BY <1>0, <1>3, <1>4 DEF ReplyTwins, Strays, ByName, BareYes
  <2> QED
    BY <1>0, <1>3, <2>1 DEF ReplyTwins, Heard, ScopeRead, ByName
<1>6. RiskGateWidensOnlyByATwin'
  <2>1. CASE widenedFor' \cap Risky \subseteq widenedFor
    BY <1>4, <2>1 DEF TwinInv, RiskGateWidensOnlyByATwin, Risky
  <2>2. CASE ~(widenedFor' \cap Risky \subseteq widenedFor)
    <3>1. /\ ~ToolQueue /\ rep[a].decision = "Session" /\ ScopeOf[rep[a].pick] \in Risky
          /\ rep[a].form # "modal" /\ rep[a].scope \notin Risky
      BY <2>2 DEF AfterAccepted, Widen, Risky
    <3>2. ByName(a)
      BY <1>0, <3>1 DEF ReplyTwins
    <3>3. \E t \in Requests : GoneTwin(rep[a].pick, t)
      BY <1>0, <1>3, <3>1, <3>2 DEF ReplyTwins, Strays
    <3>4. rep[a].pick \in Requests
      BY <1>0 DEF RepliesType
    <3> QED
      BY <1>4, <3>1, <3>3, <3>4 DEF RiskGateWidensOnlyByATwin, Risky
  <2> QED
    BY <2>1, <2>2
<1> QED
  BY <1>1, <1>2, <1>5, <1>6, OneReplyMoves

LEMMA InitTwins == ApprovalsInit => TwinInv
<1> SUFFICES ASSUME ApprovalsInit PROVE TwinInv
  OBVIOUS
<1>1. IsFiniteSet(snapshot)
  BY FS_EmptySet DEF ApprovalsInit
<1>2. \A a \in Replies : rep[a].at = "idle" /\ rep[a].form = "modal" /\ rep[a].ack = "none"
  BY DEF ApprovalsInit, Typed
<1>3. RiskGateWidensOnlyByATwin
  BY DEF ApprovalsInit, RiskGateWidensOnlyByATwin
<1> QED
  BY <1>1, <1>2, <1>3
     DEF TwinInv, ReplyTwins, Heard, ScopeRead, Strays, ByName, BareYes, Held, Accepted

LEMMA NextTwins == Inv /\ TwinInv /\ [ApprovalsNext]_vars => TwinInv'
<1> SUFFICES ASSUME Inv, TwinInv, [ApprovalsNext]_vars PROVE TwinInv'
  OBVIOUS
<1>1. CASE UNCHANGED vars
  <2>1. UNCHANGED <<rep, snapshot, req, widenedFor>>
    BY <1>1 DEF vars, grantVars
  <2>2. \A t \in Requests : (WasListed(t) => WasListed(t)') /\ (Gone(t) => Gone(t)')
    BY <2>1 DEF WasListed, Gone
  <2>3. \A a \in Replies : ReplyTwins(a)'
    BY <2>1, <2>2, TwinsStay DEF TwinInv
  <2>4. RiskGateWidensOnlyByATwin'
    BY <2>1 DEF TwinInv, RiskGateWidensOnlyByATwin, GoneTwin
  <2> QED
    BY <2>1, <2>3, <2>4 DEF TwinInv
<1>2. CASE ApprovalsNext
  BY <1>2, CallerTwins, LookupTwins, GrantTwins DEF ApprovalsNext
<1> QED
  BY <1>1, <1>2

\* Over the shell's queue a bare yes approves a request of another chat only when the
\* one it was typed for has gone in between (try_handle_reply, resolve_by_basename).
THEOREM BareRepliesStrayByATwin == ApprovalsSpec => []BareRepliesStrayOnlyToATwin
<1>1. TwinInv => BareRepliesStrayOnlyToATwin
  BY DEF TwinInv, ReplyTwins, Strays, Held, BareYes, BareRepliesStrayOnlyToATwin
<1> QED
  BY <1>1, InitInv, NextInv, InitTwins, NextTwins, PTL DEF ApprovalsSpec

\* An answer to the risk gate touches the allowlist only when a request of the same
\* command was listed at one of the surface's lookups and had gone by the next
\* (handle_parsed).
THEOREM RiskGateWidensByATwin == ApprovalsSpec => []RiskGateWidensOnlyByATwin
<1>1. TwinInv => RiskGateWidensOnlyByATwin
  BY DEF TwinInv
<1> QED
  BY <1>1, InitInv, NextInv, InitTwins, NextTwins, PTL DEF ApprovalsSpec
=============================================================================
