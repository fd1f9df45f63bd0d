------------------------- MODULE CronScheduler_proofs -------------------------
(***************************************************************************)
(* The scheduler's types, one run of a job at a time, and fired one-shots  *)
(* that stay down, for every value of the constants.                       *)
(***************************************************************************)
EXTENDS CronScheduler, FiniteSetTheorems, TLAPS

-----------------------------------------------------------------------------
(* The helpers on schedules and rows.                                      *)

LEMMA NextRunNat ==
    ASSUME NEW s \in Schedules, NEW from \in Nat
    PROVE  NextRun(s, from) \subseteq Nat
<1>1. /\ s.kind \in {"At", "Every", "Cron"} /\ s.n \in Nat /\ s.times \subseteq Nat
  BY CronAssumption
<1> QED
  BY <1>1 DEF NextRun

LEMMA NextRunLater ==
    ASSUME NEW r \in RowType, ~OneShot(r), NEW from \in Nat, NEW t \in NextRun(r.sched, from)
    PROVE  t > from
<1>1. /\ r.sched.kind \in {"Every", "Cron"} /\ r.sched.n \in Nat
      /\ r.sched.kind = "Every" => r.sched.n > 0
  BY CronAssumption DEF RowType, OneShot
<1> QED
  BY <1>1 DEF NextRun

LEMMA ChosenNext ==
    ASSUME NEW s, NEW from, NextRun(s, from) # {}
    PROVE  (CHOOSE t \in NextRun(s, from) : TRUE) \in NextRun(s, from)
  OBVIOUS

LEMMA DisabledRow ==
    ASSUME NEW r \in RowType \cup {NoRow}
    PROVE  Disabled(r) \in RowType \cup {NoRow}
<1> CASE r = NoRow
  BY DEF Disabled
<1> CASE r # NoRow
  BY DEF Disabled, RowType
<1> QED
  OBVIOUS

LEMMA MovedRow ==
    ASSUME NEW r \in RowType \cup {NoRow}, NEW s \in Schedules, NEW from \in Nat
    PROVE  Moved(r, s, from) \in RowType \cup {NoRow}
<1> CASE r = NoRow \/ NextRun(s, from) = {}
  BY DEF Moved
<1> CASE r # NoRow /\ NextRun(s, from) # {}
  <2> DEFINE t == CHOOSE u \in NextRun(s, from) : TRUE
  <2>1. t \in Nat
    BY ChosenNext, NextRunNat
  <2>2. Moved(r, s, from) = [r EXCEPT !.next = t]
    BY DEF Moved
  <2> HIDE DEF t
  <2> QED
    BY <2>1, <2>2 DEF RowType
<1> QED
  OBVIOUS

LEMMA FirstRun ==
    ASSUME NEW s \in Schedules, now \in Nat, Valid(s)
    PROVE  /\ First(s) \in Nat
           /\ s.kind = "At" => First(s) = s.n /\ s.n > now
<1>1. First(s) \in NextRun(s, now)
  BY ChosenNext DEF First, Valid
<1>2. NextRun(s, now) \subseteq Nat
  BY NextRunNat
<1>3. s.kind = "At" => NextRun(s, now) = {s.n}
  BY DEF NextRun
<1> QED
  BY <1>1, <1>2, <1>3 DEF Valid

\* A row as an edit leaves it.
LEMMA PatchedRow ==
    ASSUME NEW r \in RowType, NEW s \in Schedules \cup {Keep}, NEW enabled \in BOOLEAN \cup {Keep},
           now \in Nat, s # Keep => Valid(s)
    PROVE  Patched(r, s, enabled) \in RowType
<1> DEFINE q == IF s = Keep THEN r ELSE [r EXCEPT !.sched = s, !.next = First(s)]
<1>1. q \in RowType
  <2>1. CASE s = Keep
    BY <2>1
  <2>2. CASE s # Keep
    <3>1. s \in Schedules /\ First(s) \in Nat /\ (s.kind = "Every" => s.n > 0)
      BY <2>2, FirstRun DEF Valid
    <3> QED
      BY <2>2, <3>1 DEF RowType
  <2> QED
    BY <2>1, <2>2
<1>2. Patched(r, s, enabled) = IF enabled = Keep THEN q ELSE [q EXCEPT !.enabled = enabled]
  BY DEF Patched
<1> HIDE DEF q
<1> QED
  BY <1>1, <1>2 DEF RowType

LEMMA ResultRow ==
    ASSUME TypeOK, NEW j \in Jobs, NEW r \in RowType, NEW ok \in BOOLEAN
    PROVE  Result(j, r, ok) \in RowType \cup {NoRow}
<1>1. row[j] \in RowType \cup {NoRow} /\ now \in Nat /\ r.sched \in Schedules
  BY DEF TypeOK, RowType, Instants
<1>2. /\ Disabled(row[j]) \in RowType \cup {NoRow}
      /\ Moved(row[j], r.sched, now) \in RowType \cup {NoRow}
  BY <1>1, DisabledRow, MovedRow
<1> QED
  BY <1>2 DEF Result

-----------------------------------------------------------------------------
(* Types.                                                                  *)

\* The jobs a batch is executing.
Crowd(b) == {k \in Jobs : item[b][k].at \in Working}

LEMMA FiniteJobs == IsFiniteSet(Jobs)
<1>1. 1 \in Int /\ MaxJobs \in Int
  BY CronAssumption
<1> QED
  BY <1>1, FS_Interval DEF Jobs

LEMMA SmallerCrowd ==
    ASSUME NEW S \in SUBSET Jobs, NEW T, T \subseteq S, Cardinality(S) <= MaxConcurrent
    PROVE  Cardinality(T) <= MaxConcurrent
<1>1. IsFiniteSet(Jobs)
  BY FiniteJobs
<1>2. IsFiniteSet(S)
  BY <1>1, FS_Subset
<1>3. IsFiniteSet(T) /\ Cardinality(T) <= Cardinality(S)
  BY <1>2, FS_Subset
<1>4. Cardinality(S) \in Nat /\ Cardinality(T) \in Nat
  BY <1>2, <1>3, FS_CardinalityType
<1> QED
  BY <1>3, <1>4, CronAssumption

\* A step that puts one job of a batch elsewhere, and a new one at work only
\* where there is room, keeps the type of the batches.
LEMMA PutKeeps ==
    ASSUME TypeOK, NEW b \in Batches, NEW j \in Jobs, NEW i \in ItemType, Put(b, j, i),
           \/ i.at \notin Working
           \/ item[b][j].at \in Working
           \/ Cardinality(Crowd(b)) < MaxConcurrent
    PROVE  /\ item' \in [Batches -> [Jobs -> ItemType]]
           /\ \A c \in Batches : Cardinality(Crowd(c)') <= MaxConcurrent
<1>0. item \in [Batches -> [Jobs -> ItemType]]
  BY DEF TypeOK, ItemType
<1>1. item' = [item EXCEPT ![b] = [item[b] EXCEPT ![j] = i]]
  BY DEF Put
<1>2. item' \in [Batches -> [Jobs -> ItemType]]
  BY <1>0, <1>1
<1>3. ASSUME NEW c \in Batches PROVE Cardinality(Crowd(c)') <= MaxConcurrent
  <2>1. Cardinality(Crowd(c)) <= MaxConcurrent
    BY DEF TypeOK, Crowd
  <2>2. Crowd(c) \in SUBSET Jobs
    BY DEF Crowd
  <2>3. CASE Crowd(c)' \subseteq Crowd(c)
    BY <2>1, <2>2, <2>3, SmallerCrowd
  <2>4. CASE ~(Crowd(c)' \subseteq Crowd(c))
    <3>1. c = b /\ i.at \in Working /\ item[b][j].at \notin Working
      BY <2>4, <1>0, <1>1 DEF Crowd
    <3>2. Crowd(b)' = Crowd(b) \cup {j} /\ j \notin Crowd(b)
      BY <3>1, <1>0, <1>1 DEF Crowd
    <3>3. IsFiniteSet(Crowd(b))
      BY <2>2, <3>1, FiniteJobs, FS_Subset
    <3>4. Cardinality(Crowd(b)') = Cardinality(Crowd(b)) + 1
      BY <3>2, <3>3, FS_AddElement
    <3>5. Cardinality(Crowd(b)) \in Nat
      BY <3>3, FS_CardinalityType
    <3> QED
      BY <3>1, <3>4, <3>5, CronAssumption
  <2> QED
    BY <2>3, <2>4
<1> QED
  BY <1>2, <1>3

\* The types of a batch's action on a job, but for those of the item itself.
LEMMA PutTypes ==
    ASSUME TypeOK, NEW b \in Batches, NEW j \in Jobs, NEW i \in ItemType, Put(b, j, i),
           \/ i.at \notin Working
           \/ item[b][j].at \in Working
           \/ Cardinality(Crowd(b)) < MaxConcurrent,
           UNCHANGED <<now, added, poll, byHand, bounds>>,
           row' \in [Jobs -> RowType \cup {NoRow}], claimed' \subseteq Jobs,
           settled' \subseteq Jobs \X Nat, again' \subseteq settled'
    PROVE  TypeOK'
<1>1. /\ item' \in [Batches -> [Jobs -> ItemType]]
      /\ \A c \in Batches : Cardinality(Crowd(c)') <= MaxConcurrent
  BY PutKeeps
<1> QED
  BY <1>1 DEF TypeOK, ItemType, Crowd, bounds

LEMMA TypesAtFirst == CronInit => TypeOK
<1> SUFFICES ASSUME CronInit PROVE TypeOK
  OBVIOUS
<1>1. \A b \in Batches : {j \in Jobs : item[b][j].at \in Working} = {}
  BY DEF CronInit, NoItem, Working
<1>2. ASSUME NEW b \in Batches
      PROVE  Cardinality({j \in Jobs : item[b][j].at \in Working}) <= MaxConcurrent
  <2>1. Cardinality({}) <= MaxConcurrent
    BY FS_EmptySet, CronAssumption
  <2> QED
    BY <1>1, <2>1, Zenon
<1>3. item \in [Batches -> [Jobs -> ItemType]]
  BY DEF CronInit, ItemType
<1>4. /\ Idle.on \in BOOLEAN /\ Idle.at \in Instants /\ DOMAIN Idle.rows = {}
      /\ now \in Instants
  BY CronAssumption DEF CronInit, Idle, Instants
<1> QED
  BY <1>2, <1>3, <1>4, CronAssumption DEF CronInit, TypeOK

LEMMA TypesOfDispatch ==
    ASSUME TypeOK, NEW failing \in BOOLEAN, Dispatch(failing)
    PROVE  TypeOK'
<1> DEFINE stale == {j \in DOMAIN poll.rows : Stale(poll.rows[j], poll.at)}
           fresh == DOMAIN poll.rows \ stale
           skipped == IF failing THEN {} ELSE stale
<1>0. /\ row' = [j \in Jobs |-> IF j \in skipped THEN Skipped(j) ELSE row[j]]
      /\ settled' = settled \cup UNION {Firing(j, poll.rows[j]) : j \in skipped}
      /\ poll' = Idle
      /\ UNCHANGED <<now, added, claimed, byHand, bounds, again>>
  BY DEF Dispatch
<1>1. skipped \subseteq Jobs /\ \A j \in skipped : poll.rows[j] \in RowType
  BY DEF TypeOK
<1>2. row' \in [Jobs -> RowType \cup {NoRow}]
  <2>1. ASSUME NEW j \in skipped PROVE Skipped(j) \in RowType \cup {NoRow}
    <3>1. /\ row[j] \in RowType \cup {NoRow} /\ poll.rows[j].sched \in Schedules
          /\ poll.at \in Nat
      BY <1>1 DEF TypeOK, RowType, Instants
    <3> QED
      BY <3>1, DisabledRow, MovedRow DEF Skipped
  <2> QED
    BY <1>0, <2>1 DEF TypeOK
<1>3. settled' \subseteq Jobs \X Nat
  <2>1. ASSUME NEW j \in skipped PROVE Firing(j, poll.rows[j]) \subseteq Jobs \X Nat
    BY <1>1 DEF Firing, RowType
  <2> QED
    BY <1>0, <2>1 DEF TypeOK
<1>4. again' \subseteq settled'
  BY <1>0 DEF TypeOK
<1>5. /\ item' \in [Batches -> [Jobs -> ItemType]]
      /\ \A c \in Batches : Crowd(c)' \subseteq Crowd(c)
  <2>1. CASE UNCHANGED item
    BY <2>1 DEF TypeOK, ItemType, Crowd
  <2>2. CASE \E b \in Batches :
               item' = [item EXCEPT ![b] = [j \in Jobs |->
                 IF j \in fresh THEN [at |-> "queued", row |-> poll.rows[j]] ELSE NoItem]]
    <3>1. PICK b \in Batches :
               item' = [item EXCEPT ![b] = [j \in Jobs |->
                 IF j \in fresh THEN [at |-> "queued", row |-> poll.rows[j]] ELSE NoItem]]
      BY <2>2
    <3>2. \A j \in fresh : poll.rows[j] \in RowType
      BY DEF TypeOK
    <3>3. [j \in Jobs |-> IF j \in fresh THEN [at |-> "queued", row |-> poll.rows[j]] ELSE NoItem]
             \in [Jobs -> ItemType]
      BY <3>2 DEF ItemType, NoItem
    <3>4. \A j \in Jobs : item'[b][j].at \notin Working
      BY <3>1 DEF TypeOK, NoItem, Working
    <3> QED
      BY <3>1, <3>3, <3>4 DEF TypeOK, ItemType, Crowd
  <2> QED
    BY <2>1, <2>2 DEF Dispatch
<1>6. \A c \in Batches : Cardinality(Crowd(c)') <= MaxConcurrent
  BY <1>5, SmallerCrowd DEF TypeOK, Crowd
<1>7. Idle.on \in BOOLEAN /\ Idle.at \in Instants /\ DOMAIN Idle.rows = {}
  BY CronAssumption DEF Idle, Instants
<1>8. /\ poll'.on \in BOOLEAN /\ poll'.at \in Instants /\ DOMAIN poll'.rows \subseteq Jobs
      /\ \A j \in DOMAIN poll'.rows : poll'.rows[j] \in RowType
  BY <1>0, <1>7, Zenon
<1>9. \A b \in Batches :
         Cardinality({j \in Jobs : item'[b][j].at \in Working}) <= MaxConcurrent
  BY <1>6 DEF Crowd
<1> HIDE DEF stale, fresh, skipped
<1> QED
  BY <1>0, <1>2, <1>3, <1>4, <1>5, <1>8, <1>9 DEF TypeOK, bounds

LEMMA TypesOfBatch ==
    ASSUME TypeOK, NEW b \in Batches, NEW j \in Jobs, BatchStep(b, j) \/ RunEnds(b, j)
    PROVE  TypeOK'
<1>0. item[b][j] \in ItemType /\ NoItem \in ItemType /\ NoItem.at = "none"
  BY DEF TypeOK, ItemType, NoItem
<1>6. ASSUME item[b][j].at # "none"
      PROVE  /\ item[b][j].row \in RowType
             /\ \A a \in Working : [item[b][j] EXCEPT !.at = a] \in ItemType
  <2>1. item[b][j] \in [at : {"queued"} \cup Working, row : RowType]
    BY <1>0, <1>6 DEF ItemType
  <2> QED
    BY <2>1 DEF ItemType
<1>1. ASSUME Claim(b, j) PROVE TypeOK'
  <2>1. Put(b, j, [item[b][j] EXCEPT !.at = "running"]) /\ Cardinality(Crowd(b)) < MaxConcurrent
    BY <1>1 DEF Claim, Begin, Reached, Crowd
  <2>2. again' \subseteq settled'
    BY <1>1 DEF Claim, Begin, TypeOK
  <2> QED
    BY <1>1, <1>6, <2>1, <2>2, PutTypes DEF Claim, Begin, Reached, TypeOK, Working, tableVars
<1>2. ASSUME PassOver(b, j) PROVE TypeOK'
  BY <1>0, <1>2, PutTypes DEF PassOver, TypeOK, NoItem, Working, tableVars, history
<1>3. ASSUME WriteFails(b, j) PROVE TypeOK'
  BY <1>3, <1>6, PutTypes DEF WriteFails, TypeOK, Working, tableVars, history
<1>4. ASSUME Release(b, j) PROVE TypeOK'
  BY <1>0, <1>4, PutTypes DEF Release, TypeOK, NoItem, Working, tableVars, history
<1>5. ASSUME RunEnds(b, j) PROVE TypeOK'
  <2>1. PICK ok \in BOOLEAN : row' = [row EXCEPT ![j] = Result(j, item[b][j].row, ok)]
    BY <1>5 DEF RunEnds
  <2>2. row' \in [Jobs -> RowType \cup {NoRow}]
    BY <1>5, <1>6, <2>1, ResultRow DEF RunEnds, TypeOK
  <2>3. settled' \subseteq Jobs \X Nat /\ again' \subseteq settled'
    BY <1>5, <1>6 DEF RunEnds, Firing, TypeOK, RowType
  <2> QED
    BY <1>5, <1>6, <2>2, <2>3, PutTypes DEF RunEnds, TypeOK, Working
<1> QED
  BY <1>1, <1>2, <1>3, <1>4, <1>5 DEF BatchStep

LEMMA TypesOfEdits ==
    ASSUME TypeOK, NEW j \in Jobs, Add(j) \/ Edit(j) \/ Remove(j)
    PROVE  TypeOK'
<1>0. /\ now \in Nat /\ MaxEdits \in Nat
      /\ row[j] # NoRow => row[j] \in RowType
  BY CronAssumption DEF TypeOK, Instants
<1>1. ASSUME NEW r \in RowType \cup {NoRow}, EditRow(j, r), added' \subseteq Jobs PROVE TypeOK'
  BY <1>0, <1>1 DEF EditRow, TypeOK, batchVars, history
<1>2. CASE Add(j)
  <2>1. PICK s \in Schedules, deleteAfter \in BOOLEAN :
          /\ Valid(s)
          /\ EditRow(j, [enabled |-> TRUE, sched |-> s, deleteAfter |-> deleteAfter,
                         next |-> First(s)])
    BY <1>2 DEF Add
  <2>2. [enabled |-> TRUE, sched |-> s, deleteAfter |-> deleteAfter, next |-> First(s)] \in RowType
    BY <1>0, <2>1, FirstRun DEF RowType, Valid
  <2>3. added' \subseteq Jobs
    BY <1>2 DEF Add, TypeOK
  <2> QED
    BY <1>1, <2>1, <2>2, <2>3
<1>3. CASE Edit(j)
  <2>1. PICK s \in Schedules \cup {Keep}, enabled \in BOOLEAN \cup {Keep} :
          (s # Keep => Valid(s)) /\ EditRow(j, Patched(row[j], s, enabled))
    BY <1>3 DEF Edit
  <2>2. Patched(row[j], s, enabled) \in RowType
    BY <1>0, <1>3, <2>1, PatchedRow DEF Edit
  <2>3. added' \subseteq Jobs
    BY <1>3 DEF Edit, TypeOK
  <2> QED
    BY <1>1, <2>1, <2>2, <2>3
<1>4. CASE Remove(j)
  BY <1>1, <1>4 DEF Remove, TypeOK
<1> QED
  BY <1>2, <1>3, <1>4

LEMMA TypesKept == TypeOK /\ [CronNext]_vars => TypeOK'
<1> SUFFICES ASSUME TypeOK, [CronNext]_vars PROVE TypeOK'
  OBVIOUS
<1>1. CASE Tick
  BY <1>1, CronAssumption
  DEF Tick, TypeOK, tableVars, batchVars, bounds, history, Instants
<1>2. CASE Query
  <2>1. PICK S \in Selections : poll' = [on |-> TRUE, at |-> now, rows |-> [j \in S |-> row[j]]]
    BY <1>2 DEF Query
  <2>2. \A j \in S : j \in Jobs /\ row[j] \in RowType
    BY DEF Selections, Due, TypeOK
  <2> QED
    BY <1>2, <2>1, <2>2 DEF Query, TypeOK, tableVars, bounds, history
<1>3. CASE Dispatch(FALSE) \/ Dispatch(TRUE)
  BY <1>3, TypesOfDispatch
<1>4. CASE Restart
  <2>1. /\ Idle.on \in BOOLEAN /\ Idle.at \in Instants /\ DOMAIN Idle.rows = {}
    BY CronAssumption DEF Idle, Instants
  <2>2. item' \in [Batches -> [Jobs -> ItemType]]
    BY <1>4 DEF Restart, ItemType
  <2>3. \A b \in Batches : Crowd(b)' \subseteq Crowd(b)
    BY <1>4 DEF Restart, Crowd, NoItem, Working
  <2>4. \A b \in Batches : Cardinality(Crowd(b)') <= MaxConcurrent
    BY <2>3, SmallerCrowd DEF TypeOK, Crowd
  <2> QED
    BY <1>4, <2>1, <2>2, <2>4, CronAssumption DEF Restart, TypeOK, Crowd, tableVars, history
<1>5. ASSUME NEW b \in Batches, NEW j \in Jobs, BatchStep(b, j) \/ RunEnds(b, j) PROVE TypeOK'
  BY <1>5, TypesOfBatch
<1>6. ASSUME NEW j \in Jobs, RunByHand(j) \/ HandRunEnds(j) PROVE TypeOK'
  BY <1>6, CronAssumption
  DEF RunByHand, HandRunEnds, TypeOK, tableVars, batchVars, bounds, history
<1>7. ASSUME NEW j \in Jobs, Add(j) \/ Edit(j) \/ Remove(j) PROVE TypeOK'
  BY <1>7, TypesOfEdits
<1>9. ASSUME NEW b \in Batches, BatchPanics(b) PROVE TypeOK'
  <2>1. /\ item' \in [Batches -> [Jobs -> ItemType]]
        /\ \A c \in Batches : Crowd(c)' \subseteq Crowd(c)
    BY <1>9 DEF BatchPanics, TypeOK, ItemType, Crowd, NoItem, Working
  <2>2. \A c \in Batches : Cardinality(Crowd(c)') <= MaxConcurrent
    BY <2>1, SmallerCrowd DEF TypeOK, Crowd
  <2> QED
    BY <1>9, <2>1, <2>2, CronAssumption DEF BatchPanics, TypeOK, Crowd, tableVars, history
<1>8. CASE UNCHANGED vars
  BY <1>8 DEF vars, TypeOK, tableVars, batchVars, bounds, history
<1> QED
  BY <1>1, <1>2, <1>3, <1>4, <1>5, <1>6, <1>7, <1>8, <1>9 DEF CronNext

\* The types, and no more than max_concurrent jobs of a batch at work.
THEOREM CronTypeCorrect == CronSpec => []TypeOK
<1> QED
  BY TypesAtFirst, TypesKept, PTL DEF CronSpec

-----------------------------------------------------------------------------
(* One run at a time: what executes is claimed, and is claimed once.       *)

Registry ==
    /\ \A b \in Batches, j \in Jobs : Executing(b, j) => j \in claimed
    /\ byHand \subseteq claimed
    /\ OneRunAtATime

LEMMA RegistryAtFirst == CronInit => Registry
  BY DEF CronInit, Registry, OneRunAtATime, Executing, NoItem, Working

\* A step that leaves the registry alone and sets no job to work keeps it.
LEMMA NobodyBegins ==
    ASSUME Registry, UNCHANGED <<claimed, byHand>>,
           \A b \in Batches, j \in Jobs : Executing(b, j)' => Executing(b, j)
    PROVE  Registry'
  BY DEF Registry, OneRunAtATime

LEMMA RegistryOfBatch ==
    ASSUME TypeOK, Registry, NEW b \in Batches, NEW j \in Jobs, BatchStep(b, j) \/ RunEnds(b, j)
    PROVE  Registry'
<1>0. item \in [Batches -> [Jobs -> ItemType]]
  BY DEF TypeOK
<1>1. CASE Claim(b, j)
  <2>1. j \notin claimed /\ claimed' = claimed \cup {j} /\ byHand' = byHand
    BY <1>1 DEF Claim, Begin
  <2>2. \A c \in Batches, k \in Jobs :
           Executing(c, k)' <=> Executing(c, k) \/ (c = b /\ k = j)
    BY <1>0, <1>1 DEF Claim, Begin, Put, Executing, Working
  <2> QED
    BY <2>1, <2>2 DEF Registry, OneRunAtATime
<1>2. CASE PassOver(b, j) \/ WriteFails(b, j) \/ RunEnds(b, j)
  <2>1. \A c \in Batches, k \in Jobs : Executing(c, k)' => Executing(c, k)
    BY <1>0, <1>2 DEF PassOver, WriteFails, RunEnds, Put, Executing, NoItem, Working
  <2> QED
    BY <1>2, <2>1, NobodyBegins DEF PassOver, WriteFails, RunEnds
<1>3. CASE Release(b, j)
  <2>1. claimed' = claimed \ {j} /\ byHand' = byHand /\ Executing(b, j)
    BY <1>3 DEF Release, Executing, Working
  <2>2. \A c \in Batches, k \in Jobs :
           Executing(c, k)' <=> Executing(c, k) /\ ~(c = b /\ k = j)
    BY <1>0, <1>3 DEF Release, Put, Executing, NoItem, Working
  <2> QED
    BY <2>1, <2>2 DEF Registry, OneRunAtATime
<1> QED
  BY <1>1, <1>2, <1>3 DEF BatchStep

LEMMA RegistryKept == TypeOK /\ Registry /\ [CronNext]_vars => Registry'
<1> SUFFICES ASSUME TypeOK, Registry, [CronNext]_vars PROVE Registry'
  OBVIOUS
<1>1. CASE UNCHANGED <<item, claimed, byHand>>
  BY <1>1, NobodyBegins DEF Executing
<1>2. ASSUME NEW failing \in BOOLEAN, Dispatch(failing) PROVE Registry'
  <2>1. \A b \in Batches, j \in Jobs : Executing(b, j)' => Executing(b, j)
    <3>1. CASE UNCHANGED item
      BY <3>1 DEF Executing
    <3> DEFINE fresh == DOMAIN poll.rows \ {j \in DOMAIN poll.rows : Stale(poll.rows[j], poll.at)}
               Handed(c) == item' = [item EXCEPT ![c] = [j \in Jobs |->
                   IF j \in fresh THEN [at |-> "queued", row |-> poll.rows[j]] ELSE NoItem]]
    <3>2. ASSUME NEW c \in Batches, Handed(c)
          PROVE  \A b \in Batches, j \in Jobs : Executing(b, j)' => Executing(b, j)
      <4>1. item \in [Batches -> [Jobs -> ItemType]]
        BY DEF TypeOK
      <4>2. \A b \in Batches \ {c} : item'[b] = item[b]
        BY <3>2, <4>1
      <4>3. c \in Batches =>
               \A j \in Jobs : item'[c][j].at = "queued" \/ item'[c][j] = NoItem
        BY <3>2, <4>1
      <4> QED
        BY <4>2, <4>3 DEF Executing, NoItem, Working
    <3>3. UNCHANGED item \/ \E c \in Batches : Handed(c)
      BY <1>2 DEF Dispatch
    <3> QED
      BY <3>1, <3>2, <3>3, Zenon
  <2> QED
    BY <1>2, <2>1, NobodyBegins DEF Dispatch
<1>3. CASE Restart
  BY <1>3 DEF Restart, Registry, OneRunAtATime, Executing, NoItem, Working
<1>4. ASSUME NEW b \in Batches, NEW j \in Jobs, BatchStep(b, j) \/ RunEnds(b, j) PROVE Registry'
  BY <1>4, RegistryOfBatch
<1>5. ASSUME NEW j \in Jobs, RunByHand(j) \/ HandRunEnds(j) PROVE Registry'
  <2>1. \A b \in Batches, k \in Jobs : Executing(b, k)' <=> Executing(b, k)
    BY <1>5 DEF RunByHand, HandRunEnds, batchVars, Executing
  <2> QED
    BY <1>5, <2>1 DEF RunByHand, HandRunEnds, Registry, OneRunAtATime
<1>6. ASSUME NEW j \in Jobs, Add(j) \/ Edit(j) \/ Remove(j) PROVE Registry'
  BY <1>1, <1>6 DEF Add, Edit, Remove, EditRow, batchVars
<1>7. ASSUME NEW b \in Batches, BatchPanics(b) PROVE Registry'
  <2>1. /\ claimed' = claimed \ {j \in Jobs : Executing(b, j)} /\ byHand' = byHand
        /\ \A c \in Batches, j \in Jobs : Executing(c, j)' <=> Executing(c, j) /\ c # b
    BY <1>7 DEF BatchPanics, Executing, NoItem, Working, TypeOK
  <2> QED
    BY <2>1 DEF Registry, OneRunAtATime, TypeOK
<1> QED
  BY <1>1, <1>2, <1>3, <1>4, <1>5, <1>6, <1>7
  DEF CronNext, Tick, Query, vars, batchVars

\* No job is executed twice at once, by batches or by hand (InFlightGuard).
THEOREM OneRun == CronSpec => []OneRunAtATime
<1>1. Registry => OneRunAtATime
  BY DEF Registry
<1> QED
  BY <1>1, TypesAtFirst, TypesKept, RegistryAtFirst, RegistryKept, PTL DEF CronSpec

-----------------------------------------------------------------------------
(* Fired one-shots stay down.  What a batch holds and what has been settled *)
(* was due when the poll in progress, or now, looked; a row that is moved   *)
(* or edited goes to a later instant.                                       *)

Asof == IF poll.on THEN poll.at ELSE now

Settling ==
    /\ poll.on => poll.at <= now /\ \A j \in DOMAIN poll.rows : poll.rows[j].next <= poll.at
    /\ \A b \in Batches, j \in Jobs : item[b][j].at # "none" => item[b][j].row.next <= Asof
    /\ \A p \in settled : p[2] <= Asof
    /\ FiredOneShotsStayDown

LEMMA SettlingAtFirst == CronInit => Settling
  BY DEF CronInit, Settling, FiredOneShotsStayDown, Idle, NoItem

\* The row of a job a step writes may have come up only at a later instant.
Later(r, t) == r # NoRow /\ OneShot(r) /\ r.next = r.sched.n => r.next > t \/ ~r.enabled

LEMMA MovedLater ==
    ASSUME TypeOK, NEW j \in Jobs, NEW r \in RowType, ~OneShot(r), NEW from \in Nat,
           Moved(row[j], r.sched, from) # row[j]
    PROVE  Later(Moved(row[j], r.sched, from), from)
<1>1. /\ row[j] \in RowType /\ NextRun(r.sched, from) # {}
      /\ Moved(row[j], r.sched, from)
            = [row[j] EXCEPT !.next = CHOOSE t \in NextRun(r.sched, from) : TRUE]
  BY DEF Moved, TypeOK
<1> DEFINE t == CHOOSE u \in NextRun(r.sched, from) : TRUE
<1>2. t > from
  BY <1>1, ChosenNext, NextRunLater
<1>3. Moved(row[j], r.sched, from).next = t
  BY <1>1 DEF RowType
<1> HIDE DEF t
<1> QED
  BY <1>2, <1>3 DEF Later

LEMMA DisabledLater ==
    ASSUME TypeOK, NEW j \in Jobs, NEW t
    PROVE  Later(Disabled(row[j]), t)
  BY DEF Later, Disabled, TypeOK, RowType

\* A step keeps the property if it disables or removes what it settles, and every
\* other row it writes comes up later.
LEMMA RowsLater ==
    ASSUME TypeOK, TypeOK', Settling,
           \A j \in Jobs, t \in Nat : <<j, t>> \in settled' \ settled =>
              row'[j] = NoRow \/ ~row'[j].enabled,
           \A j \in Jobs : row'[j] = row[j] \/ Later(row'[j], Asof)
    PROVE  FiredOneShotsStayDown'
<1> SUFFICES ASSUME NEW j \in Jobs, row'[j] # NoRow, OneShot(row'[j]), row'[j].enabled,
                    <<j, row'[j].sched.n>> \in settled', row'[j].next = row'[j].sched.n
             PROVE  FALSE
  BY DEF FiredOneShotsStayDown, OneShot
<1>1. row'[j].sched.n \in Nat /\ Asof \in Nat
  BY DEF TypeOK, RowType, Asof, Instants
<1>2. <<j, row'[j].sched.n>> \in settled
  BY <1>1
<1>3. row'[j].sched.n <= Asof
  BY <1>2 DEF Settling
<1>4. CASE row'[j] = row[j]
  BY <1>2, <1>4 DEF Settling, FiredOneShotsStayDown
<1>5. CASE Later(row'[j], Asof)
  BY <1>1, <1>3, <1>5 DEF Later
<1> QED
  BY <1>4, <1>5

\* A step that leaves the rows and what is settled alone.
LEMMA SettlingOfRest ==
    ASSUME TypeOK, Settling, UNCHANGED <<row, settled, poll>>, now' \in Nat, now' >= now,
           \A b \in Batches, j \in Jobs :
              item'[b][j].at # "none" => item[b][j].at # "none" /\ item'[b][j].row = item[b][j].row
    PROVE  Settling'
<1>1. now \in Nat /\ poll.at \in Nat /\ Asof' >= Asof
  BY DEF TypeOK, Instants, Asof
<1>2. Asof \in Nat /\ Asof' \in Nat
  BY <1>1 DEF Asof
<1>3. \A p \in settled : p[2] \in Nat
  BY DEF TypeOK
<1>4. \A b \in Batches, j \in Jobs : item[b][j].at # "none" => item[b][j].row.next \in Nat
  BY DEF TypeOK, ItemType, NoItem, RowType
<1>5. \A b \in Batches, j \in Jobs : item'[b][j].at # "none" => item'[b][j].row.next <= Asof'
  BY <1>1, <1>2, <1>4 DEF Settling
<1>6. \A p \in settled' : p[2] <= Asof'
  BY <1>1, <1>2, <1>3 DEF Settling
<1>7. poll'.on => poll'.at <= now' /\ \A j \in DOMAIN poll'.rows : poll'.rows[j].next <= poll'.at
  BY <1>1 DEF Settling
<1>8. FiredOneShotsStayDown'
  BY DEF Settling, FiredOneShotsStayDown, OneShot
<1> QED
  BY <1>5, <1>6, <1>7, <1>8 DEF Settling

LEMMA SettlingOfRunEnds ==
    ASSUME TypeOK, TypeOK', Settling, NEW b \in Batches, NEW j \in Jobs, RunEnds(b, j)
    PROVE  Settling'
<1> DEFINE r == item[b][j].row
<1>0. /\ r \in RowType /\ r.next <= Asof /\ now \in Nat /\ poll.at \in Nat
  <2>1. item[b][j] \in ItemType /\ item[b][j].at # "none"
    BY DEF RunEnds, TypeOK
  <2>2. r \in RowType
    BY <2>1 DEF ItemType, NoItem
  <2> QED
    BY <2>1, <2>2 DEF Settling, TypeOK, Instants
<1>1. PICK ok \in BOOLEAN : row' = [row EXCEPT ![j] = Result(j, r, ok)]
  BY DEF RunEnds
<1>2. /\ settled' = settled \cup Firing(j, r) /\ UNCHANGED <<now, poll>>
      /\ item' = [item EXCEPT ![b][j] = [item[b][j] EXCEPT !.at = "written"]]
  BY DEF RunEnds, Put
<1>3. Asof' = Asof /\ Asof <= now
  BY <1>0, <1>2 DEF Asof, Settling
<1>4. ASSUME OneShot(r) PROVE FiredOneShotsStayDown'
  <2>1. Result(j, r, ok) = NoRow \/ Result(j, r, ok) = Disabled(row[j])
    BY <1>4 DEF Result
  <2>2. Disabled(row[j]) = NoRow \/ ~Disabled(row[j]).enabled
    BY DEF Disabled, TypeOK, RowType
  <2>3. row'[j] = NoRow \/ ~row'[j].enabled
    BY <1>1, <2>1, <2>2 DEF TypeOK
  <2>4. \A k \in Jobs, t \in Nat : <<k, t>> \in settled' \ settled => k = j
    BY <1>2 DEF Firing
  <2>5. \A k \in Jobs : row'[k] = row[k] \/ Later(row'[k], Asof)
    BY <1>1, <2>3 DEF Later, TypeOK
  <2> QED
    BY <2>3, <2>4, <2>5, RowsLater
<1>5. ASSUME ~OneShot(r) PROVE FiredOneShotsStayDown'
  <2>1. Result(j, r, ok) = Moved(row[j], r.sched, now)
    BY <1>5 DEF Result
  <2>2. Result(j, r, ok) = row[j] \/ Later(Result(j, r, ok), now)
    BY <1>0, <1>5, <2>1, MovedLater
  <2>3. Result(j, r, ok) = row[j] \/ Later(Result(j, r, ok), Asof)
    <3>1. row'[j] \in RowType \cup {NoRow} /\ row'[j] = Result(j, r, ok)
      BY <1>1 DEF TypeOK
    <3>2. Asof \in Nat /\ (Result(j, r, ok) # NoRow => Result(j, r, ok).next \in Nat)
      BY <1>0, <3>1 DEF Asof, RowType
    <3> QED
      BY <1>0, <1>3, <2>2, <3>2 DEF Later
  <2>4. settled' = settled
    BY <1>2, <1>5 DEF Firing
  <2>5. \A k \in Jobs : row'[k] = row[k] \/ Later(row'[k], Asof)
    BY <1>1, <2>3 DEF TypeOK
  <2> QED
    BY <2>4, <2>5, RowsLater
<1>6. \A p \in settled' : p[2] <= Asof'
  BY <1>0, <1>2, <1>3 DEF Firing, Settling
<1>7. \A c \in Batches, k \in Jobs : item'[c][k].at # "none" => item'[c][k].row.next <= Asof'
  <2>1. item \in [Batches -> [Jobs -> ItemType]] /\ item[b][j].at # "none"
    BY DEF TypeOK, RunEnds
  <2>2. \A c \in Batches, k \in Jobs :
           item'[c][k].row = item[c][k].row /\ (item'[c][k].at # "none" => item[c][k].at # "none")
    BY <1>2, <2>1 DEF ItemType, NoItem
  <2> QED
    BY <1>3, <2>2 DEF Settling
<1>8. poll'.on => poll'.at <= now' /\ \A k \in DOMAIN poll'.rows : poll'.rows[k].next <= poll'.at
  BY <1>2 DEF Settling
<1> QED
  BY <1>4, <1>5, <1>6, <1>7, <1>8 DEF Settling

LEMMA SettlingOfDispatch ==
    ASSUME TypeOK, TypeOK', Settling, NEW failing \in BOOLEAN, Dispatch(failing)
    PROVE  Settling'
<1> DEFINE stale == {j \in DOMAIN poll.rows : Stale(poll.rows[j], poll.at)}
           fresh == DOMAIN poll.rows \ stale
           skipped == IF failing THEN {} ELSE stale
<1>0. /\ row' = [j \in Jobs |-> IF j \in skipped THEN Skipped(j) ELSE row[j]]
      /\ settled' = settled \cup UNION {Firing(j, poll.rows[j]) : j \in skipped}
      /\ poll.on /\ poll' = Idle /\ now' = now
  BY DEF Dispatch
<1>1. /\ skipped \subseteq Jobs /\ fresh \subseteq Jobs
      /\ \A j \in DOMAIN poll.rows : poll.rows[j] \in RowType /\ poll.rows[j].next <= poll.at
      /\ \A j \in skipped : j \in DOMAIN poll.rows
  BY <1>0 DEF TypeOK, Settling
<1>2. now \in Nat /\ poll.at \in Nat /\ Asof = poll.at /\ Asof' = now /\ poll.at <= now
  BY <1>0 DEF TypeOK, Settling, Asof, Idle, Instants
<1>3. \A j \in Jobs, t \in Nat : <<j, t>> \in settled' \ settled =>
           j \in skipped /\ OneShot(poll.rows[j])
  <2> HIDE DEF skipped
  <2>1. ASSUME NEW j, NEW t, <<j, t>> \in settled' \ settled
        PROVE  \E k \in skipped : <<j, t>> \in Firing(k, poll.rows[k])
    BY <1>0, <2>1
  <2>2. ASSUME NEW j, NEW t, NEW k, <<j, t>> \in Firing(k, poll.rows[k])
        PROVE  k = j /\ OneShot(poll.rows[k])
    BY <2>2 DEF Firing
  <2> QED
    BY <2>1, <2>2
<1>4. ASSUME NEW j \in skipped, OneShot(poll.rows[j])
      PROVE  row'[j] = NoRow \/ ~row'[j].enabled
  <2>1. row'[j] = Disabled(row[j]) /\ row[j] \in RowType \cup {NoRow}
    BY <1>0, <1>1, <1>4 DEF Skipped, TypeOK
  <2> QED
    BY <2>1 DEF Disabled, RowType
<1>5. ASSUME NEW j \in Jobs PROVE row'[j] = row[j] \/ Later(row'[j], Asof)
  <2>1. CASE j \notin skipped
    BY <1>0, <2>1
  <2>2. CASE j \in skipped /\ OneShot(poll.rows[j])
    BY <1>4, <2>2 DEF Later
  <2>3. CASE j \in skipped /\ ~OneShot(poll.rows[j])
    BY <1>0, <1>1, <1>2, <2>3, MovedLater DEF Skipped
  <2> QED
    BY <2>1, <2>2, <2>3
<1>6. FiredOneShotsStayDown'
  BY <1>3, <1>4, <1>5, RowsLater
<1>7. \A p \in settled' : p[2] <= Asof'
  <2>1. \A p \in settled : p[2] \in Nat /\ p[2] <= poll.at
    BY <1>2 DEF TypeOK, Settling
  <2>2. \A j \in skipped : \A p \in Firing(j, poll.rows[j]) : p[2] \in Nat /\ p[2] <= poll.at
    BY <1>1 DEF Firing, RowType
  <2>3. \A p \in settled' : p[2] \in Nat /\ p[2] <= poll.at
    BY <1>0, <2>1, <2>2
  <2> QED
    BY <1>2, <2>3
<1>8. \A c \in Batches, k \in Jobs : item'[c][k].at # "none" => item'[c][k].row.next <= Asof'
  <2>1. \A c \in Batches, k \in Jobs : item[c][k].at # "none" =>
           item[c][k].row.next \in Nat /\ item[c][k].row.next <= poll.at
    BY <1>2 DEF Settling, TypeOK, ItemType, NoItem, RowType
  <2>2. \A k \in fresh : poll.rows[k].next \in Nat /\ poll.rows[k].next <= poll.at
    BY <1>1 DEF RowType
  <2>3. \A c \in Batches, k \in Jobs : item'[c][k].at # "none" =>
           item'[c][k].row.next \in Nat /\ item'[c][k].row.next <= poll.at
    <3>1. CASE UNCHANGED item
      BY <2>1, <3>1
    <3>2. CASE \E b \in Batches :
                 item' = [item EXCEPT ![b] = [j \in Jobs |->
                   IF j \in fresh THEN [at |-> "queued", row |-> poll.rows[j]] ELSE NoItem]]
      <4> HIDE DEF fresh
      <4> QED
        BY <2>1, <2>2, <3>2 DEF TypeOK, NoItem
    <3> QED
      BY <3>1, <3>2 DEF Dispatch
  <2> QED
    BY <1>2, <2>3
<1>9. ~poll'.on
  BY <1>0 DEF Idle
<1> QED
  BY <1>6, <1>7, <1>8, <1>9 DEF Settling

LEMMA SettlingOfEdits ==
    ASSUME TypeOK, TypeOK', Settling, NEW j \in Jobs, Add(j) \/ Edit(j) \/ Remove(j)
    PROVE  Settling'
<1>0. /\ UNCHANGED <<now, poll, item, settled>>
      /\ \A k \in Jobs : k # j => row'[k] = row[k]
  BY DEF Add, Edit, Remove, EditRow, TypeOK, batchVars, history
<1>1. now \in Nat /\ Asof \in Nat /\ Asof <= now /\ Asof' = Asof
  BY <1>0 DEF TypeOK, Instants, Asof, Settling
<1>2. ASSUME Later(row'[j], now) PROVE Later(row'[j], Asof)
  <2>1. row'[j] # NoRow => row'[j].next \in Nat
    BY DEF TypeOK, RowType
  <2> QED
    BY <1>1, <1>2, <2>1 DEF Later
<1>3. ASSUME Add(j) PROVE Later(row'[j], now)
  <2>1. PICK s \in Schedules, deleteAfter \in BOOLEAN :
          /\ Valid(s)
          /\ row' = [row EXCEPT ![j] =
               [enabled |-> TRUE, sched |-> s, deleteAfter |-> deleteAfter, next |-> First(s)]]
    BY <1>3 DEF Add, EditRow
  <2>2. s.kind = "At" => First(s) > now
    BY <1>1, <2>1, FirstRun
  <2> QED
    BY <2>1, <2>2 DEF Later, OneShot, TypeOK
<1>4. ASSUME Edit(j), row'[j] # row[j] PROVE Later(row'[j], now)
  <2>1. PICK s \in Schedules \cup {Keep}, enabled \in BOOLEAN \cup {Keep} :
          /\ s # Keep => Valid(s)
          /\ enabled = TRUE => MayResume(Patched(row[j], s, enabled))
          /\ row' = [row EXCEPT ![j] = Patched(row[j], s, enabled)]
    BY <1>4 DEF Edit, EditRow
  <2>2. row[j] \in RowType /\ row'[j] = Patched(row[j], s, enabled) /\ row'[j] \in RowType
    BY <1>1, <1>4, <2>1, PatchedRow DEF Edit, TypeOK
  <2>3. CASE s # Keep
    <3>1. /\ s.kind = "At" => First(s) > now
          /\ row'[j].next = First(s) /\ row'[j].sched = s
      <4>1. s.kind = "At" => First(s) > now
        BY <1>1, <2>1, <2>3, FirstRun
      <4>2. row'[j].next = First(s) /\ row'[j].sched = s
        BY <2>2, <2>3 DEF Patched, RowType
      <4> QED
        BY <4>1, <4>2
    <3> QED
      BY <3>1 DEF Later, OneShot
  <2>4. CASE s = Keep /\ enabled = TRUE
    BY <2>1, <2>2, <2>4, Zenon DEF Later, MayResume
  <2>5. CASE s = Keep /\ enabled = FALSE
    BY <1>4, <2>2, <2>5 DEF Later, Patched, RowType
  <2>6. CASE s = Keep /\ enabled = Keep
    BY <1>4, <2>2, <2>6 DEF Patched
  <2> QED
    BY <2>3, <2>4, <2>5, <2>6
<1>5. ASSUME Remove(j) PROVE Later(row'[j], now)
  BY <1>5 DEF Remove, EditRow, Later, TypeOK
<1>6. \A k \in Jobs : row'[k] = row[k] \/ Later(row'[k], Asof)
  BY <1>0, <1>2, <1>3, <1>4, <1>5
<1>7. FiredOneShotsStayDown'
  BY <1>0, <1>6, RowsLater
<1> QED
  BY <1>0, <1>1, <1>7 DEF Settling

LEMMA SettlingKept == TypeOK /\ TypeOK' /\ Settling /\ [CronNext]_vars => Settling'
<1> SUFFICES ASSUME TypeOK, TypeOK', Settling, [CronNext]_vars PROVE Settling'
  OBVIOUS
<1>0. now \in Nat /\ now' \in Nat /\ item \in [Batches -> [Jobs -> ItemType]]
  BY DEF TypeOK, Instants
<1>1. CASE Tick
  BY <1>0, <1>1, SettlingOfRest DEF Tick, tableVars, batchVars, history
<1>2. CASE Query
  <2>1. PICK S \in Selections : poll' = [on |-> TRUE, at |-> now, rows |-> [j \in S |-> row[j]]]
    BY <1>2 DEF Query
  <2>2. Asof = now /\ Asof' = now
    BY <1>2, <2>1 DEF Query, Asof
  <2>3. \A j \in S : row[j].next <= now
    BY DEF Selections, Due
  <2>4. FiredOneShotsStayDown'
    BY <1>2 DEF Query, Settling, FiredOneShotsStayDown, OneShot, tableVars, history
  <2> QED
    BY <1>0, <1>2, <2>1, <2>2, <2>3, <2>4 DEF Query, Settling, history
<1>3. CASE Dispatch(FALSE) \/ Dispatch(TRUE)
  BY <1>3, SettlingOfDispatch
<1>4. CASE Restart
  <2>1. poll.at \in Nat /\ Asof <= now /\ Asof' = now /\ Asof \in Nat
    BY <1>0, <1>4 DEF Restart, Asof, Idle, Settling, TypeOK, Instants
  <2>2. \A p \in settled : p[2] \in Nat
    BY DEF TypeOK
  <2>3. \A p \in settled' : p[2] <= Asof'
    BY <1>0, <1>4, <2>1, <2>2 DEF Restart, Settling, history
  <2>4. FiredOneShotsStayDown'
    BY <1>4 DEF Restart, Settling, FiredOneShotsStayDown, OneShot, tableVars, history
  <2>5. ~poll'.on /\ \A b \in Batches, j \in Jobs : item'[b][j].at = "none"
    BY <1>4 DEF Restart, Idle, NoItem
  <2> QED
    BY <2>3, <2>4, <2>5 DEF Settling
<1>5. ASSUME NEW b \in Batches, NEW j \in Jobs, BatchStep(b, j) PROVE Settling'
  <2>1. /\ UNCHANGED <<row, settled, poll, now>> /\ item[b][j].at # "none"
        /\ \/ \E a \in Working : item' = [item EXCEPT ![b][j] = [item[b][j] EXCEPT !.at = a]]
           \/ item' = [item EXCEPT ![b][j] = NoItem]
    BY <1>5
    DEF BatchStep, Claim, PassOver, WriteFails, Release, Begin, Reached, Put, Working, tableVars,
        history
  <2>2. item[b][j] \in [at : {"queued"} \cup Working, row : RowType]
    BY <1>0, <2>1 DEF ItemType, NoItem
  <2>3. \A c \in Batches, k \in Jobs :
           item'[c][k].at # "none" => item[c][k].at # "none" /\ item'[c][k].row = item[c][k].row
    BY <1>0, <2>1, <2>2 DEF NoItem
  <2> QED
    BY <1>0, <2>1, <2>3, SettlingOfRest
<1>6. ASSUME NEW b \in Batches, NEW j \in Jobs, RunEnds(b, j) PROVE Settling'
  BY <1>6, SettlingOfRunEnds
<1>7. ASSUME NEW j \in Jobs, RunByHand(j) \/ HandRunEnds(j) PROVE Settling'
  BY <1>0, <1>7, SettlingOfRest DEF RunByHand, HandRunEnds, tableVars, batchVars, history
<1>8. ASSUME NEW j \in Jobs, Add(j) \/ Edit(j) \/ Remove(j) PROVE Settling'
  BY <1>8, SettlingOfEdits
<1>9. CASE UNCHANGED vars
  BY <1>0, <1>9, SettlingOfRest DEF vars, tableVars, batchVars, history
<1>10. ASSUME NEW b \in Batches, BatchPanics(b) PROVE Settling'
  <2>1. \A c \in Batches, j \in Jobs :
           item'[c][j].at # "none" => item[c][j].at # "none" /\ item'[c][j].row = item[c][j].row
    BY <1>0, <1>10 DEF BatchPanics, NoItem
  <2> QED
    BY <1>0, <1>10, <2>1, SettlingOfRest DEF BatchPanics, tableVars, history
<1> QED
  BY <1>1, <1>2, <1>3, <1>4, <1>5, <1>6, <1>7, <1>8, <1>9, <1>10 DEF CronNext

\* A one-shot that has fired, or was skipped, for its instant is not enabled for it
\* again (persist_job_result, skip_stale_run, update_job).
THEOREM FiredStayDown == CronSpec => []FiredOneShotsStayDown
<1>1. Settling => FiredOneShotsStayDown
  BY DEF Settling
<1> QED
  BY <1>1, TypesAtFirst, TypesKept, SettlingAtFirst, SettlingKept, PTL DEF CronSpec
=============================================================================
