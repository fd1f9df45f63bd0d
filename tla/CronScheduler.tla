---------------------------- MODULE CronScheduler ----------------------------
(***************************************************************************)
(* The cron scheduler, cron/scheduler.rs, over its table, cron/store.rs:   *)
(* the poll loop selects due jobs, skips the stale ones and hands the rest *)
(* to a batch of their own; a batch claims each job in the process-wide    *)
(* registry, runs it and writes its next run; people add, edit and remove  *)
(* jobs and run them by hand; the process crashes and comes back.          *)
(*                                                                         *)
(* What a job runs, its attempts and its delivery are not modelled: a run  *)
(* takes any time, and succeeds or fails.                                  *)
(***************************************************************************)
EXTENDS Integers, FiniteSets

CONSTANTS
    MaxJobs,        \* bound: jobs ever added
    Schedules,      \* the schedules people give
    MaxBatches,     \* bound: the batches alive at once
    MaxTasks,       \* scheduler.max_tasks
    MaxConcurrent,  \* scheduler.max_concurrent
    MaxAge,         \* cron.max_catchup_age_secs; zero turns the gate off
    Horizon,        \* bound: the last instant
    MaxEdits, MaxManual,
    MaxCrashes,     \* bounds; a crash is the process's, or a batch's
    WritesFail,     \* whether the write of a result or of a skip may fail
    NoRow, Keep

Instants == 0..Horizon
Batches == 1..MaxBatches
Jobs == 1..MaxJobs

ASSUME CronAssumption ==
    /\ Schedules \subseteq [kind : {"At", "Every", "Cron"}, n : Nat, times : SUBSET Nat]
    /\ MaxTasks \in Nat \ {0} /\ MaxConcurrent \in Nat \ {0}
    /\ MaxAge \in Nat /\ Horizon \in Nat
    /\ MaxJobs \in Nat \ {0} /\ MaxBatches \in Nat \ {0} /\ MaxEdits \in Nat /\ MaxManual \in Nat /\ MaxCrashes \in Nat
    /\ WritesFail \in BOOLEAN

VARIABLES
    now,
    row,       \* the table: a job's row, or NoRow
    added,     \* the ids given out
    poll,      \* the rows the poll in progress has selected, and when
    item,      \* where a batch is with a job, and the row it was handed
    claimed,   \* the in-flight registry
    byHand,    \* jobs a manual run is executing
    edits, manuals, crashes,
    settled,   \* history: the one-shots' firings a run or a skip has been written for
    again      \* history: those that were begun after that

tableVars == <<row, added>>
batchVars == <<poll, item>>
bounds == <<edits, manuals, crashes>>
history == <<settled, again>>
vars == <<now, tableVars, batchVars, claimed, byHand, bounds, history>>

Idle == [on |-> FALSE, at |-> 0, rows |-> [j \in {} |-> NoRow]]
NoItem == [at |-> "none", row |-> NoRow]
Working == {"running", "written"}

OneShot(r) == r.sched.kind = "At"

\* next_run_for_schedule: the next instant, or none.
NextRun(s, from) ==
    CASE s.kind = "At" -> {s.n}
      [] s.kind = "Every" -> {from + s.n}
      [] s.kind = "Cron" -> {t \in s.times : t > from /\ \A u \in s.times : u > from => t <= u}

\* validate_schedule, and the call for the first run.
Valid(s) ==
    /\ s.kind = "At" => s.n > now
    /\ s.kind = "Every" => s.n > 0
    /\ NextRun(s, now) # {}

\* The firing of a one-shot that a run, or a skip, of its row r settles.
Firing(j, r) == IF OneShot(r) THEN {<<j, r.next>>} ELSE {}

CronInit ==
    /\ now = 0
    /\ row = [j \in Jobs |-> NoRow] /\ added = {}
    /\ poll = Idle
    /\ item = [b \in Batches |-> [j \in Jobs |-> NoItem]]
    /\ claimed = {} /\ byHand = {}
    /\ edits = 0 /\ manuals = 0 /\ crashes = 0
    /\ settled = {} /\ again = {}

Tick ==
    /\ now < Horizon /\ now' = now + 1
    /\ UNCHANGED <<tableVars, batchVars, claimed, byHand, bounds, history>>

-----------------------------------------------------------------------------
(* The poll loop.                                                          *)

Due(j) == row[j] # NoRow /\ row[j].enabled /\ row[j].next <= now

\* due_jobs: the earliest, up to the limit.
Selections ==
    LET due == {j \in Jobs : Due(j)}
    IN  {S \in SUBSET due :
            /\ Cardinality(S) <= MaxTasks
            /\ Cardinality(S) < MaxTasks => S = due
            /\ \A j \in S, k \in due \ S : row[j].next <= row[k].next}

Query ==
    /\ ~poll.on
    /\ \E S \in Selections \ {{}} :
          poll' = [on |-> TRUE, at |-> now, rows |-> [j \in S |-> row[j]]]
    /\ UNCHANGED <<now, tableVars, item, claimed, byHand, bounds, history>>

\* is_run_stale.
Stale(r, at) == MaxAge # 0 /\ r.next + MaxAge < at

\* A write to a row by id: nothing, if the row has gone.
Disabled(r) == IF r = NoRow THEN NoRow ELSE [r EXCEPT !.enabled = FALSE]
Moved(r, s, from) ==
    IF r = NoRow \/ NextRun(s, from) = {} THEN r
    ELSE [r EXCEPT !.next = CHOOSE t \in NextRun(s, from) : TRUE]

\* skip_stale_run: the schedule is the selected row's, the row is the table's.
Skipped(j) ==
    IF OneShot(poll.rows[j]) THEN Disabled(row[j]) ELSE Moved(row[j], poll.rows[j].sched, poll.at)

FreeBatch(b) == \A j \in Jobs : item[b][j].at = "none"

\* The stale runs are skipped, unless the write fails, the others become a batch.
Dispatch(failing) ==
    /\ poll.on
    /\ LET stale == {j \in DOMAIN poll.rows : Stale(poll.rows[j], poll.at)}
           fresh == DOMAIN poll.rows \ stale
           skipped == IF failing THEN {} ELSE stale
       IN  /\ failing => stale # {}
           /\ row' = [j \in Jobs |-> IF j \in skipped THEN Skipped(j) ELSE row[j]]
           /\ settled' = settled \cup UNION {Firing(j, poll.rows[j]) : j \in skipped}
           /\ IF fresh = {} THEN UNCHANGED item
              ELSE \E b \in Batches :
                      /\ FreeBatch(b) /\ \A c \in Batches : c < b => ~FreeBatch(c)
                      /\ item' = [item EXCEPT ![b] = [j \in Jobs |->
                            IF j \in fresh THEN [at |-> "queued", row |-> poll.rows[j]]
                                           ELSE NoItem]]
    /\ poll' = Idle
    /\ UNCHANGED <<now, added, claimed, byHand, bounds, again>>

-----------------------------------------------------------------------------
(* A batch, process_due_jobs.                                              *)

Executing(b, j) == item[b][j].at \in Working

Put(b, j, i) == item' = [item EXCEPT ![b][j] = i]

\* buffer_unordered takes the jobs in the order of the query, so many at a time.
Reached(b, j) ==
    /\ item[b][j].at = "queued"
    /\ \A k \in Jobs : item[b][k].at = "queued" => item[b][j].row.next <= item[b][k].row.next
    /\ Cardinality({k \in Jobs : item[b][k].at \in Working}) < MaxConcurrent

Begin(b, j) ==
    /\ Put(b, j, [item[b][j] EXCEPT !.at = "running"])
    /\ again' = again \cup (settled \cap Firing(j, item[b][j].row))
    /\ UNCHANGED <<now, tableVars, poll, byHand, bounds, settled>>

\* Mutant: the registry is looked at and not written.
ClaimUnwritten(b, j) ==
    Reached(b, j) /\ j \notin claimed /\ Begin(b, j) /\ UNCHANGED claimed

\* InFlightGuard::claim.  The row is the one the poll selected.
Claim(b, j) ==
    Reached(b, j) /\ j \notin claimed /\ Begin(b, j) /\ claimed' = claimed \cup {j}

\* Still running from a previous tick, or by hand.
PassOver(b, j) ==
    /\ Reached(b, j) /\ j \in claimed
    /\ Put(b, j, NoItem)
    /\ UNCHANGED <<now, tableVars, poll, claimed, byHand, bounds, history>>

\* What persist_job_result leaves of the row of a job that was run as r.
Result(j, r, ok) ==
    CASE OneShot(r) /\ r.deleteAfter /\ ok -> NoRow
      [] OneShot(r) /\ ~(r.deleteAfter /\ ok) -> Disabled(row[j])
      [] ~OneShot(r) -> Moved(row[j], r.sched, now)

\* The last attempt is over, or its time is, and the result is written.
RunEnds(b, j) ==
    /\ item[b][j].at = "running"
    /\ \E ok \in BOOLEAN : row' = [row EXCEPT ![j] = Result(j, item[b][j].row, ok)]
    /\ Put(b, j, [item[b][j] EXCEPT !.at = "written"])
    /\ settled' = settled \cup Firing(j, item[b][j].row)
    /\ UNCHANGED <<now, added, poll, claimed, byHand, bounds, again>>

\* The write fails and is logged.
WriteFails(b, j) ==
    /\ WritesFail /\ item[b][j].at = "running"
    /\ Put(b, j, [item[b][j] EXCEPT !.at = "written"])
    /\ UNCHANGED <<now, tableVars, poll, claimed, byHand, bounds, history>>

\* Mutant: the guard does not give the job back.
ReleaseLeaks(b, j) ==
    /\ item[b][j].at = "written"
    /\ Put(b, j, NoItem)
    /\ UNCHANGED <<now, tableVars, poll, claimed, byHand, bounds, history>>

\* InFlightGuard::drop.
Release(b, j) ==
    /\ item[b][j].at = "written"
    /\ claimed' = claimed \ {j}
    /\ Put(b, j, NoItem)
    /\ UNCHANGED <<now, tableVars, poll, byHand, bounds, history>>

\* A job panics: the batch's task ends, with the other jobs it held.
BatchPanics(b) ==
    /\ crashes < MaxCrashes /\ crashes' = crashes + 1
    /\ \E j \in Jobs : item[b][j].at = "running"
    /\ item' = [item EXCEPT ![b] = [j \in Jobs |-> NoItem]]
    /\ claimed' = claimed \ {j \in Jobs : Executing(b, j)}
    /\ UNCHANGED <<now, tableVars, poll, byHand, edits, manuals, history>>

-----------------------------------------------------------------------------
(* People, in the scheduler's process.                                     *)

\* run_job_manual.
RunByHand(j) ==
    /\ manuals < MaxManual /\ row[j] # NoRow /\ j \notin claimed
    /\ manuals' = manuals + 1
    /\ claimed' = claimed \cup {j} /\ byHand' = byHand \cup {j}
    /\ UNCHANGED <<now, tableVars, batchVars, edits, crashes, history>>

HandRunEnds(j) ==
    /\ j \in byHand
    /\ claimed' = claimed \ {j} /\ byHand' = byHand \ {j}
    /\ UNCHANGED <<now, tableVars, batchVars, bounds, history>>

EditRow(j, r) ==
    /\ edits < MaxEdits /\ edits' = edits + 1
    /\ row' = [row EXCEPT ![j] = r]
    /\ UNCHANGED <<now, batchVars, claimed, byHand, manuals, crashes, history>>

First(s) == CHOOSE t \in NextRun(s, now) : TRUE

\* add_shell_job, add_agent_job: ids are not used again, and which id a
\* job gets is of no account.  Only a one-shot is asked to go after its run.
Add(j) ==
    /\ added' = added \cup {j} /\ \A k \in Jobs : k \in added <=> k < j
    /\ \E s \in Schedules, deleteAfter \in BOOLEAN :
          /\ Valid(s) /\ (deleteAfter => s.kind = "At")
          /\ EditRow(j, [enabled |-> TRUE, sched |-> s, deleteAfter |-> deleteAfter,
                         next |-> First(s)])

\* Mutant: what the patch leaves out is written as well.
PatchedVerbatim(r, s, enabled) ==
    LET q == IF s = Keep THEN r ELSE [r EXCEPT !.sched = s, !.next = First(s)]
    IN  [q EXCEPT !.enabled = enabled]

Patched(r, s, enabled) ==
    LET q == IF s = Keep THEN r ELSE [r EXCEPT !.sched = s, !.next = First(s)]
    IN  IF enabled = Keep THEN q ELSE [q EXCEPT !.enabled = enabled]

\* Mutant: a fired one-shot may be resumed.
MayResumeAnyhow(r) == TRUE

\* A one-shot is enabled only with an instant to come.
MayResume(r) == OneShot(r) => r.sched.n > now

\* update_job.
Edit(j) ==
    /\ row[j] # NoRow
    /\ \E s \in Schedules \cup {Keep}, enabled \in BOOLEAN \cup {Keep} :
          /\ s # Keep \/ enabled # Keep
          /\ s # Keep => Valid(s)
          /\ enabled = TRUE => MayResume(Patched(row[j], s, enabled))
          /\ EditRow(j, Patched(row[j], s, enabled))
    /\ UNCHANGED added

Remove(j) == row[j] # NoRow /\ EditRow(j, NoRow) /\ UNCHANGED added

\* The process dies and is started again: only the table is left.
Restart ==
    /\ crashes < MaxCrashes /\ crashes' = crashes + 1
    /\ poll' = Idle /\ item' = [b \in Batches |-> [j \in Jobs |-> NoItem]]
    /\ claimed' = {} /\ byHand' = {}
    /\ UNCHANGED <<now, tableVars, edits, manuals, history>>

-----------------------------------------------------------------------------
BatchStep(b, j) ==
    Claim(b, j) \/ PassOver(b, j) \/ WriteFails(b, j) \/ Release(b, j)

CronNext ==
    \/ Tick \/ Query \/ Dispatch(FALSE) \/ (WritesFail /\ Dispatch(TRUE)) \/ Restart
    \/ \E b \in Batches : BatchPanics(b)
    \/ \E b \in Batches, j \in Jobs : BatchStep(b, j) \/ RunEnds(b, j)
    \/ \E j \in Jobs : RunByHand(j) \/ HandRunEnds(j) \/ Add(j) \/ Edit(j) \/ Remove(j)

CronSpec == CronInit /\ [][CronNext]_vars

\* The loop polls, a batch is polled, a run ends because its time does, and a
\* write that is tried again and again goes through.
FairCron ==
    /\ CronSpec
    /\ WF_vars(Query) /\ SF_vars(Dispatch(FALSE)) /\ WF_vars(\E j \in Jobs : HandRunEnds(j))
    /\ \A b \in Batches : WF_vars(\E j \in Jobs : BatchStep(b, j))
    /\ \A j \in Jobs : SF_vars(\E b \in Batches : RunEnds(b, j))

-----------------------------------------------------------------------------
(* Properties.                                                             *)

RowType ==
    {r \in [enabled : BOOLEAN, sched : Schedules, deleteAfter : BOOLEAN, next : Nat] :
        r.sched.kind = "Every" => r.sched.n > 0}

ItemType == {NoItem} \cup [at : {"queued"} \cup Working, row : RowType]

\* The types of the scheduler's state; a batch runs at most max_concurrent jobs.
TypeOK ==
    /\ now \in Instants /\ added \subseteq Jobs
    /\ row \in [Jobs -> RowType \cup {NoRow}]
    /\ poll.on \in BOOLEAN /\ poll.at \in Instants /\ DOMAIN poll.rows \subseteq Jobs
    /\ \A j \in DOMAIN poll.rows : poll.rows[j] \in RowType
    /\ item \in [Batches -> [Jobs -> ItemType]]
    /\ \A b \in Batches : Cardinality({j \in Jobs : item[b][j].at \in Working}) <= MaxConcurrent
    /\ claimed \subseteq Jobs /\ byHand \subseteq Jobs
    /\ settled \subseteq Jobs \X Nat /\ again \subseteq settled
    /\ edits \in 0..MaxEdits /\ manuals \in 0..MaxManual /\ crashes \in 0..MaxCrashes

\* No job is executed by two batches, or by a batch and by hand, at once, whatever
\* is polled while it runs (InFlightGuard).
OneRunAtATime ==
    \A j \in Jobs :
        /\ \A b, c \in Batches : Executing(b, j) /\ Executing(c, j) => b = c
        /\ j \in byHand => \A b \in Batches : ~Executing(b, j)

\* A one-shot whose run, or whose skip, has been written for its instant is not due
\* again unless it is given another one: "re-enabling it would ... silently re-run a
\* job whose contract is runs once" (persist_job_result, skip_stale_run, update_job).
FiredOneShotsStayDown ==
    \A j \in Jobs :
        (row[j] # NoRow /\ OneShot(row[j]) /\ <<j, row[j].sched.n>> \in settled
            /\ row[j].next = row[j].sched.n) => ~row[j].enabled

\* A one-shot's firing is not begun again once a run of it has been written: "an At job fires exactly once" (scheduler.rs:744).
FiresOnce == again = {}

\* A due job does not stay due: it is run or skipped, whatever else is due with it
\* (run, due_jobs).
DueJobsAreServed == \A j \in Jobs : Due(j) ~> ~Due(j)
=============================================================================
