---------------------------- MODULE ObserverJobs ----------------------------
(***************************************************************************)
(* The Lobe-B observation pipeline: the transactional outbox, the b_jobs    *)
(* table, the worker processes that claim jobs under a lease and process    *)
(* them under a per-run advisory lock, and the append-only b_state table    *)
(* the reviews are saved in.                                                *)
(*                                                                          *)
(* A database transaction is one step.  What the code does between two      *)
(* transactions, or between the statements of one that other processes can  *)
(* see into (the advisory lock, the read of the latest b_state row), is     *)
(* split, so that every interleaving of workers, lease expiries, failures   *)
(* and crashes is a behaviour.                                              *)
(***************************************************************************)
EXTENDS Integers, Sequences, FiniteSets

CONSTANTS
    Run,            \* conversations; each owns one advisory lock
    Job,            \* observations, one per distinct job_key
    Worker,         \* worker processes
    RunOf,          \* run_id of a job
    ObservedAt,     \* payload observed_at: when the observed call completed
    RowId,          \* outbox.id of the job's row
    MaxAttempts,    \* max_attempts of a job (shadow_payload's default is 1)
    Slots,          \* worker_max_concurrency, the limit of one claim
    MoveLimit,      \* rows one move publishes (16 in the code)
    MemoryEnabled,  \* settings.context_memory_enabled
    MaxFaults       \* bound on crashes, exceptions and lease overruns

ASSUME JobAssumption ==
    /\ RunOf \in [Job -> Run]
    /\ ObservedAt \in [Job -> Nat \ {0}]
    /\ RowId \in [Job -> Nat]
ASSUME LimitAssumption ==
    /\ MaxAttempts \in Nat \ {0}
    /\ Slots \in Nat \ {0}
    /\ MoveLimit \in Nat \ {0}
    /\ MaxFaults \in Nat
    /\ MemoryEnabled \in BOOLEAN

VARIABLES
    outbox,     \* jobs whose outbox row is not yet published
    status,     \* b_jobs.status, "absent" before the row exists
    attempts,   \* b_jobs.attempts
    lease,      \* b_jobs.lock_until: NULL, in the future or in the past
    createdAt,  \* b_jobs.created_at, counted in publishing transactions
    batch,      \* the publishing transactions so far
    stage,      \* which transaction of _cycle_once a worker runs next
    pc,         \* where the coroutine of a worker for a job is
    prev,       \* the revision that coroutine read as "previous" state
    rows,       \* the b_state rows of a run; the revision is the position
    skipped,    \* jobs with a shadow_skipped or suppressed event
    faults      \* faults so far

vars == <<outbox, status, attempts, lease, createdAt, batch,
          stage, pc, prev, rows, skipped, faults>>
jobVars == <<outbox, status, attempts, lease, createdAt, batch>>

Task == Worker \X Job
JobOf(t) == t[2]
TaskRun(t) == RunOf[t[2]]

Status == {"absent", "pending", "processing", "done", "failed"}
Settled == {"done", "failed"}
PC == {"idle", "claimed", "deferring", "locked", "reviewing", "failing"}
Oversight == {"reviewed", "degraded"}
(* version = 0 stands for a row without context_memory.                     *)
Row == [job : Job, oversight : Oversight, version : Nat, asOf : Nat]

(* Mutant of LockFree: a commit inside the review ends the transaction and  *)
(* with it the lock, as a session-scoped commit before the model call would. *)
LockLostInReview(r) == \A t \in Task : TaskRun(t) = r => pc[t] # "locked"

(* pg_try_advisory_xact_lock: a transaction owns the run's lock from its    *)
(* TryLock until it commits or rolls back.                                  *)
LockFree(r) == \A t \in Task : TaskRun(t) = r => pc[t] \notin {"locked", "reviewing"}

Published(j) == status[j] # "absent"

Init ==
    /\ outbox = {}
    /\ status = [j \in Job |-> "absent"]
    /\ attempts = [j \in Job |-> 0]
    /\ lease = [j \in Job |-> "none"]
    /\ createdAt = [j \in Job |-> 0]
    /\ batch = 0
    /\ stage = [w \in Worker |-> "move"]
    /\ pc = [t \in Task |-> "idle"]
    /\ prev = [t \in Task |-> 0]
    /\ rows = [r \in Run |-> <<>>]
    /\ skipped = {}
    /\ faults = 0

-----------------------------------------------------------------------------
(* The producer, after an answer was delivered.  outbox.event_key is unique *)
(* and published rows stay in the table, so a second insert is a no-op.     *)
enqueue_outbox(j) ==
    /\ j \notin outbox
    /\ ~Published(j)
    /\ outbox' = outbox \union {j}
    /\ UNCHANGED <<status, attempts, lease, createdAt, batch,
                   stage, pc, prev, rows, skipped, faults>>

(* A worker starts a new cycle only when its previous gather() returned.    *)
AllIdle(w) == \A j \in Job : pc[<<w, j>>] = "idle"

(* The n elements of S that ORDER BY key LIMIT n selects.                   *)
FirstBy(S, key, n) ==
    {T \in SUBSET S :
        /\ Cardinality(T) = IF Cardinality(S) < n THEN Cardinality(S) ELSE n
        /\ \A i \in T, k \in S \ T : key[i] <= key[k]}

(* ON CONFLICT (job_key) DO NOTHING: only an absent row is inserted.        *)
move_outbox_to_jobs(w) ==
    /\ stage[w] = "move"
    /\ AllIdle(w)
    /\ \E M \in FirstBy(outbox, RowId, MoveLimit) :
        /\ outbox' = outbox \ M
        /\ status' = [j \in Job |-> IF j \in M /\ ~Published(j) THEN "pending" ELSE status[j]]
        /\ createdAt' = [j \in Job |-> IF j \in M /\ ~Published(j) THEN batch + 1 ELSE createdAt[j]]
        /\ batch' = IF M = {} THEN batch ELSE batch + 1
    /\ stage' = [stage EXCEPT ![w] = "claim"]
    /\ UNCHANGED <<attempts, lease, pc, prev, rows, skipped, faults>>

(* Mutant of Due: the lease is never looked at.                             *)
DueWithoutLease(j) ==
    \/ status[j] = "pending"
    \/ status[j] = "failed" /\ attempts[j] < MaxAttempts /\ lease[j] = "none"

Due(j) ==
    \/ status[j] = "pending"
    \/ status[j] = "failed" /\ attempts[j] < MaxAttempts /\ lease[j] = "none"
    \/ status[j] = "processing" /\ lease[j] = "expired"

claim_worker_jobs(w) ==
    /\ stage[w] = "claim"
    /\ \E C \in FirstBy({j \in Job : Due(j)}, createdAt, Slots) :
        /\ status' = [j \in Job |-> IF j \in C THEN "processing" ELSE status[j]]
        /\ lease' = [j \in Job |-> IF j \in C THEN "held" ELSE lease[j]]
        /\ pc' = [t \in Task |-> IF t[1] = w /\ JobOf(t) \in C THEN "claimed" ELSE pc[t]]
    /\ stage' = [stage EXCEPT ![w] = "move"]
    /\ UNCHANGED <<outbox, attempts, createdAt, batch, prev, rows, skipped, faults>>

-----------------------------------------------------------------------------
(* _process_job, the try block.                                             *)
Goto(t, from, to) ==
    /\ pc[t] = from
    /\ pc' = [pc EXCEPT ![t] = to]

TryLock(t) ==
    /\ Goto(t, "claimed", IF LockFree(TaskRun(t)) THEN "locked" ELSE "deferring")
    /\ UNCHANGED <<jobVars, stage, prev, rows, skipped, faults>>

(* Not locked: the row is written back without looking at its status.       *)
Defer(t) ==
    /\ Goto(t, "deferring", "idle")
    /\ status' = [status EXCEPT ![JobOf(t)] = "pending"]
    /\ lease' = [lease EXCEPT ![JobOf(t)] = "none"]
    /\ UNCHANGED <<outbox, attempts, createdAt, batch, stage, prev, rows, skipped, faults>>

SkipDone(t) ==
    /\ Goto(t, "locked", "idle")
    /\ status[JobOf(t)] = "done"
    /\ UNCHANGED <<jobVars, stage, prev, rows, skipped, faults>>

(* Mutant of NewerExists: >= lets a job make itself stale.                  *)
SameOrNewerExists(j) ==
    \E n \in Job : Published(n) /\ RunOf[n] = RunOf[j] /\ ObservedAt[n] >= ObservedAt[j]

NewerExists(j) ==
    \E n \in Job : Published(n) /\ RunOf[n] = RunOf[j] /\ ObservedAt[n] > ObservedAt[j]

(* mark_job_done commits; it leaves lock_until alone.                       *)
mark_job_done(j) == status' = [status EXCEPT ![j] = "done"]

DropStale(t) ==
    /\ Goto(t, "locked", "idle")
    /\ status[JobOf(t)] # "done"
    /\ NewerExists(JobOf(t))
    /\ mark_job_done(JobOf(t))
    /\ UNCHANGED <<outbox, attempts, lease, createdAt, batch, stage, prev, rows, skipped, faults>>

(* run_shadow_cycle up to its first await on a model: the latest row is read. *)
BeginReview(t) ==
    /\ Goto(t, "locked", "reviewing")
    /\ status[JobOf(t)] # "done"
    /\ ~NewerExists(JobOf(t))
    /\ prev' = [prev EXCEPT ![t] = Len(rows[TaskRun(t)])]
    /\ UNCHANGED <<jobVars, stage, rows, skipped, faults>>

(* What row n of a run says to its reader; n = 0 when there is no row yet.  *)
Prior(r, n) ==
    IF n = 0
    THEN [observed |-> 0, version |-> 0, asOf |-> 0]
    ELSE [observed |-> ObservedAt[rows[r][n].job],
          version |-> rows[r][n].version, asOf |-> rows[r][n].asOf]

(* Skipped: disabled, expired, superseded, cooling down, over budget, or    *)
(* addressed to another agent.  Which of the others holds is not modelled;  *)
(* superseded is, as the guard of SaveReview.                               *)
SkipReview(t) ==
    /\ Goto(t, "reviewing", "idle")
    /\ skipped' = skipped \union {JobOf(t)}
    /\ mark_job_done(JobOf(t))
    /\ prev' = [prev EXCEPT ![t] = 0]
    /\ UNCHANGED <<outbox, attempts, lease, createdAt, batch, stage, rows, faults>>

(* Mutant of Renews: the failed review stamps the memory it carries over.   *)
RenewsAlways(oversight) == MemoryEnabled

(* reviewed_state renews the memory; the degraded payload keeps the prior.  *)
Renews(oversight) == oversight = "reviewed" /\ MemoryEnabled

NewRow(t, oversight) ==
    LET prior == Prior(TaskRun(t), prev[t])
    IN [job |-> JobOf(t), oversight |-> oversight,
        version |-> IF Renews(oversight) THEN prior.version + 1 ELSE prior.version,
        asOf |-> IF Renews(oversight) THEN ObservedAt[JobOf(t)] ELSE prior.asOf]

(* Mutant of Superseded: two observations of the same instant both count.   *)
SupersededByLater(t) == Prior(TaskRun(t), prev[t]).observed > ObservedAt[JobOf(t)]

(* The row read as previous state reviews this observation or a later one.  *)
Superseded(t) == Prior(TaskRun(t), prev[t]).observed >= ObservedAt[JobOf(t)]

(* save_b_state appends under the next revision; state, event, job status   *)
(* and the release of the lock commit together.                             *)
SaveReview(t, oversight) ==
    /\ Goto(t, "reviewing", "idle")
    /\ ~Superseded(t)
    /\ rows' = [rows EXCEPT ![TaskRun(t)] = Append(@, NewRow(t, oversight))]
    /\ mark_job_done(JobOf(t))
    /\ prev' = [prev EXCEPT ![t] = 0]
    /\ UNCHANGED <<outbox, attempts, lease, createdAt, batch, stage, skipped, faults>>

(* The except block: the transaction was rolled back and the lock released. *)
mark_job_failed(t) ==
    /\ Goto(t, "failing", "idle")
    /\ attempts' = [attempts EXCEPT ![JobOf(t)] = @ + 1]
    /\ status' = [status EXCEPT ![JobOf(t)] =
                    IF attempts[JobOf(t)] + 1 >= MaxAttempts THEN "failed" ELSE "pending"]
    /\ lease' = [lease EXCEPT ![JobOf(t)] = "none"]
    /\ UNCHANGED <<outbox, createdAt, batch, stage, prev, rows, skipped, faults>>

-----------------------------------------------------------------------------
(* Faults, at most MaxFaults of them.                                       *)
Fault ==
    /\ faults < MaxFaults
    /\ faults' = faults + 1

(* Any statement of the try block may raise.                                *)
Raise(t) ==
    /\ Fault
    /\ pc[t] \in {"claimed", "deferring", "locked", "reviewing"}
    /\ pc' = [pc EXCEPT ![t] = "failing"]
    /\ prev' = [prev EXCEPT ![t] = 0]
    /\ UNCHANGED <<jobVars, stage, rows, skipped>>

(* mark_job_failed itself raises, which the same outage may cause and which *)
(* is not counted again: the job stays in processing.                       *)
MarkFailedLost(t) ==
    /\ Goto(t, "failing", "idle")
    /\ UNCHANGED <<jobVars, stage, prev, rows, skipped, faults>>

(* The move or the claim raises; run_forever logs and polls again.          *)
CycleError(w) ==
    /\ Fault
    /\ stage[w] = "claim"
    /\ stage' = [stage EXCEPT ![w] = "move"]
    /\ UNCHANGED <<jobVars, pc, prev, rows, skipped>>

(* The process dies and is restarted: open transactions are rolled back.    *)
Crash(w) ==
    /\ Fault
    /\ stage' = [stage EXCEPT ![w] = "move"]
    /\ pc' = [t \in Task |-> IF t[1] = w THEN "idle" ELSE pc[t]]
    /\ prev' = [t \in Task |-> IF t[1] = w THEN 0 ELSE prev[t]]
    /\ UNCHANGED <<jobVars, rows, skipped>>

Expire(j) ==
    /\ status[j] = "processing"
    /\ lease[j] = "held"
    /\ lease' = [lease EXCEPT ![j] = "expired"]
    /\ UNCHANGED <<outbox, status, attempts, createdAt, batch, stage, pc, prev, rows, skipped>>

(* The lease of a job nobody works on any more runs out.                    *)
ExpireAbandoned(j) ==
    /\ \A w \in Worker : pc[<<w, j>>] = "idle"
    /\ Expire(j)
    /\ UNCHANGED faults

(* The lease runs out although its owner is still at work.                  *)
Overrun(j) ==
    /\ Fault
    /\ \E w \in Worker : pc[<<w, j>>] # "idle"
    /\ Expire(j)

-----------------------------------------------------------------------------
CycleStep(w) == move_outbox_to_jobs(w) \/ claim_worker_jobs(w)

TaskStep(t) ==
    \/ TryLock(t)
    \/ Defer(t)
    \/ SkipDone(t)
    \/ DropStale(t)
    \/ BeginReview(t)
    \/ SkipReview(t)
    \/ \E o \in Oversight : SaveReview(t, o)
    \/ mark_job_failed(t)

FaultStep ==
    \/ \E t \in Task : Raise(t) \/ MarkFailedLost(t)
    \/ \E w \in Worker : CycleError(w) \/ Crash(w)
    \/ \E j \in Job : Overrun(j)

Next ==
    \/ \E j \in Job : enqueue_outbox(j) \/ ExpireAbandoned(j)
    \/ \E w \in Worker : CycleStep(w)
    \/ \E t \in Task : TaskStep(t)
    \/ FaultStep

Spec == Init /\ [][Next]_vars

(* run_forever polls for ever, a coroutine that can take a step is          *)
(* scheduled, and time passes.  Producers and faults are not fair.          *)
Fairness ==
    /\ \A w \in Worker : WF_vars(CycleStep(w))
    /\ \A t \in Task : WF_vars(TaskStep(t))
    /\ \A j \in Job : WF_vars(ExpireAbandoned(j))

FairSpec == Spec /\ Fairness

-----------------------------------------------------------------------------
(* Every variable keeps the type its column or local variable has.          *)
TypeOK ==
    /\ outbox \subseteq Job
    /\ status \in [Job -> Status]
    /\ attempts \in [Job -> Nat]
    /\ lease \in [Job -> {"none", "held", "expired"}]
    /\ createdAt \in [Job -> Nat]
    /\ batch \in Nat
    /\ stage \in [Worker -> {"move", "claim"}]
    /\ pc \in [Task -> PC]
    /\ prev \in [Task -> Nat]
    /\ rows \in [Run -> Seq(Row)]
    /\ skipped \subseteq Job
    /\ faults \in Nat

(* "Per-run serialization: only one B job for a given run processes at a    *)
(* time", even after a lease ran out and another worker claimed the job.    *)
Serialized ==
    \A t, u \in Task :
        /\ TaskRun(t) = TaskRun(u)
        /\ pc[t] \in {"locked", "reviewing"}
        /\ pc[u] \in {"locked", "reviewing"}
        => t = u

(* The state a review builds on is still the latest one when it is saved:   *)
(* the read of latest_b_state and the insert of save_b_state are separated  *)
(* by the whole model call.                                                 *)
PrevFresh ==
    \A t \in Task : pc[t] = "reviewing" => prev[t] = Len(rows[TaskRun(t)])

(* A run's b_state rows are in the strict order of the observations they    *)
(* review: a late job never overwrites a newer review, and no observation   *)
(* is reviewed twice however often its job is claimed, deferred or retried. *)
LedgerOrdered ==
    \A r \in Run : \A m, n \in 1..Len(rows[r]) :
        m < n => ObservedAt[rows[r][m].job] < ObservedAt[rows[r][n].job]

(* "A failed review keeps the last completed memory with its original       *)
(* timestamps; it never renews it": the memory of a row dates from the last *)
(* completed review at or before it, and its version counts those reviews.  *)
MemoryOfLastReview ==
    \A r \in Run : \A n \in 1..Len(rows[r]) :
        LET complete == {m \in 1..n : MemoryEnabled /\ rows[r][m].oversight = "reviewed"}
        IN /\ rows[r][n].version = Cardinality(complete)
           /\ rows[r][n].asOf = IF complete = {} THEN 0
                ELSE ObservedAt[rows[r][CHOOSE m \in complete : \A k \in complete : k <= m].job]

(* A job that is done left a trace: a b_state row, a skip event, or a newer *)
(* observation of its run that made it worthless.  No observation is lost   *)
(* between the tables.                                                      *)
DoneAccounted ==
    \A j \in Job : status[j] = "done" =>
        \/ j \in skipped
        \/ \E n \in 1..Len(rows[RunOf[j]]) : rows[RunOf[j]][n].job = j
        \/ \E n \in Job : /\ Published(n) /\ RunOf[n] = RunOf[j]
                         /\ ObservedAt[n] > ObservedAt[j]

(* The refinement mapping: what a reader of the latest row sees.            *)
Ledger == INSTANCE ReviewLedger WITH
    snapshot <- [r \in Run |-> Prior(r, Len(rows[r]))],
    taken <- {j \in Job : \E r \in Run : \E n \in 1..Len(rows[r]) : rows[r][n].job = j}

(* The whole pipeline, with its leases, deferrals, retries, overruns and    *)
(* crashes, implements the ledger.                                          *)
ImplementsLedger == Ledger!Spec

(* An observation that reached the outbox ends up done or failed and stays  *)
(* so, provided faults and overruns stop: deferring workers do not hand a   *)
(* job to each other for ever, and a crashed worker's job is reclaimed.     *)
EventuallySettled ==
    \A j \in Job : (j \in outbox) ~> [](status[j] \in Settled)

(* claim_worker_jobs: "Idempotent claim of due jobs (pending, or            *)
(* failed-but-retryable) for processing": a job whose attempts are used up  *)
(* is not processed again.                                                  *)
OnlyRetryableProcessed ==
    \A j \in Job : status[j] = "processing" => attempts[j] < MaxAttempts
=============================================================================
