--------------------------- MODULE ObserverProofs ---------------------------
(***************************************************************************)
(* Proofs about the observer, for every number of runs, jobs, workers,      *)
(* faults, cycles, scopes and budgets: first the safety properties of       *)
(* ObserverJobs and its refinement of ReviewLedger, then those of           *)
(* ReviewCycle, whose cycles the pipeline serializes.                       *)
(***************************************************************************)
EXTENDS ObserverJobs, ReviewCycle, FiniteSetTheorems, TLAPS

(* Every row of a run reviews an observation of that run.                   *)
RowsOfRun ==
    \A r \in Run : \A n \in 1..Len(rows[r]) : RunOf[rows[r][n].job] = r

(* The inductive invariant.  LedgerOrdered alone is not inductive: it needs *)
(* the superseded check to compare with the latest row (PrevFresh), which   *)
(* needs that no other task of the run saves in between (Serialized).       *)
IInv == TypeOK /\ Serialized /\ PrevFresh /\ RowsOfRun /\ LedgerOrdered

(* A task's job and run are a job and a run.                                *)
LEMMA TaskFacts ==
    \A t \in Task : JobOf(t) \in Job /\ TaskRun(t) \in Run /\ TaskRun(t) = RunOf[JobOf(t)]
  BY JobAssumption DEF Task, JobOf, TaskRun

(* What the reader of a row sees is well typed, also when there is none.    *)
LEMMA PriorType ==
    ASSUME TypeOK, NEW r \in Run, NEW n \in 0..Len(rows[r])
    PROVE  Prior(r, n) \in [observed : Nat, version : Nat, asOf : Nat]
  <1>1. CASE n = 0
    BY <1>1 DEF Prior
  <1>2. CASE n # 0
    <2>1. rows[r] \in Seq(Row) /\ n \in 1..Len(rows[r])
      BY <1>2 DEF TypeOK
    <2>2. rows[r][n] \in Row
      BY <2>1
    <2>3. /\ rows[r][n].job \in Job
          /\ rows[r][n].version \in Nat
          /\ rows[r][n].asOf \in Nat
      BY <2>2 DEF Row
    <2>4. ObservedAt[rows[r][n].job] \in Nat
      BY <2>3, JobAssumption
    <2> QED
      BY <1>2, <2>3, <2>4 DEF Prior
  <1> QED
    BY <1>1, <1>2

(* A row built on a row of the table has the type of a row.                 *)
LEMMA NewRowType ==
    ASSUME TypeOK, NEW t \in Task, NEW o \in Oversight, prev[t] \in 0..Len(rows[TaskRun(t)])
    PROVE  NewRow(t, o) \in Row
  <1>1. Prior(TaskRun(t), prev[t]).version \in Nat /\ Prior(TaskRun(t), prev[t]).asOf \in Nat
    BY PriorType, TaskFacts
  <1>2. ObservedAt[JobOf(t)] \in Nat
    BY TaskFacts, JobAssumption
  <1> QED
    BY <1>1, <1>2, TaskFacts DEF NewRow, Renews, Row

(* The initial state satisfies the invariant: there are no rows and no tasks. *)
LEMMA InitIInv == Init => IInv
  <1> SUFFICES ASSUME Init PROVE IInv
    OBVIOUS
  <1>1. TypeOK
    BY DEF Init, TypeOK, Status, PC, Row
  <1>2. Serialized /\ PrevFresh
    BY DEF Init, Serialized, PrevFresh
  <1>3. RowsOfRun /\ LedgerOrdered
    <2>1. \A r \in Run : 1..Len(rows[r]) = {}
      BY DEF Init
    <2> QED
      BY <2>1 DEF RowsOfRun, LedgerOrdered
  <1> QED
    BY <1>1, <1>2, <1>3 DEF IInv

(* Every step keeps the types.                                              *)
LEMMA TypeStep ==
    ASSUME IInv, [Next]_vars
    PROVE  TypeOK'
  <1> USE TaskFacts, JobAssumption, LimitAssumption
  <1>0. TypeOK
    BY DEF IInv
  <1>1. ASSUME NEW j \in Job, enqueue_outbox(j) PROVE TypeOK'
    BY <1>0, <1>1 DEF enqueue_outbox, TypeOK
  <1>2. ASSUME NEW j \in Job, ExpireAbandoned(j) PROVE TypeOK'
    BY <1>0, <1>2 DEF ExpireAbandoned, Expire, TypeOK
  <1>3. ASSUME NEW w \in Worker, move_outbox_to_jobs(w) PROVE TypeOK'
    BY <1>0, <1>3 DEF move_outbox_to_jobs, FirstBy, TypeOK, Status
  <1>4. ASSUME NEW w \in Worker, claim_worker_jobs(w) PROVE TypeOK'
    BY <1>0, <1>4 DEF claim_worker_jobs, FirstBy, TypeOK, Status, PC
  <1>5. ASSUME NEW t \in Task, TryLock(t) PROVE TypeOK'
    BY <1>0, <1>5 DEF TryLock, Goto, TypeOK, PC, jobVars
  <1>6. ASSUME NEW t \in Task, Defer(t) PROVE TypeOK'
    BY <1>0, <1>6 DEF Defer, Goto, TypeOK, PC, Status
  <1>7. ASSUME NEW t \in Task, SkipDone(t) PROVE TypeOK'
    BY <1>0, <1>7 DEF SkipDone, Goto, TypeOK, PC, jobVars
  <1>8. ASSUME NEW t \in Task, DropStale(t) PROVE TypeOK'
    BY <1>0, <1>8 DEF DropStale, Goto, mark_job_done, TypeOK, PC, Status
  <1>9. ASSUME NEW t \in Task, BeginReview(t) PROVE TypeOK'
    BY <1>0, <1>9 DEF BeginReview, Goto, TypeOK, PC, jobVars
  <1>10. ASSUME NEW t \in Task, SkipReview(t) PROVE TypeOK'
    BY <1>0, <1>10 DEF SkipReview, Goto, mark_job_done, TypeOK, PC, Status
  <1>11. ASSUME NEW t \in Task, NEW o \in Oversight, SaveReview(t, o) PROVE TypeOK'
    <2>1. prev[t] \in 0..Len(rows[TaskRun(t)])
      BY <1>0, <1>11 DEF IInv, PrevFresh, SaveReview, Goto, TypeOK
    <2>2. NewRow(t, o) \in Row
      BY <1>0, <2>1, NewRowType
    <2>3. Append(rows[TaskRun(t)], NewRow(t, o)) \in Seq(Row)
      BY <1>0, <2>2 DEF TypeOK
    <2>4. rows' \in [Run -> Seq(Row)]
      BY <1>0, <1>11, <2>3 DEF SaveReview, TypeOK
    <2>5. status' \in [Job -> Status] /\ pc' \in [Task -> PC] /\ prev' \in [Task -> Nat]
      BY <1>0, <1>11 DEF SaveReview, Goto, mark_job_done, TypeOK, PC, Status
    <2> QED
      BY <1>0, <1>11, <2>4, <2>5 DEF SaveReview, TypeOK
  <1>12. ASSUME NEW t \in Task, mark_job_failed(t) PROVE TypeOK'
    BY <1>0, <1>12 DEF mark_job_failed, Goto, TypeOK, PC, Status
  <1>13. ASSUME NEW t \in Task, Raise(t) \/ MarkFailedLost(t) PROVE TypeOK'
    <2>1. CASE Raise(t)
      BY <1>0, <2>1 DEF Raise, Fault, TypeOK, PC, jobVars
    <2>2. CASE MarkFailedLost(t)
      BY <1>0, <2>2 DEF MarkFailedLost, Goto, TypeOK, PC, jobVars
    <2> QED
      BY <1>13, <2>1, <2>2
  <1>14. ASSUME NEW w \in Worker, CycleError(w) \/ Crash(w) PROVE TypeOK'
    <2>1. CASE CycleError(w)
      BY <1>0, <2>1 DEF CycleError, Fault, TypeOK, jobVars
    <2>2. CASE Crash(w)
      BY <1>0, <2>2 DEF Crash, Fault, TypeOK, PC, jobVars
    <2> QED
      BY <1>14, <2>1, <2>2
  <1>15. ASSUME NEW j \in Job, Overrun(j) PROVE TypeOK'
    BY <1>0, <1>15 DEF Overrun, Expire, Fault, TypeOK
  <1>16. CASE UNCHANGED vars
    BY <1>0, <1>16 DEF vars, TypeOK
  <1> QED
    BY <1>1, <1>2, <1>3, <1>4, <1>5, <1>6, <1>7, <1>8, <1>9, <1>10, <1>11, <1>12,
       <1>13, <1>14, <1>15, <1>16 DEF Next, CycleStep, TaskStep, FaultStep

(* A step that appends no row, takes no lock and starts no review keeps the *)
(* invariant: whoever is still in a critical section was there before.      *)
LEMMA QuietStep ==
    ASSUME IInv, TypeOK', rows' = rows,
           \A t \in Task : pc'[t] \in {"locked", "reviewing"}
                              => pc'[t] = pc[t] /\ prev'[t] = prev[t]
    PROVE  IInv'
  <1>1. Serialized'
    BY DEF IInv, Serialized, TaskRun
  <1>2. PrevFresh'
    BY DEF IInv, PrevFresh, TaskRun
  <1>3. RowsOfRun' /\ LedgerOrdered'
    BY DEF IInv, RowsOfRun, LedgerOrdered
  <1> QED
    BY <1>1, <1>2, <1>3 DEF IInv

(* Taking the lock: nobody else of the run holds it.                        *)
LEMMA TryLockStep ==
    ASSUME IInv, TypeOK', NEW t \in Task, TryLock(t)
    PROVE  IInv'
  <1>1. CASE LockFree(TaskRun(t))
    <2>1. pc' = [pc EXCEPT ![t] = "locked"] /\ rows' = rows /\ prev' = prev
      BY <1>1 DEF TryLock, Goto
    <2>2. Serialized'
      BY <1>1, <2>1 DEF IInv, TypeOK, Serialized, LockFree
    <2>3. PrevFresh'
      BY <2>1 DEF IInv, TypeOK, PrevFresh
    <2>4. RowsOfRun' /\ LedgerOrdered'
      BY <2>1 DEF IInv, RowsOfRun, LedgerOrdered
    <2> QED
      BY <2>2, <2>3, <2>4 DEF IInv
  <1>2. CASE ~LockFree(TaskRun(t))
    <2>1. pc' = [pc EXCEPT ![t] = "deferring"] /\ rows' = rows /\ prev' = prev
      BY <1>2 DEF TryLock, Goto
    <2>2. \A u \in Task : pc'[u] \in {"locked", "reviewing"}
                            => pc'[u] = pc[u] /\ prev'[u] = prev[u]
      BY <2>1 DEF IInv, TypeOK
    <2> QED
      BY <2>1, <2>2, QuietStep
  <1> QED
    BY <1>1, <1>2

(* Reading the latest row: the task already holds the run's lock.           *)
LEMMA BeginReviewStep ==
    ASSUME IInv, TypeOK', NEW t \in Task, BeginReview(t)
    PROVE  IInv'
  <1>1. /\ pc[t] = "locked"
        /\ pc' = [pc EXCEPT ![t] = "reviewing"]
        /\ prev' = [prev EXCEPT ![t] = Len(rows[TaskRun(t)])]
        /\ rows' = rows
    BY DEF BeginReview, Goto
  <1>2. Serialized'
    BY <1>1 DEF IInv, TypeOK, Serialized
  <1>3. PrevFresh'
    BY <1>1 DEF IInv, TypeOK, PrevFresh
  <1>4. RowsOfRun' /\ LedgerOrdered'
    BY <1>1 DEF IInv, RowsOfRun, LedgerOrdered
  <1> QED
    BY <1>2, <1>3, <1>4 DEF IInv

(* A review that is not superseded observes later than the row it read.     *)
LEMMA NotSuperseded ==
    ASSUME IInv, NEW t \in Task, pc[t] = "reviewing", ~Superseded(t)
    PROVE  Prior(TaskRun(t), prev[t]).observed < ObservedAt[JobOf(t)]
  <1>1. rows[TaskRun(t)] \in Seq(Row) /\ prev[t] = Len(rows[TaskRun(t)])
    BY TaskFacts DEF IInv, TypeOK, PrevFresh
  <1>2. prev[t] \in 0..Len(rows[TaskRun(t)])
    BY <1>1
  <1>3. Prior(TaskRun(t), prev[t]).observed \in Nat
    BY <1>2, PriorType, TaskFacts DEF IInv
  <1>4. ObservedAt[JobOf(t)] \in Nat
    BY TaskFacts, JobAssumption
  <1> QED
    BY <1>3, <1>4 DEF Superseded

(* No row of the run is as new as the observation about to be saved.        *)
LEMMA AllOlder ==
    ASSUME IInv, NEW t \in Task, pc[t] = "reviewing",
           Prior(TaskRun(t), prev[t]).observed < ObservedAt[JobOf(t)]
    PROVE  \A n \in 1..Len(rows[TaskRun(t)]) :
              ObservedAt[rows[TaskRun(t)][n].job] < ObservedAt[JobOf(t)]
  <1> DEFINE R == rows[TaskRun(t)]
  <1> SUFFICES ASSUME NEW n \in 1..Len(R)
               PROVE  ObservedAt[R[n].job] < ObservedAt[JobOf(t)]
    OBVIOUS
  <1>1. prev[t] = Len(R)
    BY DEF IInv, PrevFresh
  <1>2. R \in Seq(Row) /\ Len(R) \in Nat /\ Len(R) # 0
    BY TaskFacts DEF IInv, TypeOK
  <1>3. R[n] \in Row /\ R[Len(R)] \in Row
    BY <1>2
  <1>4. R[n].job \in Job /\ R[Len(R)].job \in Job
    BY <1>3 DEF Row
  <1>5. ObservedAt[R[Len(R)].job] < ObservedAt[JobOf(t)]
    BY <1>1, <1>2 DEF Prior
  <1>6. n < Len(R) => ObservedAt[R[n].job] < ObservedAt[R[Len(R)].job]
    BY <1>2, TaskFacts DEF IInv, LedgerOrdered
  <1>7. /\ ObservedAt[R[n].job] \in Nat
        /\ ObservedAt[R[Len(R)].job] \in Nat
        /\ ObservedAt[JobOf(t)] \in Nat
    BY <1>4, TaskFacts, JobAssumption
  <1>8. n < Len(R) \/ n = Len(R)
    BY <1>2
  <1> QED
    BY <1>5, <1>6, <1>7, <1>8

(* Saving: the new row is the newest and the lock is released.              *)
LEMMA SaveReviewStep ==
    ASSUME IInv, TypeOK', NEW t \in Task, NEW o \in Oversight, SaveReview(t, o)
    PROVE  IInv'
  <1> DEFINE r == TaskRun(t)
             R == rows[r]
  <1>1. /\ pc[t] = "reviewing"
        /\ pc' = [pc EXCEPT ![t] = "idle"]
        /\ prev' = [prev EXCEPT ![t] = 0]
        /\ rows' = [rows EXCEPT ![r] = Append(R, NewRow(t, o))]
        /\ Prior(r, prev[t]).observed < ObservedAt[JobOf(t)]
    BY NotSuperseded DEF SaveReview, Goto
  <1>2. R \in Seq(Row) /\ r \in Run /\ JobOf(t) \in Job /\ RunOf[JobOf(t)] = r
    BY TaskFacts DEF IInv, TypeOK
  <1>3. /\ Len(rows'[r]) = Len(R) + 1
        /\ \A n \in 1..Len(R) : rows'[r][n] = R[n]
        /\ rows'[r][Len(R) + 1] = NewRow(t, o)
    BY <1>1, <1>2 DEF IInv, TypeOK
  <1>4. \A q \in Run : q # r => rows'[q] = rows[q]
    BY <1>1 DEF IInv, TypeOK
  <1>5. NewRow(t, o).job = JobOf(t)
    BY DEF NewRow
  <1>6. Serialized'
    BY <1>1 DEF IInv, TypeOK, Serialized
  <1>7. PrevFresh'
    <2> SUFFICES ASSUME NEW u \in Task, pc'[u] = "reviewing"
                 PROVE  prev'[u] = Len(rows'[TaskRun(u)])
      BY DEF PrevFresh, TaskRun
    <2>1. u # t /\ pc[u] = "reviewing" /\ prev'[u] = prev[u]
      BY <1>1 DEF IInv, TypeOK
    <2>2. TaskRun(u) # r
      BY <1>1, <2>1 DEF IInv, Serialized
    <2> QED
      BY <2>1, <2>2, <1>4, TaskFacts DEF IInv, PrevFresh
  <1>8. RowsOfRun'
    <2> SUFFICES ASSUME NEW q \in Run, NEW n \in 1..Len(rows'[q])
                 PROVE  RunOf[rows'[q][n].job] = q
      BY DEF RowsOfRun
    <2>1. CASE q # r
      BY <2>1, <1>4 DEF IInv, RowsOfRun
    <2>2. CASE q = r /\ n = Len(R) + 1
      BY <2>2, <1>2, <1>3, <1>5
    <2>3. CASE q = r /\ n # Len(R) + 1
      <3>1. n \in 1..Len(R)
        BY <2>3, <1>2, <1>3
      <3> QED
        BY <3>1, <2>3, <1>3 DEF IInv, RowsOfRun
    <2> QED
      BY <2>1, <2>2, <2>3
  <1>9. LedgerOrdered'
    <2> SUFFICES ASSUME NEW q \in Run, NEW m \in 1..Len(rows'[q]), NEW n \in 1..Len(rows'[q]),
                        m < n
                 PROVE  ObservedAt[rows'[q][m].job] < ObservedAt[rows'[q][n].job]
      BY DEF LedgerOrdered
    <2>1. CASE q # r
      BY <2>1, <1>4 DEF IInv, LedgerOrdered
    <2>2. CASE q = r
      <3>1. m \in 1..Len(R)
        BY <2>2, <1>2, <1>3
      <3>2. CASE n = Len(R) + 1
        BY <2>2, <3>1, <3>2, <1>1, <1>3, <1>5, AllOlder
      <3>3. CASE n # Len(R) + 1
        <4>1. n \in 1..Len(R)
          BY <2>2, <3>3, <1>2, <1>3
        <4> QED
          BY <2>2, <3>1, <4>1, <1>2, <1>3 DEF IInv, LedgerOrdered
      <3> QED
        BY <3>2, <3>3
    <2> QED
      BY <2>1, <2>2
  <1> QED
    BY <1>6, <1>7, <1>8, <1>9 DEF IInv

(* The invariant is inductive.                                              *)
LEMMA IInvStep ==
    ASSUME IInv, [Next]_vars
    PROVE  IInv'
  <1> USE TypeStep
  <1> DEFINE Quiet == /\ rows' = rows
                      /\ \A t \in Task : pc'[t] \in {"locked", "reviewing"}
                                            => pc'[t] = pc[t] /\ prev'[t] = prev[t]
  <1>0. TypeOK /\ (Quiet => IInv')
    BY QuietStep DEF IInv
  <1> HIDE TypeStep
  <1>1. ASSUME NEW j \in Job, enqueue_outbox(j) \/ ExpireAbandoned(j) \/ Overrun(j) PROVE Quiet
    BY <1>1 DEF enqueue_outbox, ExpireAbandoned, Overrun, Expire
  <1>2. ASSUME NEW w \in Worker, move_outbox_to_jobs(w) PROVE Quiet
    BY <1>2 DEF move_outbox_to_jobs
  <1>3. ASSUME NEW w \in Worker, claim_worker_jobs(w) PROVE Quiet
    BY <1>3 DEF claim_worker_jobs
  <1>4. ASSUME NEW t \in Task, TryLock(t) PROVE IInv'
    BY <1>4, TryLockStep, TypeStep
  <1>5. ASSUME NEW t \in Task, Defer(t) \/ SkipDone(t) \/ DropStale(t) \/ SkipReview(t) PROVE Quiet
    BY <1>0, <1>5 DEF Defer, SkipDone, DropStale, SkipReview, Goto, TypeOK
  <1>6. ASSUME NEW t \in Task, BeginReview(t) PROVE IInv'
    BY <1>6, BeginReviewStep, TypeStep
  <1>7. ASSUME NEW t \in Task, NEW o \in Oversight, SaveReview(t, o) PROVE IInv'
    BY <1>7, SaveReviewStep, TypeStep
  <1>8. ASSUME NEW t \in Task, mark_job_failed(t) PROVE Quiet
    BY <1>0, <1>8 DEF mark_job_failed, Goto, TypeOK
  <1>9. ASSUME NEW t \in Task, Raise(t) \/ MarkFailedLost(t) PROVE Quiet
    BY <1>0, <1>9 DEF Raise, MarkFailedLost, Goto, TypeOK
  <1>10. ASSUME NEW w \in Worker, CycleError(w) \/ Crash(w) PROVE Quiet
    BY <1>0, <1>10 DEF CycleError, Crash, TypeOK
  <1>11. CASE UNCHANGED vars
    <2>1. Quiet
      BY <1>11 DEF vars
    <2> QED
      BY <2>1, <1>0
  <1> HIDE DEF Quiet
  <1> QED
    BY <1>0, <1>1, <1>2, <1>3, <1>4, <1>5, <1>6, <1>7, <1>8, <1>9, <1>10, <1>11
    DEF Next, CycleStep, TaskStep, FaultStep

(* The variables keep their types, and the inductive invariant holds.       *)
THEOREM Invariance == Spec => []IInv
  BY InitIInv, IInvStep, PTL DEF Spec

(* Every variable keeps the type of its column.                             *)
THEOREM TypeCorrect == Spec => []TypeOK
  <1>1. IInv => TypeOK
    BY DEF IInv
  <1> QED
    BY Invariance, <1>1, PTL

(* One job of a run at a time, whatever leases expire and workers crash.    *)
THEOREM RunSerialization == Spec => []Serialized
  <1>1. IInv => Serialized
    BY DEF IInv
  <1> QED
    BY Invariance, <1>1, PTL

(* No review is saved on top of a state other than the one it was based on. *)
THEOREM NoLostUpdate == Spec => []PrevFresh
  <1>1. IInv => PrevFresh
    BY DEF IInv
  <1> QED
    BY Invariance, <1>1, PTL

(* Reviews are saved in observation order, each observation at most once.   *)
THEOREM ReviewsInOrder == Spec => []LedgerOrdered
  <1>1. IInv => LedgerOrdered
    BY DEF IInv
  <1> QED
    BY Invariance, <1>1, PTL

-----------------------------------------------------------------------------
(* The refinement mapping's two expressions, named.                         *)
MapSnapshot == [r \in Run |-> Prior(r, Len(rows[r]))]
MapTaken == {j \in Job : \E r \in Run : \E n \in 1..Len(rows[r]) : rows[r][n].job = j}

(* An empty table is an empty ledger.                                       *)
LEMMA InitLedger == Init => Ledger!Init
  <1> SUFFICES ASSUME Init PROVE Ledger!Init
    OBVIOUS
  <1>1. \A r \in Run : Len(rows[r]) = 0
    BY DEF Init
  <1>2. MapSnapshot = [r \in Run |-> [observed |-> 0, version |-> 0, asOf |-> 0]]
    BY <1>1 DEF MapSnapshot, Prior
  <1>3. MapTaken = {}
    BY <1>1 DEF MapTaken
  <1> QED
    BY <1>2, <1>3 DEF Ledger!Init, MapSnapshot, MapTaken

(* Saving a review is a step of the ledger.                                 *)
LEMMA SaveIsLedgerStep ==
    ASSUME IInv, NEW t \in Task, NEW o \in Oversight, SaveReview(t, o)
    PROVE  Ledger!Next
  <1> DEFINE r == TaskRun(t)
             j == JobOf(t)
             R == rows[r]
             new == NewRow(t, o)
  <1>1. /\ pc[t] = "reviewing"
        /\ rows' = [rows EXCEPT ![r] = Append(R, new)]
        /\ Prior(r, prev[t]).observed < ObservedAt[j]
    BY NotSuperseded DEF SaveReview, Goto
  <1>2. R \in Seq(Row) /\ r \in Run /\ j \in Job /\ RunOf[j] = r
    BY TaskFacts DEF IInv, TypeOK
  <1>3. /\ Len(rows'[r]) = Len(R) + 1
        /\ \A n \in 1..Len(R) : rows'[r][n] = R[n]
        /\ rows'[r][Len(R) + 1] = new
    BY <1>1, <1>2 DEF IInv, TypeOK
  <1>4. \A q \in Run : q # r => rows'[q] = rows[q]
    BY <1>1 DEF IInv, TypeOK
  <1>5. prev[t] = Len(R)
    BY <1>1 DEF IInv, PrevFresh
  <1>6. MapSnapshot[r] = Prior(r, prev[t])
    BY <1>2, <1>5 DEF MapSnapshot
  <1>7. j \notin MapTaken
    <2> SUFFICES ASSUME NEW q \in Run, NEW n \in 1..Len(rows[q]), rows[q][n].job = j
                 PROVE  FALSE
      BY DEF MapTaken
    <2>1. q = r
      BY <1>2 DEF IInv, RowsOfRun
    <2>2. ObservedAt[R[n].job] < ObservedAt[j]
      BY <1>1, <2>1, AllOlder
    <2>3. ObservedAt[j] \in Nat
      BY <1>2, JobAssumption
    <2> QED
      BY <2>1, <2>2, <2>3
  <1>8. MapTaken' = MapTaken \union {j}
    <2>1. new.job = j
      BY DEF NewRow
    <2>2. \A i \in Job : i \in MapTaken' <=> i \in MapTaken \/ i = j
      <3> SUFFICES ASSUME NEW i \in Job
                   PROVE  (\E q \in Run : \E n \in 1..Len(rows'[q]) : rows'[q][n].job = i)
                          <=> (\E q \in Run : \E n \in 1..Len(rows[q]) : rows[q][n].job = i) \/ i = j
        BY DEF MapTaken
      <3>1. ASSUME NEW q \in Run, NEW n \in 1..Len(rows'[q]), rows'[q][n].job = i
            PROVE  (\E p \in Run : \E m \in 1..Len(rows[p]) : rows[p][m].job = i) \/ i = j
        <4>1. CASE q # r
          BY <3>1, <4>1, <1>4
        <4>2. CASE q = r /\ n = Len(R) + 1
          BY <3>1, <4>2, <1>3, <2>1
        <4>3. CASE q = r /\ n # Len(R) + 1
          <5>1. n \in 1..Len(R)
            BY <4>3, <1>2, <1>3
          <5> QED
            BY <3>1, <4>3, <5>1, <1>3
        <4> QED
          BY <4>1, <4>2, <4>3
      <3>2. ASSUME NEW q \in Run, NEW n \in 1..Len(rows[q]), rows[q][n].job = i
            PROVE  \E p \in Run : \E m \in 1..Len(rows'[p]) : rows'[p][m].job = i
        <4>1. CASE q # r
          BY <3>2, <4>1, <1>4
        <4>2. CASE q = r
          <5>1. n \in 1..Len(rows'[r]) /\ rows'[r][n].job = i
            BY <3>2, <4>2, <1>2, <1>3
          <5> QED
            BY <5>1, <1>2
        <4> QED
          BY <4>1, <4>2
      <3>3. \E p \in Run : \E m \in 1..Len(rows'[p]) : rows'[p][m].job = j
        <4>1. Len(R) + 1 \in 1..Len(rows'[r]) /\ rows'[r][Len(R) + 1].job = j
          BY <1>2, <1>3, <2>1
        <4> QED
          BY <4>1, <1>2
      <3> QED
        BY <3>1, <3>2, <3>3
    <2>3. MapTaken \subseteq Job /\ MapTaken' \subseteq Job
      BY DEF MapTaken
    <2> QED
      BY <1>2, <2>2, <2>3
  <1>9. MapSnapshot' = [MapSnapshot EXCEPT ![r] =
            [observed |-> ObservedAt[j], version |-> new.version, asOf |-> new.asOf]]
    <2>1. \A q \in Run : q # r => Prior(q, Len(rows[q]))' = Prior(q, Len(rows[q]))
      BY <1>4 DEF Prior
    <2>2. Prior(r, Len(rows[r]))' =
            [observed |-> ObservedAt[j], version |-> new.version, asOf |-> new.asOf]
      <3>1. Len(R) + 1 # 0 /\ new.job = j
        BY <1>2 DEF NewRow
      <3> QED
        BY <1>3, <3>1 DEF Prior
    <2> QED
      BY <2>1, <2>2, <1>2 DEF MapSnapshot
  <1>10. Ledger!Newer(j)
    BY <1>1, <1>2, <1>6, <1>7 DEF Ledger!Newer, MapSnapshot, MapTaken
  <1>11. CASE o = "reviewed" /\ MemoryEnabled
    <2>1. new.version = MapSnapshot[r].version + 1 /\ new.asOf = ObservedAt[j]
      BY <1>6, <1>11 DEF NewRow, Renews
    <2>2. Ledger!Complete(j)
      BY <1>2, <1>8, <1>9, <1>10, <1>11, <2>1 DEF Ledger!Complete, MapSnapshot, MapTaken
    <2> QED
      BY <2>2, <1>2 DEF Ledger!Next
  <1>12. CASE ~(o = "reviewed" /\ MemoryEnabled)
    <2>1. new.version = MapSnapshot[r].version /\ new.asOf = MapSnapshot[r].asOf
      BY <1>6, <1>12 DEF NewRow, Renews
    <2>2. Ledger!KeepMemory(j)
      BY <1>2, <1>8, <1>9, <1>10, <2>1 DEF Ledger!KeepMemory, MapSnapshot, MapTaken
    <2> QED
      BY <2>2, <1>2 DEF Ledger!Next
  <1> QED
    BY <1>11, <1>12

(* Every other step leaves the table, and with it the ledger, as it is.     *)
LEMMA StepRefines ==
    ASSUME IInv, [Next]_vars
    PROVE  [Ledger!Next]_(Ledger!ledgerVars)
  <1>1. rows' = rows \/ \E t \in Task, o \in Oversight : SaveReview(t, o)
    BY DEF Next, CycleStep, TaskStep, FaultStep, vars, enqueue_outbox, ExpireAbandoned, Overrun,
           Expire, move_outbox_to_jobs, claim_worker_jobs, TryLock, Defer, SkipDone, DropStale,
           BeginReview, SkipReview, mark_job_failed, Raise, MarkFailedLost, CycleError, Crash
  <1>2. CASE rows' = rows
    <2>1. MapSnapshot' = MapSnapshot /\ MapTaken' = MapTaken
      BY <1>2 DEF MapSnapshot, MapTaken, Prior
    <2> QED
      BY <2>1 DEF Ledger!ledgerVars, MapSnapshot, MapTaken
  <1>3. CASE \E t \in Task, o \in Oversight : SaveReview(t, o)
    BY <1>3, SaveIsLedgerStep
  <1> QED
    BY <1>1, <1>2, <1>3

(* The pipeline implements the ledger: the gateway sees each run's snapshot *)
(* advance in observation order, never twice for one observation, and its   *)
(* memory renewed by completed reviews only.                                *)
THEOREM LedgerRefinement == Spec => ImplementsLedger
  <1>1. Init => Ledger!Init
    BY InitLedger
  <1>2. IInv /\ [Next]_vars => [Ledger!Next]_(Ledger!ledgerVars)
    BY StepRefines
  <1> QED
    BY <1>1, <1>2, Invariance, PTL DEF Spec, ImplementsLedger, Ledger!Spec

-----------------------------------------------------------------------------
(* A published job stays published, a skip event and a row stay recorded.   *)
LEMMA RecordsStay ==
    ASSUME IInv, [Next]_vars
    PROVE  /\ \A j \in Job : NewerExists(j) => NewerExists(j)'
           /\ skipped \subseteq skipped'
           /\ MapTaken \subseteq MapTaken'
  <1> USE TaskFacts
  <1>0. TypeOK
    BY DEF IInv
  <1>1. \A j \in Job : Published(j) => Published(j)'
    <2>1. ASSUME NEW w \in Worker, move_outbox_to_jobs(w) \/ claim_worker_jobs(w)
          PROVE  \A j \in Job : Published(j) => Published(j)'
      BY <1>0, <2>1 DEF move_outbox_to_jobs, claim_worker_jobs, Published
    <2>2. ASSUME NEW t \in Task, Defer(t) \/ DropStale(t) \/ SkipReview(t) \/ mark_job_failed(t)
          PROVE  \A j \in Job : Published(j) => Published(j)'
      BY <1>0, <2>2 DEF Defer, DropStale, SkipReview, mark_job_failed, mark_job_done,
                        Published, TypeOK
    <2>3. ASSUME NEW t \in Task, NEW o \in Oversight, SaveReview(t, o)
          PROVE  \A j \in Job : Published(j) => Published(j)'
      BY <1>0, <2>3 DEF SaveReview, mark_job_done, Published, TypeOK
    <2>4. CASE status' = status
      BY <2>4 DEF Published
    <2>5. \/ status' = status
          \/ \E w \in Worker : move_outbox_to_jobs(w) \/ claim_worker_jobs(w)
          \/ \E t \in Task : Defer(t) \/ DropStale(t) \/ SkipReview(t) \/ mark_job_failed(t)
          \/ \E t \in Task, o \in Oversight : SaveReview(t, o)
      BY DEF Next, CycleStep, TaskStep, FaultStep, vars, jobVars, enqueue_outbox,
             ExpireAbandoned, Overrun, Expire, TryLock, SkipDone, BeginReview, Raise,
             MarkFailedLost, CycleError, Crash
    <2> QED
      BY <2>1, <2>2, <2>3, <2>4, <2>5
  <1>2. \A j \in Job : NewerExists(j) => NewerExists(j)'
    BY <1>1 DEF NewerExists
  <1>3. skipped \subseteq skipped'
    BY DEF Next, CycleStep, TaskStep, FaultStep, vars, enqueue_outbox, ExpireAbandoned, Overrun,
           Expire, move_outbox_to_jobs, claim_worker_jobs, TryLock, Defer, SkipDone, DropStale,
           BeginReview, SkipReview, SaveReview, mark_job_failed, Raise, MarkFailedLost,
           CycleError, Crash
  <1>4. MapTaken \subseteq MapTaken'
    <2>1. [Ledger!Next]_(Ledger!ledgerVars)
      BY StepRefines
    <2> QED
      BY <2>1 DEF Ledger!Next, Ledger!Complete, Ledger!KeepMemory, Ledger!ledgerVars, MapTaken
  <1> QED
    BY <1>2, <1>3, <1>4

(* A run's rows hold a job exactly when some row of some run does.          *)
LEMMA TakenInOwnRun ==
    ASSUME IInv, NEW j \in Job
    PROVE  j \in MapTaken <=> \E n \in 1..Len(rows[RunOf[j]]) : rows[RunOf[j]][n].job = j
  BY JobAssumption DEF MapTaken, IInv, RowsOfRun

(* Done jobs stay accounted for in every step.                              *)
LEMMA AccountedStep ==
    ASSUME IInv, DoneAccounted, [Next]_vars
    PROVE  DoneAccounted'
  <1> USE TaskFacts
  <1> DEFINE Traced(j) == j \in skipped \/ j \in MapTaken \/ NewerExists(j)
  <1>0. TypeOK /\ IInv'
    BY IInvStep DEF IInv
  <1>1. \A j \in Job : status[j] = "done" => Traced(j)
    BY TakenInOwnRun DEF DoneAccounted, NewerExists
  <1>2. \A j \in Job : Traced(j) => Traced(j)'
    BY RecordsStay
  <1>3. SUFFICES ASSUME NEW j \in Job, status'[j] = "done"
                 PROVE  Traced(j)'
    <2>1. \A i \in Job : i \in MapTaken' =>
              \E n \in 1..Len(rows'[RunOf[i]]) : rows'[RunOf[i]][n].job = i
      BY <1>0, JobAssumption DEF MapTaken, IInv, RowsOfRun
    <2> QED
      BY <2>1 DEF DoneAccounted, NewerExists
  <1>4. CASE status[j] = "done"
    BY <1>1, <1>2, <1>4
  <1>5. ASSUME NEW t \in Task, DropStale(t), status[j] # "done" PROVE Traced(j)'
    <2>1. j = JobOf(t)
      BY <1>0, <1>3, <1>5 DEF DropStale, mark_job_done, TypeOK
    <2>2. NewerExists(j)
      BY <2>1, <1>5 DEF DropStale
    <2> QED
      BY <2>2, <1>2
  <1>6. ASSUME NEW t \in Task, SkipReview(t), status[j] # "done" PROVE Traced(j)'
    <2>1. j = JobOf(t)
      BY <1>0, <1>3, <1>6 DEF SkipReview, mark_job_done, TypeOK
    <2> QED
      BY <2>1, <1>6 DEF SkipReview
  <1>7. ASSUME NEW t \in Task, NEW o \in Oversight, SaveReview(t, o), status[j] # "done"
        PROVE  Traced(j)'
    <2>1. j = JobOf(t)
      BY <1>0, <1>3, <1>7 DEF SaveReview, mark_job_done, TypeOK
    <2>2. rows[TaskRun(t)] \in Seq(Row)
      BY <1>0 DEF TypeOK
    <2>3. rows'[TaskRun(t)] = Append(rows[TaskRun(t)], NewRow(t, o))
      BY <1>0, <1>7 DEF SaveReview, TypeOK
    <2>4. /\ Len(rows[TaskRun(t)]) + 1 \in 1..Len(rows'[TaskRun(t)])
          /\ rows'[TaskRun(t)][Len(rows[TaskRun(t)]) + 1].job = j
      BY <2>1, <2>2, <2>3 DEF NewRow
    <2>5. j \in MapTaken'
      BY <2>4 DEF MapTaken
    <2> QED
      BY <2>5
  <1>8. \/ status[j] = "done"
        \/ \E t \in Task : DropStale(t) \/ SkipReview(t)
        \/ \E t \in Task, o \in Oversight : SaveReview(t, o)
    <2> SUFFICES ASSUME status[j] # "done",
                        ~(\E t \in Task : DropStale(t) \/ SkipReview(t)),
                        ~(\E t \in Task, o \in Oversight : SaveReview(t, o))
                 PROVE  status'[j] # "done"
      BY <1>3
    <2>1. ASSUME NEW w \in Worker, move_outbox_to_jobs(w) \/ claim_worker_jobs(w)
          PROVE  status'[j] # "done"
      BY <2>1 DEF move_outbox_to_jobs, claim_worker_jobs
    <2>2. ASSUME NEW t \in Task, Defer(t) \/ mark_job_failed(t)
          PROVE  status'[j] # "done"
      BY <1>0, <2>2 DEF Defer, mark_job_failed, TypeOK
    <2>3. \/ status' = status
          \/ \E w \in Worker : move_outbox_to_jobs(w) \/ claim_worker_jobs(w)
          \/ \E t \in Task : Defer(t) \/ mark_job_failed(t)
      BY DEF Next, CycleStep, TaskStep, FaultStep, vars, jobVars, enqueue_outbox,
             ExpireAbandoned, Overrun, Expire, TryLock, SkipDone, BeginReview, Raise,
             MarkFailedLost, CycleError, Crash
    <2> QED
      BY <2>1, <2>2, <2>3
  <1> QED
    BY <1>4, <1>5, <1>6, <1>7, <1>8

(* No observation disappears between the tables: a job is done only with a  *)
(* row, a skip event or a newer observation of its run to show for it.      *)
THEOREM NothingLost == Spec => []DoneAccounted
  <1>1. Init => DoneAccounted
    BY DEF Init, DoneAccounted
  <1>2. IInv /\ DoneAccounted /\ [Next]_vars => DoneAccounted'
    BY AccountedStep
  <1> QED
    BY <1>1, <1>2, Invariance, PTL DEF Spec

-----------------------------------------------------------------------------
(* The completed reviews among the first n rows of a run.                   *)
Completed(s, n) == {m \in 1..n : MemoryEnabled /\ s[m].oversight = "reviewed"}

(* Row n counts the completed reviews so far, and its memory dates from the *)
(* last of them: said with the last one as a witness, which the next row    *)
(* hands on, where MemoryOfLastReview chooses it.                           *)
MemoryOf(s, n) ==
    /\ s[n].version = Cardinality(Completed(s, n))
    /\ \/ Completed(s, n) = {} /\ s[n].asOf = 0
       \/ \E m \in Completed(s, n) : /\ \A k \in Completed(s, n) : k <= m
                                    /\ s[n].asOf = ObservedAt[s[m].job]

MemoryKept(s) == \A n \in 1..Len(s) : MemoryOf(s, n)
MemoryInv == \A r \in Run : MemoryKept(rows[r])

(* A further row changes nothing about the rows before it.                  *)
LEMMA EarlierRowsStay ==
    ASSUME NEW s \in Seq(Row), MemoryKept(s), NEW row \in Row, NEW n \in 1..Len(s)
    PROVE  /\ MemoryOf(Append(s, row), n)
           /\ Completed(Append(s, row), n) = Completed(s, n)
  <1> DEFINE S == Append(s, row)
  <1>1. \A i \in 1..Len(s) : S[i] = s[i]
    OBVIOUS
  <1>2. MemoryOf(s, n) /\ n \in Nat /\ Len(s) \in Nat
    BY DEF MemoryKept
  <1>3. \A i \in 1..n : S[i] = s[i]
    BY <1>1, <1>2
  <1> HIDE DEF S
  <1>4. Completed(S, n) = Completed(s, n)
    BY <1>3 DEF Completed
  <1>5. S[n].version = s[n].version /\ S[n].asOf = s[n].asOf
    BY <1>1
  <1>6. \A m \in Completed(s, n) : S[m].job = s[m].job
    BY <1>3 DEF Completed
  <1>7. MemoryOf(S, n)
    BY <1>2, <1>4, <1>5, <1>6, Zenon DEF MemoryOf
  <1> QED
    BY <1>4, <1>7 DEF S

(* The completed reviews among the first rows are finitely many.            *)
LEMMA CompletedFinite ==
    ASSUME NEW s, NEW n \in Nat
    PROVE  IsFiniteSet(Completed(s, n)) /\ Completed(s, n) \subseteq 1..n
  <1>1. Completed(s, n) \subseteq 1..n
    BY DEF Completed
  <1>2. IsFiniteSet(1..n)
    BY FS_Interval
  <1> QED
    BY <1>1, <1>2, FS_Subset

(* A completed review renews the memory of the row before it.               *)
LEMMA RenewedMemory ==
    ASSUME NEW s \in Seq(Row), MemoryKept(s), NEW row \in Row,
           MemoryEnabled, row.oversight = "reviewed",
           row.version = (IF s = <<>> THEN 0 ELSE s[Len(s)].version) + 1,
           row.asOf = ObservedAt[row.job]
    PROVE  MemoryOf(Append(s, row), Len(s) + 1)
  <1> DEFINE S == Append(s, row)
             N == Len(s)
             C == Completed(s, N)
  <1>1. N \in Nat /\ S[N + 1] = row /\ \A i \in 1..N : S[i] = s[i]
    OBVIOUS
  <1> HIDE DEF S
  <1>2. Completed(S, N + 1) = C \union {N + 1}
    BY <1>1 DEF Completed
  <1>3. IsFiniteSet(C) /\ C \subseteq 1..N
    BY <1>1, CompletedFinite
  <1>4. Cardinality(C) \in Nat /\ Cardinality(C \union {N + 1}) = Cardinality(C) + 1
    <2>1. N + 1 \notin C
      BY <1>1, <1>3
    <2> HIDE DEF C
    <2>2. Cardinality(C) \in Nat
      BY <1>3, FS_CardinalityType
    <2>3. Cardinality(C \union {N + 1}) = Cardinality(C) + 1
      BY <1>3, <2>1, FS_AddElement
    <2> QED
      BY <2>2, <2>3
  <1>5. (IF s = <<>> THEN 0 ELSE s[N].version) = Cardinality(C)
    <2>1. CASE s = <<>>
      <3>1. C = {}
        BY <1>3, <2>1
      <3> QED
        BY <2>1, <3>1, FS_EmptySet
    <2>2. CASE s # <<>>
      <3>1. N \in 1..Len(s)
        BY <2>2
      <3> QED
        BY <2>2, <3>1 DEF MemoryKept, MemoryOf
    <2> QED
      BY <2>1, <2>2
  <1>6. S[N + 1].version = Cardinality(Completed(S, N + 1))
    BY <1>1, <1>2, <1>4, <1>5
  <1>7. /\ N + 1 \in Completed(S, N + 1)
        /\ \A k \in Completed(S, N + 1) : k <= N + 1
    BY <1>1, <1>2, <1>3
  <1>8. S[N + 1].asOf = ObservedAt[S[N + 1].job]
    BY <1>1
  <1> QED
    BY <1>6, <1>7, <1>8 DEF MemoryOf, S

(* A degraded row, or one without memory, carries on what it read.          *)
LEMMA CarriedMemory ==
    ASSUME NEW s \in Seq(Row), MemoryKept(s), NEW row \in Row,
           ~(MemoryEnabled /\ row.oversight = "reviewed"),
           row.version = (IF s = <<>> THEN 0 ELSE s[Len(s)].version),
           row.asOf = (IF s = <<>> THEN 0 ELSE s[Len(s)].asOf)
    PROVE  MemoryOf(Append(s, row), Len(s) + 1)
  <1> DEFINE S == Append(s, row)
             N == Len(s)
             C == Completed(s, N)
  <1>1. N \in Nat /\ S[N + 1] = row /\ \A i \in 1..N : S[i] = s[i]
    OBVIOUS
  <1> HIDE DEF S
  <1>2. Completed(S, N + 1) = C
    BY <1>1 DEF Completed
  <1>3. C \subseteq 1..N
    BY <1>1, CompletedFinite
  <1>4. CASE s = <<>>
    <2>1. C = {} /\ Cardinality(C) = 0
      BY <1>3, <1>4, FS_EmptySet
    <2> QED
      BY <1>1, <1>2, <1>4, <2>1 DEF MemoryOf, S
  <1>5. CASE s # <<>>
    <2>1. N \in 1..Len(s)
      BY <1>5
    <2>2. MemoryOf(s, N)
      BY <2>1 DEF MemoryKept
    <2>3. S[N + 1].version = s[N].version /\ S[N + 1].asOf = s[N].asOf
      BY <1>1, <1>5
    <2>4. \A m \in C : S[m].job = s[m].job
      BY <1>1, <1>3
    <2>5. MemoryOf(S, N + 1)
      BY <1>2, <2>2, <2>3, <2>4, Zenon DEF MemoryOf
    <2> QED
      BY <2>5 DEF S
  <1> QED
    BY <1>4, <1>5

(* Saving a review keeps the memory right, because the row it was built on  *)
(* is still the latest (PrevFresh).                                         *)
LEMMA MemorySaved ==
    ASSUME IInv, MemoryInv, NEW t \in Task, NEW o \in Oversight, SaveReview(t, o)
    PROVE  MemoryInv'
  <1> DEFINE r == TaskRun(t)
             s == rows[r]
             row == NewRow(t, o)
  <1>1. /\ pc[t] = "reviewing" /\ r \in Run
        /\ rows' = [rows EXCEPT ![r] = Append(s, row)]
    BY TaskFacts DEF SaveReview, Goto
  <1>2. s \in Seq(Row) /\ MemoryKept(s)
    BY <1>1 DEF IInv, TypeOK, MemoryInv
  <1>3. prev[t] = Len(s)
    BY <1>1 DEF IInv, PrevFresh
  <1>4. row \in Row
    BY <1>2, <1>3, NewRowType DEF IInv
  <1>5. /\ row.job = JobOf(t) /\ row.oversight = o
        /\ row.version = IF Renews(o) THEN Prior(r, Len(s)).version + 1 ELSE Prior(r, Len(s)).version
        /\ row.asOf = IF Renews(o) THEN ObservedAt[JobOf(t)] ELSE Prior(r, Len(s)).asOf
    BY <1>3 DEF NewRow
  <1>6. /\ Prior(r, Len(s)).version = IF s = <<>> THEN 0 ELSE s[Len(s)].version
        /\ Prior(r, Len(s)).asOf = IF s = <<>> THEN 0 ELSE s[Len(s)].asOf
    <2>1. Len(s) = 0 <=> s = <<>>
      BY <1>2
    <2> QED
      BY <2>1 DEF Prior
  <1>7. MemoryOf(Append(s, row), Len(s) + 1)
    <2> HIDE DEF row, s
    <2>1. CASE Renews(o)
      BY <1>2, <1>4, <1>5, <1>6, <2>1, RenewedMemory DEF Renews
    <2>2. CASE ~Renews(o)
      BY <1>2, <1>4, <1>5, <1>6, <2>2, CarriedMemory DEF Renews
    <2> QED
      BY <2>1, <2>2
  <1>8. MemoryKept(Append(s, row))
    <2> HIDE DEF row, s
    <2>1. Len(Append(s, row)) = Len(s) + 1 /\ Len(s) \in Nat
      BY <1>2, <1>4
    <2>2. \A n \in 1..Len(s) : MemoryOf(Append(s, row), n)
      BY <1>2, <1>4, EarlierRowsStay
    <2> QED
      BY <1>7, <2>1, <2>2 DEF MemoryKept
  <1> HIDE DEF row, s
  <1>9. DOMAIN rows = Run
    BY DEF IInv, TypeOK
  <1> QED
    BY <1>1, <1>8, <1>9 DEF MemoryInv

(* No other step touches the table.                                         *)
LEMMA MemoryStep ==
    ASSUME IInv, MemoryInv, [Next]_vars
    PROVE  MemoryInv'
  <1>1. rows' = rows \/ \E t \in Task, o \in Oversight : SaveReview(t, o)
    BY DEF Next, CycleStep, TaskStep, FaultStep, vars, enqueue_outbox, ExpireAbandoned, Overrun,
           Expire, move_outbox_to_jobs, claim_worker_jobs, TryLock, Defer, SkipDone, DropStale,
           BeginReview, SkipReview, mark_job_failed, Raise, MarkFailedLost, CycleError, Crash
  <1>2. CASE rows' = rows
    BY <1>2 DEF MemoryInv
  <1> QED
    BY <1>1, <1>2, MemorySaved

(* The witness is the review that MemoryOfLastReview chooses.               *)
LEMMA MemoryChosen ==
    ASSUME NEW s, NEW n \in 1..Len(s), Len(s) \in Nat, MemoryOf(s, n)
    PROVE  s[n].asOf = IF Completed(s, n) = {} THEN 0
             ELSE ObservedAt[s[CHOOSE m \in Completed(s, n) :
                                 \A k \in Completed(s, n) : k <= m].job]
  <1>1. CASE Completed(s, n) = {}
    BY <1>1 DEF MemoryOf
  <1>2. CASE Completed(s, n) # {}
    <2> DEFINE last == CHOOSE m \in Completed(s, n) : \A k \in Completed(s, n) : k <= m
    <2>1. PICK m \in Completed(s, n) : /\ \A k \in Completed(s, n) : k <= m
                                      /\ s[n].asOf = ObservedAt[s[m].job]
      BY <1>2 DEF MemoryOf
    <2>2. last \in Completed(s, n) /\ \A k \in Completed(s, n) : k <= last
      BY <2>1
    <2>3. Completed(s, n) \subseteq Nat
      BY DEF Completed
    <2> HIDE DEF last
    <2>4. last = m
      BY <2>1, <2>2, <2>3
    <2> QED
      BY <1>2, <2>1, <2>4 DEF last
  <1> QED
    BY <1>1, <1>2

(* "A failed review keeps the last completed memory with its original       *)
(* timestamps": however reviews fail, retry and overtake each other, a      *)
(* row's memory dates from the last completed review of its run.            *)
THEOREM MemorySound == Spec => []MemoryOfLastReview
  <1>1. Init => MemoryInv
    BY DEF Init, MemoryInv, MemoryKept
  <1>2. IInv /\ MemoryInv /\ [Next]_vars => MemoryInv'
    BY MemoryStep
  <1>3. IInv /\ MemoryInv => MemoryOfLastReview
    <2> SUFFICES ASSUME IInv, MemoryInv, NEW r \in Run, NEW n \in 1..Len(rows[r])
                 PROVE  /\ rows[r][n].version = Cardinality(Completed(rows[r], n))
                        /\ rows[r][n].asOf = IF Completed(rows[r], n) = {} THEN 0
                             ELSE ObservedAt[rows[r][CHOOSE m \in Completed(rows[r], n) :
                                                \A k \in Completed(rows[r], n) : k <= m].job]
      BY Zenon DEF MemoryOfLastReview, Completed
    <2>1. MemoryOf(rows[r], n) /\ Len(rows[r]) \in Nat
      BY DEF MemoryInv, MemoryKept, IInv, TypeOK
    <2> QED
      BY <2>1, MemoryChosen DEF MemoryOf
  <1> QED
    BY <1>1, <1>2, <1>3, Invariance, PTL DEF Spec

-----------------------------------------------------------------------------
(* The review cycle.                                                        *)

(* Memory, where there is some, rests on its own scope.                     *)
MemoryPure(memory) == memory # NoMemory => memory.from = {memory.scope}

(* What a row concludes rests on the scope of the row, the memory it carries *)
(* on the scope of that memory, which may be another one.                   *)
LatestPure ==
    /\ MemoryPure(latest.memory)
    /\ latest.oversight = "reviewed" => latest.from = {latest.scope}

(* While a cycle is under way B has been shown conclusions of the scope of  *)
(* its observation only: the status of the memory was asked when it began.  *)
FedPure == phase # "idle" => fed \subseteq {obs.scope}

ScopeInv == LatestPure /\ FedPure

(* A review that has been accepted, in this cycle or by the latest row, has *)
(* no concern but a grounded one, and a RED row has one.                    *)
ReviewGrounded ==
    /\ review # NoReview => ground_review(review)
    /\ phase = "saving" => review # NoReview

(* The operations of the run are those the latest row counts, those of the  *)
(* cycle under way and those of cycles that were lost.                      *)
OperationsCounted ==
    /\ {rounds, lost, latest.used, fetched} \subseteq Nat
    /\ phase \in {"idle", "reviewing", "sensing", "saving", "degrading"}
    /\ phase = "idle" => rounds = 0
    /\ phase # "idle" => used = latest.used + rounds
    /\ fetched = latest.used + rounds + lost

(* The count is below the budget when an operation is about to be executed, *)
(* and so never above it.                                                   *)
BudgetKept ==
    /\ latest.used + rounds <= OpsPerRun
    /\ phase = "sensing" => used < OpsPerRun

BudgetInv == OperationsCounted /\ BudgetKept

-----------------------------------------------------------------------------
(* What a row offers as memory, its own or that of the schema before, rests *)
(* on the scope it names.                                                   *)
LEMMA CompletedMemoryPure == LatestPure => MemoryPure(completed_memory(latest))
  BY DEF LatestPure, MemoryPure, completed_memory

(* B is shown conclusions of the scope of the observation only.             *)
LEMMA ShownPure ==
    ASSUME LatestPure, NEW s
    PROVE  Shown(s) \subseteq {s}
  <1>1. memory_status(completed_memory(latest), s) = "available"
            => completed_memory(latest).from = {s}
    BY CompletedMemoryPure DEF memory_status, MemoryPure
  <1>2. usable_state(latest, s) => latest.from = {s}
    BY DEF usable_state, LatestPure
  <1> QED
    BY <1>1, <1>2 DEF Shown

(* There is no state yet, or one of the schema before.                      *)
LEMMA InitScope == CycleInit => ScopeInv
  <1> SUFFICES ASSUME CycleInit PROVE ScopeInv
    OBVIOUS
  <1>1. CASE latest = NoState
    BY <1>1 DEF CycleInit, NoState, ScopeInv, LatestPure, FedPure, MemoryPure
  <1>2. CASE \E s \in Scopes : latest = LegacyState(s)
    BY <1>2 DEF CycleInit, LegacyState, ScopeInv, LatestPure, FedPure, MemoryPure
  <1> QED
    BY <1>1, <1>2 DEF CycleInit

(* A cycle takes in its own scope when it begins and writes it when it is   *)
(* saved; a degraded one concludes nothing and carries the memory along.    *)
LEMMA ScopeStep ==
    ASSUME ScopeInv, [CycleNext]_cycleVars
    PROVE  ScopeInv'
  <1> USE DEF ScopeInv, FedPure
  <1>1. ASSUME NEW o \in [at : 1 .. MaxTime, scope : Scopes], NEW r \in Routing, Begin(o, r)
        PROVE  ScopeInv'
    BY <1>1, ShownPure DEF Begin, LatestPure
  <1>2. CASE \/ Tick \/ Retry \/ GiveUp \/ _execute_evidence
             \/ \E r \in Accepted : Obtain(r)
    BY <1>2 DEF Tick, Retry, GiveUp, _execute_evidence, Obtain, LatestPure
  <1>3. CASE Save
    <2>1. phase # "idle" /\ latest' = reviewed_state /\ phase' = "idle"
      BY <1>3 DEF Save, EndCycle
    <2>2. Lineage = {obs.scope}
      BY <2>1 DEF Lineage
    <2>3. MemoryPure(reviewed_state.memory)
      BY <2>2, CompletedMemoryPure DEF reviewed_state, MemoryPure
    <2>4. reviewed_state.from = {reviewed_state.scope}
      BY <2>2 DEF reviewed_state
    <2> QED
      BY <2>1, <2>3, <2>4 DEF LatestPure
  <1>4. CASE Degrade
    <2>1. latest' = degraded_state /\ phase' = "idle"
      BY <1>4 DEF Degrade, EndCycle
    <2>2. degraded_state.memory = completed_memory(latest)
          /\ degraded_state.oversight = "degraded"
      BY DEF degraded_state
    <2> QED
      BY <2>1, <2>2, CompletedMemoryPure DEF LatestPure
  <1>5. CASE Rollback
    BY <1>5 DEF Rollback, EndCycle, LatestPure
  <1>6. CASE UNCHANGED cycleVars
    BY <1>6 DEF cycleVars, LatestPure
  <1> QED
    BY <1>1, <1>2, <1>3, <1>4, <1>5, <1>6 DEF CycleNext

(* What B concluded about one scope is never told as current in another.    *)
THEOREM ScopesSound == CycleSpec => []ScopesKeptApart
  <1>1. ScopeInv => ScopesKeptApart
    <2> SUFFICES ASSUME ScopeInv, NEW s \in Scopes
                 PROVE  /\ run_state(s).oversight = "reviewed" => latest.from = {s}
                        /\ run_state(s).memory = "available"
                               => completed_memory(latest).from = {s}
      BY DEF ScopesKeptApart
    <2>1. run_state(s).oversight = "reviewed" => usable_state(latest, s)
      BY DEF run_state, usable_state
    <2>2. run_state(s).memory = "available"
              => memory_status(completed_memory(latest), s) = "available"
      BY DEF run_state
    <2> QED
      BY <2>1, <2>2, CompletedMemoryPure
         DEF ScopeInv, LatestPure, usable_state, memory_status, MemoryPure
  <1> QED
    BY InitScope, ScopeStep, <1>1, PTL DEF CycleSpec

-----------------------------------------------------------------------------
(* An accepted review is a review, and a grounded one.                      *)
LEMMA AcceptedGrounded ==
    ASSUME NEW r \in Accepted
    PROVE  r # NoReview /\ ground_review(r)
  <1>1. PICK out \in Output : r = out.says /\ ground_review(out.says)
    BY DEF Accepted
  <1>2. r.level \in Level
    BY <1>1 DEF Output, Review
  <1> QED
    BY <1>1, <1>2 DEF NoReview, Level

(* No review has been had, and a row of the schema before names no concern. *)
LEMMA InitGrounded == CycleInit => ReviewGrounded /\ FindingsGrounded
  <1> SUFFICES ASSUME CycleInit PROVE ReviewGrounded /\ FindingsGrounded
    OBVIOUS
  <1>1. ReviewGrounded
    BY DEF CycleInit, ReviewGrounded
  <1>2. latest.level # "RED" /\ latest.concerns = {}
    BY DEF CycleInit, NoState, LegacyState
  <1> QED
    BY <1>1, <1>2 DEF FindingsGrounded

(* Whatever is kept of a cycle is the last review that was accepted.        *)
LEMMA GroundedStep ==
    ASSUME ReviewGrounded, FindingsGrounded, [CycleNext]_cycleVars
    PROVE  ReviewGrounded' /\ FindingsGrounded'
  <1> USE DEF ReviewGrounded
  <1>1. ASSUME NEW o \in [at : 1 .. MaxTime, scope : Scopes], NEW r \in Routing, Begin(o, r)
        PROVE  ReviewGrounded' /\ FindingsGrounded'
    BY <1>1 DEF Begin, FindingsGrounded, ground_review
  <1>2. CASE Tick \/ Retry \/ GiveUp \/ _execute_evidence
    BY <1>2 DEF Tick, Retry, GiveUp, _execute_evidence, FindingsGrounded, ground_review
  <1>3. ASSUME NEW r \in Accepted, Obtain(r)
        PROVE  ReviewGrounded' /\ FindingsGrounded'
    BY <1>3, AcceptedGrounded DEF Obtain, FindingsGrounded, ground_review
  <1>4. CASE Save
    <2>1. latest' = reviewed_state /\ phase' = "idle" /\ review' = NoReview
      BY <1>4 DEF Save, EndCycle
    <2>2. ground_review(review)
      BY <1>4 DEF Save
    <2>3. reviewed_state.level = "RED" => review.concerns # {}
      BY DEF reviewed_state, Downgraded
    <2>4. reviewed_state.concerns = IF ClaimsEnabled THEN review.concerns ELSE {}
      BY DEF reviewed_state
    <2>5. \A c \in review.concerns :
              /\ c.claim = "OUTPUT"
              /\ c.basis \in {"none", "CONTEXT"}
              /\ c.basis = "none" => c.signal = "UNSUPPORTED"
      BY <2>2 DEF ground_review, Grounded
    <2> QED
      BY <2>1, <2>3, <2>4, <2>5 DEF FindingsGrounded
  <1>5. CASE Degrade
    <2>1. latest' = degraded_state /\ phase' = "idle" /\ review' = NoReview
      BY <1>5 DEF Degrade, EndCycle
    <2>2. degraded_state.oversight = "degraded"
      BY DEF degraded_state
    <2> QED
      BY <2>1, <2>2 DEF FindingsGrounded
  <1>6. CASE Rollback
    BY <1>6 DEF Rollback, EndCycle, FindingsGrounded
  <1>7. CASE UNCHANGED cycleVars
    BY <1>7 DEF cycleVars, FindingsGrounded, ground_review
  <1> QED
    BY <1>1, <1>2, <1>3, <1>4, <1>5, <1>6, <1>7 DEF CycleNext

(* Every concern that is saved quotes the answer and rests on the record.   *)
THEOREM FindingsSound == CycleSpec => []FindingsGrounded
  BY InitGrounded, GroundedStep, PTL DEF CycleSpec

-----------------------------------------------------------------------------
(* Nothing has been counted, and nothing executed.                          *)
LEMMA InitBudget == CycleInit => BudgetInv
  <1> SUFFICES ASSUME CycleInit PROVE BudgetInv
    OBVIOUS
  <1>1. latest.used = 0
    BY DEF CycleInit, NoState, LegacyState
  <1>2. phase = "idle" /\ rounds = 0 /\ fetched = 0 /\ lost = 0
    BY DEF CycleInit
  <1> QED
    BY <1>1, <1>2, CycleAssumption DEF BudgetInv, OperationsCounted, BudgetKept

(* A cycle takes the count over from the latest row, adds its operations,   *)
(* and either saves it or loses them.                                       *)
LEMMA BudgetStep ==
    ASSUME BudgetInv, [CycleNext]_cycleVars
    PROVE  BudgetInv'
  <1> USE CycleAssumption DEF BudgetInv, OperationsCounted, BudgetKept
  <1>1. ASSUME NEW o \in [at : 1 .. MaxTime, scope : Scopes], NEW r \in Routing, Begin(o, r)
        PROVE  BudgetInv'
    BY <1>1 DEF Begin
  <1>2. CASE Tick \/ Retry \/ GiveUp
    BY <1>2 DEF Tick, Retry, GiveUp
  <1>3. ASSUME NEW r \in Accepted, Obtain(r) PROVE BudgetInv'
    BY <1>3 DEF Obtain, Senses
  <1>4. CASE _execute_evidence
    BY <1>4 DEF _execute_evidence
  <1>5. CASE Save
    <2>1. phase = "saving" /\ latest' = reviewed_state
          /\ phase' = "idle" /\ rounds' = 0 /\ UNCHANGED <<fetched, lost>>
      BY <1>5 DEF Save, EndCycle
    <2>2. reviewed_state.used = used
      BY DEF reviewed_state
    <2> QED
      BY <2>1, <2>2
  <1>6. CASE Degrade
    <2>1. latest' = degraded_state /\ lost' = lost + rounds
          /\ phase' = "idle" /\ rounds' = 0 /\ UNCHANGED fetched
      BY <1>6 DEF Degrade, EndCycle
    <2>2. degraded_state.used = latest.used
      BY DEF degraded_state
    <2> QED
      BY <2>1, <2>2
  <1>7. CASE Rollback
    BY <1>7 DEF Rollback, EndCycle
  <1>8. CASE UNCHANGED cycleVars
    BY <1>8 DEF cycleVars
  <1> QED
    BY <1>1, <1>2, <1>3, <1>4, <1>5, <1>6, <1>7, <1>8 DEF CycleNext

(* The evidence budget is the run's: only failed cycles exceed it.          *)
THEOREM BudgetSound == CycleSpec => []EvidenceWithinBudget
  <1>1. BudgetInv => EvidenceWithinBudget
    BY CycleAssumption DEF BudgetInv, OperationsCounted, BudgetKept, EvidenceWithinBudget
  <1> QED
    BY InitBudget, BudgetStep, <1>1, PTL DEF CycleSpec
=============================================================================
