--------------------------- MODULE JobQueueProofs ---------------------------
(***************************************************************************)
(* Proofs about JobQueue, for any number of jobs, workers, tenants and     *)
(* documents, any retry delays and any number of faults.                   *)
(***************************************************************************)
EXTENDS JobQueue, TLAPS

-----------------------------------------------------------------------------
(* The inductive invariant, in named parts.                                *)

\* What a worker has in its hands agrees with where it is in tick(): the row
\* it locked is still queued, the row it executes is still `processing'.
HeldOK ==
  \A w \in Workers :
    /\ pc[w] # "idle" => held[w] \in Jobs
    /\ pc[w] = "reserving" => jobs[held[w]].status = "queued"
    /\ pc[w] \in {"handling", "marking"} => jobs[held[w]].status = "processing"
    /\ pc[w] = "marking" => result[w] \in Results

\* No row is in the hands of two workers, whatever each is doing with it.
HeldOnce ==
  \A v, w \in Workers :
    v # w /\ pc[v] # "idle" /\ pc[w] # "idle" => held[v] # held[w]

\* A job that was put back while i was due is due later than i.
BehindOK ==
  \A i \in Jobs : \A j \in behind[i] :
    /\ jobs[i].status = "queued"
    /\ jobs[i].runAfter <= clock
    /\ jobs[j].status # "absent"
    /\ jobs[j].status = "queued" => jobs[i].runAfter < jobs[j].runAfter

IInv ==
  /\ JobQueueTypeOK
  /\ HeldOK
  /\ HeldOnce
  /\ BehindOK
  /\ OnePendingPurge

-----------------------------------------------------------------------------
\* Facts about the outcomes a handler may return.
LEMMA ResultFacts ==
  \A r \in Results :
    /\ r.kind \in {"succeeded", "failed", "queued"}
    /\ r.delay \in Nat
    /\ r.kind = "queued" => r.delay > 0
  BY JobQueueAssumption DEF Results, Success, Failed, Retry

\* Changing the status of one row leaves the table a table of rows.
LEMMA StatusUpdate ==
  ASSUME NEW f \in [Jobs -> Row], NEW j \in Jobs, NEW s \in Statuses
  PROVE  [f EXCEPT ![j].status = s] \in [Jobs -> Row]
<1>1. f[j] \in Row
  OBVIOUS
<1>2. [f[j] EXCEPT !.status = s] \in Row
  BY <1>1 DEF Row
<1>. QED
  BY <1>2

\* Putting a row back with a new due time leaves it a row.
LEMMA RetryUpdate ==
  ASSUME NEW f \in [Jobs -> Row], NEW j \in Jobs, NEW n \in Nat
  PROVE  [f EXCEPT ![j].status = "queued", ![j].runAfter = n] \in [Jobs -> Row]
<1>1. f[j] \in Row
  OBVIOUS
<1>2. [f[j] EXCEPT !.status = "queued"] \in Row
  BY <1>1 DEF Row, Statuses
<1>3. [[f[j] EXCEPT !.status = "queued"] EXCEPT !.runAfter = n] \in Row
  BY <1>2 DEF Row
<1>. QED
  BY <1>3

\* The empty table satisfies the invariant.
LEMMA InitIInv == QueueInit => IInv
  BY JobQueueAssumption
  DEF QueueInit, IInv, JobQueueTypeOK, HeldOK, HeldOnce, BehindOK, OnePendingPurge,
      PendingPurge, NoRow, Row, Statuses, Stages, Purge

\* Type correctness is preserved by every step.
LEMMA TypeStep == IInv /\ [QueueNext]_queueVars => JobQueueTypeOK'
<1> SUFFICES ASSUME IInv, [QueueNext]_queueVars PROVE JobQueueTypeOK'
  OBVIOUS
<1> USE JobQueueAssumption DEF IInv, JobQueueTypeOK, Stages
<1>1. ASSUME NEW j \in Jobs, NEW ty \in JobTypes, NEW t \in Tenants,
             NEW d \in Documents, InsertJob(j, ty, t, d),
             UNCHANGED <<pc, held, scope, result, clock, faults, behind>>
      PROVE  JobQueueTypeOK'
  BY <1>1 DEF InsertJob, Row, Statuses
<1>2. ASSUME NEW t \in Tenants, NEW k \in Jobs \union {None}, DetachJobs(t, k)
      PROVE  JobQueueTypeOK'
  BY <1>2 DEF DetachJobs, Row, Statuses
<1>3. ASSUME NEW w \in Workers, NEW j \in Jobs, LockJob(w, j)
      PROVE  JobQueueTypeOK'
  BY <1>3 DEF LockJob
<1>4. ASSUME NEW w \in Workers, ReserveJob(w) PROVE JobQueueTypeOK'
  <2>1. held[w] \in Jobs
    BY <1>4 DEF ReserveJob, HeldOK
  <2>2. jobs' \in [Jobs -> Row]
    BY <1>4, <2>1, StatusUpdate DEF ReserveJob, Statuses
  <2>3. jobs[held[w]].tenant \in Tenants \union {None}
    BY <2>1 DEF Row
  <2>4. scope' \in [Workers -> Tenants \union {None}]
    BY <1>4, <2>3 DEF ReserveJob
  <2>5. /\ pc' \in [Workers -> Stages]
        /\ result' \in [Workers -> Results \union {None}]
    BY <1>4 DEF ReserveJob, Results
  <2>6. behind' \in [Jobs -> SUBSET Jobs]
    BY <1>4 DEF ReserveJob
  <2>. QED
    BY <1>4, <2>2, <2>4, <2>5, <2>6 DEF ReserveJob
<1>5. ASSUME NEW w \in Workers, NEW r \in Results, Handle(w, r)
      PROVE  JobQueueTypeOK'
  BY <1>5 DEF Handle
<1>6. ASSUME NEW w \in Workers, MarkJob(w) PROVE JobQueueTypeOK'
  <2>1. held[w] \in Jobs /\ result[w] \in Results
    BY <1>6 DEF MarkJob, HeldOK
  <2>2. result[w].kind \in Statuses
    BY <2>1, ResultFacts DEF Statuses
  <2>3. [jobs EXCEPT ![held[w]].status = result[w].kind] \in [Jobs -> Row]
    BY <2>1, <2>2, StatusUpdate
  <2>. QED
    BY <1>6, <2>3 DEF MarkJob, Release, Results
<1>7. ASSUME NEW w \in Workers, RetryJob(w) PROVE JobQueueTypeOK'
  <2>1. held[w] \in Jobs /\ result[w] \in Results
    BY <1>7 DEF RetryJob, HeldOK
  <2>2. clock + result[w].delay \in Nat
    BY <2>1, ResultFacts
  <2>3. [jobs EXCEPT ![held[w]].status = "queued",
                     ![held[w]].runAfter = clock + result[w].delay]
          \in [Jobs -> Row]
    BY <2>1, <2>2, RetryUpdate
  <2>4. behind' \in [Jobs -> SUBSET Jobs]
    BY <1>7, <2>1 DEF RetryJob
  <2>. QED
    BY <1>7, <2>3, <2>4 DEF RetryJob, Release, Results
<1>8. ASSUME NEW w \in Workers, LoseWorker(w) PROVE JobQueueTypeOK'
  BY <1>8 DEF LoseWorker, Release
<1>9. CASE Tick
  BY <1>9 DEF Tick
<1>10. CASE UNCHANGED queueVars
  BY <1>10 DEF queueVars
<1>. QED
  BY <1>1, <1>2, <1>3, <1>4, <1>5, <1>6, <1>7, <1>8, <1>9, <1>10
  DEF QueueNext, Callers, WorkerStep, EnqueueJob, EnqueueJobIfNotExists

-----------------------------------------------------------------------------
(* The other parts of IInv are preserved by the steps that touch the rows  *)
(* or a worker.                                                            *)

StepOK == HeldOK' /\ HeldOnce' /\ BehindOK' /\ OnePendingPurge'

\* A caller inserts a row no worker holds and no history mentions.
LEMMA InsertStep ==
  ASSUME IInv, NEW j \in Jobs, NEW ty \in JobTypes, NEW t \in Tenants,
         NEW d \in Documents, InsertJob(j, ty, t, d),
         ty = Purge => \A i \in Jobs : ~PendingPurge(i, t, d),
         UNCHANGED <<pc, held, scope, result, clock, faults, behind>>
  PROVE  StepOK
<1> USE DEF IInv, JobQueueTypeOK
<1>1. /\ jobs[j].status = "absent"
      /\ jobs'[j] = [type |-> ty, tenant |-> t, doc |-> d,
                     status |-> "queued", runAfter |-> clock]
      /\ \A i \in Jobs : i # j => jobs'[i] = jobs[i]
  BY DEF InsertJob
<1>2. HeldOK'
  BY <1>1 DEF HeldOK
<1>3. HeldOnce'
  BY DEF HeldOnce
<1>4. BehindOK'
  BY <1>1 DEF BehindOK
<1>5. OnePendingPurge'
  <2> SUFFICES ASSUME NEW a \in Jobs, NEW b \in Jobs, NEW u \in Tenants,
                      NEW e \in Documents, a # b,
                      PendingPurge(a, u, e)', PendingPurge(b, u, e)'
               PROVE  FALSE
    BY DEF OnePendingPurge
  <2>1. CASE a # j /\ b # j
    BY <2>1, <1>1 DEF OnePendingPurge, PendingPurge
  <2>2. CASE a = j
    BY <2>2, <1>1 DEF PendingPurge
  <2>3. CASE b = j
    BY <2>3, <1>1 DEF PendingPurge
  <2>. QED
    BY <2>1, <2>2, <2>3
<1>. QED
  BY <1>2, <1>3, <1>4, <1>5 DEF StepOK

\* Detaching only clears tenant_id.
LEMMA DetachStep ==
  ASSUME IInv, NEW t \in Tenants, NEW k \in Jobs \union {None}, DetachJobs(t, k)
  PROVE  StepOK
<1> USE JobQueueAssumption DEF IInv, JobQueueTypeOK
<1>1. \A i \in Jobs :
        /\ jobs'[i].status = jobs[i].status
        /\ jobs'[i].runAfter = jobs[i].runAfter
        /\ jobs'[i].type = jobs[i].type
        /\ jobs'[i].doc = jobs[i].doc
        /\ jobs'[i].tenant \in Tenants => jobs'[i].tenant = jobs[i].tenant
  BY DEF DetachJobs, Row
<1>2. UNCHANGED <<pc, held, scope, result, clock, faults, behind>>
  BY DEF DetachJobs
<1>3. HeldOK'
  BY <1>1, <1>2 DEF HeldOK
<1>4. HeldOnce'
  BY <1>2 DEF HeldOnce
<1>5. BehindOK'
  BY <1>1, <1>2 DEF BehindOK
<1>6. OnePendingPurge'
  <2> SUFFICES ASSUME NEW a \in Jobs, NEW b \in Jobs, NEW u \in Tenants,
                      NEW e \in Documents,
                      PendingPurge(a, u, e)', PendingPurge(b, u, e)'
               PROVE  a = b
    BY DEF OnePendingPurge
  <2>1. PendingPurge(a, u, e) /\ PendingPurge(b, u, e)
    BY <1>1 DEF PendingPurge
  <2>. QED
    BY <2>1 DEF OnePendingPurge
<1>. QED
  BY <1>3, <1>4, <1>5, <1>6 DEF StepOK

\* SKIP LOCKED: the row a worker locks is in no other worker's hands.
LEMMA LockStep ==
  ASSUME IInv, NEW w \in Workers, NEW j \in Jobs, LockJob(w, j)
  PROVE  StepOK
<1> USE DEF IInv, JobQueueTypeOK
<1>1. /\ jobs[j].status = "queued"
      /\ \A v \in Workers : pc[v] = "reserving" => held[v] # j
      /\ UNCHANGED <<jobs, scope, result, clock, faults, behind>>
      /\ pc[w] = "idle"
      /\ pc' = [pc EXCEPT ![w] = "reserving"]
      /\ held' = [held EXCEPT ![w] = j]
  BY DEF LockJob, Reservable, Due, Locked
<1>2. \A v \in Workers : pc[v] # "idle" => held[v] # j
  BY <1>1 DEF HeldOK, Stages
<1>3. HeldOK'
  BY <1>1 DEF HeldOK
<1>4. HeldOnce'
  BY <1>1, <1>2 DEF HeldOnce
<1>5. BehindOK'
  BY <1>1 DEF BehindOK
<1>6. OnePendingPurge'
  BY <1>1 DEF OnePendingPurge, PendingPurge
<1>. QED
  BY <1>3, <1>4, <1>5, <1>6 DEF StepOK

\* What the worker's update leaves of the other rows and of the workers.
LEMMA ReserveStep ==
  ASSUME IInv, NEW w \in Workers, ReserveJob(w)
  PROVE  StepOK
<1> USE DEF IInv, JobQueueTypeOK
<1> DEFINE j == held[w]
<1>1. /\ j \in Jobs
      /\ jobs[j].status = "queued"
      /\ pc[w] = "reserving"
  BY DEF ReserveJob, HeldOK
<1>2. /\ jobs' = [jobs EXCEPT ![j].status = "processing"]
      /\ behind' = [behind EXCEPT ![j] = {}]
      /\ UNCHANGED <<held, clock, faults>>
      /\ \/ pc' = [pc EXCEPT ![w] = "handling"] /\ result' = result
         \/ /\ pc' = [pc EXCEPT ![w] = "marking"]
            /\ result' = [result EXCEPT ![w] = Failed]
  BY DEF ReserveJob
<1>3. /\ \A i \in Jobs : i # j => jobs'[i] = jobs[i]
      /\ jobs'[j].status = "processing"
      /\ jobs'[j].type = jobs[j].type
      /\ jobs'[j].tenant = jobs[j].tenant
      /\ jobs'[j].doc = jobs[j].doc
      /\ jobs'[j].runAfter = jobs[j].runAfter
  BY <1>1, <1>2 DEF Row
<1>4. \A v \in Workers : v # w /\ pc[v] # "idle" => held[v] # j
  BY <1>1 DEF HeldOnce
<1>5. HeldOK'
  BY <1>1, <1>2, <1>3, <1>4 DEF HeldOK, Results
<1>6. HeldOnce'
  BY <1>1, <1>2 DEF HeldOnce
<1>7. BehindOK'
  BY <1>1, <1>2, <1>3 DEF BehindOK
<1>8. OnePendingPurge'
  <2>1. \A i \in Jobs, u \in Tenants, e \in Documents :
          PendingPurge(i, u, e)' => PendingPurge(i, u, e)
    BY <1>1, <1>3 DEF PendingPurge
  <2>. QED
    BY <2>1 DEF OnePendingPurge
<1>. QED
  BY <1>5, <1>6, <1>7, <1>8 DEF StepOK

\* A handler that returns changes nothing but its worker's own stage.
LEMMA HandleStep ==
  ASSUME IInv, NEW w \in Workers, NEW r \in Results, Handle(w, r)
  PROVE  StepOK
<1> USE DEF IInv, JobQueueTypeOK
<1>1. /\ pc[w] = "handling"
      /\ pc' = [pc EXCEPT ![w] = "marking"]
      /\ result' = [result EXCEPT ![w] = r]
      /\ UNCHANGED <<jobs, held, scope, clock, faults, behind>>
  BY DEF Handle
<1>2. HeldOK'
  BY <1>1 DEF HeldOK
<1>3. HeldOnce'
  BY <1>1 DEF HeldOnce
<1>4. BehindOK'
  BY <1>1 DEF BehindOK
<1>5. OnePendingPurge'
  BY <1>1 DEF OnePendingPurge, PendingPurge
<1>. QED
  BY <1>2, <1>3, <1>4, <1>5 DEF StepOK

\* Both ways to record an outcome change the claimant's own row only.
LEMMA MarkStep ==
  ASSUME IInv, NEW w \in Workers, MarkJob(w)
  PROVE  StepOK
<1> USE DEF IInv, JobQueueTypeOK
<1> DEFINE j == held[w]
<1>1. /\ j \in Jobs
      /\ jobs[j].status = "processing"
      /\ pc[w] = "marking"
      /\ result[w].kind \in {"succeeded", "failed"}
  BY DEF MarkJob, HeldOK, Success, Failed
<1>2. /\ jobs' = [jobs EXCEPT ![j].status = result[w].kind]
      /\ pc' = [pc EXCEPT ![w] = "idle"]
      /\ held' = [held EXCEPT ![w] = None]
      /\ result' = [result EXCEPT ![w] = None]
      /\ UNCHANGED <<clock, faults, behind>>
  BY DEF MarkJob, Release
<1>3. /\ \A i \in Jobs : i # j => jobs'[i] = jobs[i]
      /\ jobs'[j].status = result[w].kind
      /\ jobs'[j].type = jobs[j].type
      /\ jobs'[j].tenant = jobs[j].tenant
      /\ jobs'[j].doc = jobs[j].doc
      /\ jobs'[j].runAfter = jobs[j].runAfter
  BY <1>1, <1>2 DEF Row
<1>4. \A v \in Workers : v # w /\ pc[v] # "idle" => held[v] # j
  BY <1>1 DEF HeldOnce
<1>5. HeldOK'
  BY <1>1, <1>2, <1>3, <1>4 DEF HeldOK
<1>6. HeldOnce'
  BY <1>1, <1>2 DEF HeldOnce
<1>7. BehindOK'
  BY <1>1, <1>2, <1>3 DEF BehindOK
<1>8. OnePendingPurge'
  <2>1. \A i \in Jobs, u \in Tenants, e \in Documents :
          PendingPurge(i, u, e)' => PendingPurge(i, u, e)
    BY <1>1, <1>3 DEF PendingPurge
  <2>. QED
    BY <2>1 DEF OnePendingPurge
<1>. QED
  BY <1>5, <1>6, <1>7, <1>8 DEF StepOK

\* A row put back is due later than every row that is due now.
LEMMA RetryStep ==
  ASSUME IInv, NEW w \in Workers, RetryJob(w)
  PROVE  StepOK
<1> USE DEF IInv, JobQueueTypeOK
<1> DEFINE j == held[w]
<1>1. /\ j \in Jobs
      /\ jobs[j].status = "processing"
      /\ pc[w] = "marking"
      /\ result[w].delay \in Nat
      /\ result[w].delay > 0
  BY ResultFacts DEF RetryJob, HeldOK
<1>2. /\ jobs' = [jobs EXCEPT ![j].status = "queued",
                              ![j].runAfter = clock + result[w].delay]
      /\ pc' = [pc EXCEPT ![w] = "idle"]
      /\ held' = [held EXCEPT ![w] = None]
      /\ result' = [result EXCEPT ![w] = None]
      /\ behind' = [i \in Jobs |-> IF Due(i) THEN behind[i] \union {j}
                                   ELSE behind[i]]
      /\ UNCHANGED <<clock, faults>>
  BY DEF RetryJob, Release
<1>3. /\ \A i \in Jobs : i # j => jobs'[i] = jobs[i]
      /\ jobs'[j].status = "queued"
      /\ jobs'[j].type = jobs[j].type
      /\ jobs'[j].tenant = jobs[j].tenant
      /\ jobs'[j].doc = jobs[j].doc
      /\ jobs'[j].runAfter = clock + result[w].delay
  BY <1>1, <1>2 DEF Row
<1>4. \A v \in Workers : v # w /\ pc[v] # "idle" => held[v] # j
  BY <1>1 DEF HeldOnce
<1>5. HeldOK'
  BY <1>1, <1>2, <1>3, <1>4 DEF HeldOK
<1>6. HeldOnce'
  BY <1>1, <1>2 DEF HeldOnce
<1>7. BehindOK'
  <2> SUFFICES ASSUME NEW i \in Jobs, NEW k \in behind'[i]
               PROVE  /\ jobs'[i].status = "queued"
                      /\ jobs'[i].runAfter <= clock'
                      /\ jobs'[k].status # "absent"
                      /\ jobs'[k].status = "queued"
                           => jobs'[i].runAfter < jobs'[k].runAfter
    BY DEF BehindOK
  <2>1. /\ jobs[i].status = "queued"
        /\ jobs[i].runAfter <= clock
        /\ i # j
    BY <1>1, <1>2 DEF BehindOK, Due
  <2>2. jobs[i].runAfter \in Nat
    BY DEF Row
  <2>3. CASE k = j
    BY <2>1, <2>2, <2>3, <1>1, <1>2, <1>3
  <2>4. CASE k # j
    <3>1. k \in behind[i]
      BY <2>4, <1>2
    <3>. QED
      BY <3>1, <2>1, <2>4, <1>2, <1>3 DEF BehindOK
  <2>. QED
    BY <2>3, <2>4
<1>8. OnePendingPurge'
  <2>1. \A i \in Jobs, u \in Tenants, e \in Documents :
          PendingPurge(i, u, e)' => PendingPurge(i, u, e)
    BY <1>1, <1>3 DEF PendingPurge
  <2>. QED
    BY <2>1 DEF OnePendingPurge
<1>. QED
  BY <1>5, <1>6, <1>7, <1>8 DEF StepOK

\* A lost worker lets go of its row; the row keeps its status.
LEMMA LoseStep ==
  ASSUME IInv, NEW w \in Workers, LoseWorker(w)
  PROVE  StepOK
<1> USE DEF IInv, JobQueueTypeOK
<1>1. /\ pc' = [pc EXCEPT ![w] = "idle"]
      /\ held' = [held EXCEPT ![w] = None]
      /\ result' = [result EXCEPT ![w] = None]
      /\ UNCHANGED <<jobs, clock, behind>>
  BY DEF LoseWorker, Release
<1>2. HeldOK'
  BY <1>1 DEF HeldOK
<1>3. HeldOnce'
  BY <1>1 DEF HeldOnce
<1>4. BehindOK'
  BY <1>1 DEF BehindOK
<1>5. OnePendingPurge'
  BY <1>1 DEF OnePendingPurge, PendingPurge
<1>. QED
  BY <1>2, <1>3, <1>4, <1>5 DEF StepOK

\* Time only makes rows due; it never undoes the history.
LEMMA TickStep ==
  ASSUME IInv, Tick
  PROVE  StepOK
<1> USE DEF IInv, JobQueueTypeOK
<1>1. /\ clock' = clock + 1
      /\ UNCHANGED <<jobs, pc, held, scope, result, faults, behind>>
  BY DEF Tick
<1>2. HeldOK' /\ HeldOnce' /\ OnePendingPurge'
  BY <1>1 DEF HeldOK, HeldOnce, OnePendingPurge, PendingPurge
<1>3. BehindOK'
  <2>1. \A i \in Jobs : jobs[i].runAfter \in Nat
    BY DEF Row
  <2>. QED
    BY <1>1, <2>1 DEF BehindOK
<1>. QED
  BY <1>2, <1>3 DEF StepOK

-----------------------------------------------------------------------------
\* Every step of callers, workers, faults and time preserves the invariant.
LEMMA NextIInv == IInv /\ [QueueNext]_queueVars => IInv'
<1> SUFFICES ASSUME IInv, [QueueNext]_queueVars PROVE IInv'
  OBVIOUS
<1>1. JobQueueTypeOK'
  BY TypeStep
<1>2. StepOK
  <2>1. ASSUME NEW j \in Jobs, NEW ty \in JobTypes, NEW t \in Tenants,
               NEW d \in Documents, EnqueueJob(j, ty, t, d)
        PROVE  StepOK
    BY <2>1, InsertStep DEF EnqueueJob
  <2>2. ASSUME NEW j \in Jobs, NEW t \in Tenants, NEW d \in Documents,
               EnqueueJobIfNotExists(j, t, d)
        PROVE  StepOK
    BY <2>2, InsertStep DEF EnqueueJobIfNotExists
  <2>3. CASE UNCHANGED queueVars
    BY <2>3 DEF queueVars, StepOK, IInv, HeldOK, HeldOnce, BehindOK,
                OnePendingPurge, PendingPurge
  <2>. QED
    BY <2>1, <2>2, <2>3, DetachStep, LockStep, ReserveStep, HandleStep, MarkStep,
       RetryStep, LoseStep, TickStep
    DEF QueueNext, Callers, WorkerStep
<1>. QED
  BY <1>1, <1>2 DEF IInv, StepOK

\* The invariant holds in every reachable state.
LEMMA QueueInvariant == QueueSpec => []IInv
  BY InitIInv, NextIInv, PTL DEF QueueSpec

-----------------------------------------------------------------------------
(* What follows for the jobs table.                                        *)

\* Every reachable row, worker and history value has its type.
THEOREM TypeCorrect == QueueSpec => []JobQueueTypeOK
  BY QueueInvariant, PTL DEF IInv

\* reserve_job and the marks of workers/mod.rs: no two workers execute one
\* job, and a job being executed stays `processing' until its own worker
\* settles it, whatever the other workers and the callers do meanwhile.
THEOREM Exclusion == QueueSpec => []ExclusiveExecution
<1>1. IInv => ExclusiveExecution
  BY DEF IInv, HeldOK, HeldOnce, ExclusiveExecution, Executing
<1>. QED
  BY <1>1, QueueInvariant, PTL

\* enqueue_job_if_not_exists and the unique index: at most one purge of a
\* document is queued or running, retries included.
THEOREM PurgeUniqueness == QueueSpec => []OnePendingPurge
  BY QueueInvariant, PTL DEF IInv

\* The unconditional updates of mark_job_succeeded, mark_job_failed and
\* retry_job_after never reach a job that has ended.
THEOREM Finality == QueueSpec => TerminalIsFinal
<1> DEFINE Final ==
      \A j \in Jobs : jobs[j].status \in {"succeeded", "failed"}
        => jobs'[j].status = jobs[j].status
<1>1. IInv /\ [QueueNext]_queueVars => [Final]_queueVars
  <2> SUFFICES ASSUME IInv, QueueNext PROVE Final
    BY DEF queueVars
  <2> USE DEF IInv, JobQueueTypeOK
  <2>1. ASSUME NEW j \in Jobs, NEW ty \in JobTypes, NEW t \in Tenants,
               NEW d \in Documents, InsertJob(j, ty, t, d)
        PROVE  Final
    BY <2>1 DEF InsertJob
  <2>2. ASSUME NEW t \in Tenants, NEW k \in Jobs \union {None}, DetachJobs(t, k)
      PROVE  Final
    BY <2>2 DEF DetachJobs, Row
  <2>3. ASSUME NEW w \in Workers, UNCHANGED jobs PROVE Final
    BY <2>3
  <2>4. ASSUME NEW w \in Workers, ReserveJob(w) PROVE Final
    <3>1. held[w] \in Jobs /\ jobs[held[w]].status = "queued"
      BY <2>4 DEF ReserveJob, HeldOK
    <3>2. jobs' = [jobs EXCEPT ![held[w]].status = "processing"]
      BY <2>4 DEF ReserveJob
    <3>. QED
      BY <3>1, <3>2
  <2>5. ASSUME NEW w \in Workers, MarkJob(w) \/ RetryJob(w) PROVE Final
    <3>1. held[w] \in Jobs /\ jobs[held[w]].status = "processing"
      BY <2>5 DEF MarkJob, RetryJob, HeldOK
    <3>2. \A i \in Jobs : i # held[w] => jobs'[i] = jobs[i]
      BY <2>5, <3>1 DEF MarkJob, RetryJob
    <3>. QED
      BY <3>1, <3>2
  <2>. QED
    BY <2>1, <2>2, <2>3, <2>4, <2>5
    DEF QueueNext, Callers, WorkerStep, EnqueueJob, EnqueueJobIfNotExists, LockJob,
        Handle, LoseWorker, Tick
<1>. QED
  BY <1>1, QueueInvariant, PTL DEF QueueSpec, TerminalIsFinal

\* ORDER BY run_after with a positive retry delay: a job that keeps failing
\* with Retry cannot keep a job that is already due from being reserved.
THEOREM NoOvertakingByRetries == QueueSpec => RetryYields
<1> DEFINE Yields ==
      \A w \in Workers, i, j \in Jobs :
        j \in behind[i] /\ Reservable(i)
        => ~(pc[w] = "idle" /\ pc'[w] = "reserving" /\ held'[w] = j)
<1>1. IInv /\ [QueueNext]_queueVars => [Yields]_queueVars
  <2> SUFFICES ASSUME IInv, QueueNext,
                      NEW w \in Workers, NEW i \in Jobs, NEW j \in Jobs,
                      j \in behind[i], Reservable(i),
                      pc[w] = "idle", pc'[w] = "reserving", held'[w] = j
               PROVE  FALSE
    BY DEF queueVars
  <2> USE DEF IInv, JobQueueTypeOK
  <2>1. LockJob(w, j)
    <3>1. ASSUME NEW v \in Workers, NEW k \in Jobs, LockJob(v, k)
          PROVE  v = w /\ k = j
      BY <3>1 DEF LockJob
    <3>2. ASSUME NEW v \in Workers,
                 \/ ReserveJob(v)
                 \/ \E r \in Results : Handle(v, r)
                 \/ MarkJob(v)
                 \/ RetryJob(v)
                 \/ LoseWorker(v)
          PROVE  FALSE
      BY <3>2 DEF ReserveJob, Handle, MarkJob, RetryJob, LoseWorker, Release
    <3>. QED
      BY <3>1, <3>2
      DEF QueueNext, Callers, WorkerStep, EnqueueJob, EnqueueJobIfNotExists,
          DetachJobs, Tick
  <2>2. jobs[j].runAfter <= jobs[i].runAfter /\ jobs[j].status = "queued"
    BY <2>1 DEF LockJob, Reservable, Due
  <2>3. jobs[i].runAfter < jobs[j].runAfter
    BY <2>2 DEF BehindOK
  <2>4. jobs[i].runAfter \in Nat /\ jobs[j].runAfter \in Nat
    BY DEF Row
  <2>. QED
    BY <2>2, <2>3, <2>4
<1>. QED
  BY <1>1, QueueInvariant, PTL DEF QueueSpec, RetryYields

-----------------------------------------------------------------------------
(* The queue implements JobLifecycle.                                      *)

AbsStatus == [j \in Jobs |-> jobs[j].status]
AbsClaims == {c \in Workers \X Jobs : Executing(c[1]) /\ held[c[1]] = c[2]}

\* The empty table is the initial state of the lifecycle.
LEMMA AbsInit == QueueInit => Lifecycle!LifecycleInit
  BY DEF QueueInit, Lifecycle!LifecycleInit, NoRow, Executing

\* Steps that change neither the statuses nor who executes what.
LEMMA AbsStutter ==
  ASSUME IInv, IInv',
         \A j \in Jobs : jobs'[j].status = jobs[j].status,
         \A w \in Workers, j \in Jobs :
           (Executing(w) /\ held[w] = j) <=> (Executing(w) /\ held[w] = j)'
  PROVE  UNCHANGED Lifecycle!lifecycleVars
<1>1. AbsStatus' = AbsStatus
  BY DEF AbsStatus
<1>2. AbsClaims' = AbsClaims
  <2>1. \A c \in Workers \X Jobs :
          (Executing(c[1]) /\ held[c[1]] = c[2])
            <=> (Executing(c[1]) /\ held[c[1]] = c[2])'
    OBVIOUS
  <2>. QED
    BY <2>1 DEF AbsClaims
<1>. QED
  BY <1>1, <1>2 DEF Lifecycle!lifecycleVars, AbsStatus, AbsClaims

\* A step that ends one claim removes that pair only.
LEMMA AbsClaimLess ==
  ASSUME NEW w \in Workers, NEW j \in Jobs,
         ~(Executing(w))', Executing(w), held[w] = j,
         \A v \in Workers \ {w} : pc'[v] = pc[v] /\ held'[v] = held[v]
  PROVE  AbsClaims' = AbsClaims \ {<<w, j>>}
<1>1. \A c \in Workers \X Jobs :
        (Executing(c[1]) /\ held[c[1]] = c[2])'
          <=> (Executing(c[1]) /\ held[c[1]] = c[2] /\ c # <<w, j>>)
  BY DEF Executing
<1>. QED
  BY <1>1 DEF AbsClaims

\* A step that starts one claim adds that pair only.
LEMMA AbsClaimMore ==
  ASSUME NEW w \in Workers, NEW j \in Jobs,
         ~Executing(w), Executing(w)', held'[w] = j,
         \A v \in Workers \ {w} : pc'[v] = pc[v] /\ held'[v] = held[v]
  PROVE  AbsClaims' = AbsClaims \union {<<w, j>>}
<1>1. \A c \in Workers \X Jobs :
        (Executing(c[1]) /\ held[c[1]] = c[2])'
          <=> ((Executing(c[1]) /\ held[c[1]] = c[2]) \/ c = <<w, j>>)
  BY DEF Executing
<1>2. <<w, j>> \in Workers \X Jobs
  OBVIOUS
<1>. QED
  BY <1>1, <1>2 DEF AbsClaims

\* Every step of the queue is a step of the lifecycle, or a stutter.
LEMMA AbsStep ==
  IInv /\ IInv' /\ [QueueNext]_queueVars
    => [Lifecycle!LifecycleNext]_(Lifecycle!lifecycleVars)
<1> SUFFICES ASSUME IInv, IInv', [QueueNext]_queueVars
             PROVE  Lifecycle!LifecycleNext \/ UNCHANGED Lifecycle!lifecycleVars
  OBVIOUS
<1> USE DEF IInv, JobQueueTypeOK
<1>1. ASSUME NEW j \in Jobs, NEW ty \in JobTypes, NEW t \in Tenants,
             NEW d \in Documents, InsertJob(j, ty, t, d), UNCHANGED <<pc, held>>
      PROVE  Lifecycle!LifecycleNext
  <2>1. AbsStatus[j] = "absent" /\ AbsStatus' = [AbsStatus EXCEPT ![j] = "queued"]
    BY <1>1 DEF InsertJob, AbsStatus
  <2>2. AbsClaims' = AbsClaims
    BY <1>1 DEF AbsClaims, Executing
  <2>. QED
    BY <2>1, <2>2 DEF AbsStatus, AbsClaims, Lifecycle!LifecycleNext, Lifecycle!Submit
<1>2. ASSUME NEW t \in Tenants, NEW k \in Jobs \union {None}, DetachJobs(t, k)
      PROVE  UNCHANGED Lifecycle!lifecycleVars
  BY <1>2, AbsStutter DEF DetachJobs, Row, Executing
<1>3. ASSUME NEW w \in Workers, NEW j \in Jobs, LockJob(w, j)
      PROVE  UNCHANGED Lifecycle!lifecycleVars
  BY <1>3, AbsStutter DEF LockJob, Executing
<1>4. ASSUME NEW w \in Workers, ReserveJob(w)
      PROVE  Lifecycle!LifecycleNext
  <2>0. PICK j \in Jobs : j = held[w]
    BY <1>4 DEF ReserveJob, HeldOK
  <2>1. /\ held[w] = j
        /\ jobs[j].status = "queued"
        /\ pc[w] = "reserving"
        /\ jobs' = [jobs EXCEPT ![j].status = "processing"]
        /\ held' = held
        /\ pc'[w] \in {"handling", "marking"}
        /\ \A v \in Workers \ {w} : pc'[v] = pc[v]
    BY <1>4, <2>0 DEF ReserveJob, HeldOK
  <2>6. /\ \A i \in Jobs : i # j => jobs'[i] = jobs[i]
        /\ jobs'[j].status = "processing"
    BY <2>1 DEF Row
  <2>2. /\ AbsStatus[j] = "queued"
        /\ AbsStatus' = [AbsStatus EXCEPT ![j] = "processing"]
    BY <2>1, <2>6 DEF AbsStatus
  <2>3. AbsClaims' = AbsClaims \union {<<w, j>>}
    BY <2>1, AbsClaimMore DEF Executing
  <2>4. \A k \in Jobs : <<w, k>> \notin AbsClaims
    BY <2>1 DEF AbsClaims, Executing
  <2>5. \A v \in Workers : <<v, j>> \notin AbsClaims
    BY <2>1 DEF AbsClaims, Executing, HeldOnce
  <2>7. Lifecycle!Start(w, j)
    BY <2>1, <2>2, <2>3, <2>4, <2>5
    DEF AbsStatus, AbsClaims, Lifecycle!Start, Lifecycle!Idle, Lifecycle!Unclaimed
  <2>. QED
    BY <2>1, <2>7 DEF Lifecycle!LifecycleNext
<1>5. ASSUME NEW w \in Workers, NEW r \in Results, Handle(w, r)
      PROVE  UNCHANGED Lifecycle!lifecycleVars
  BY <1>5, AbsStutter DEF Handle, Executing
<1>6. ASSUME NEW w \in Workers, MarkJob(w) \/ RetryJob(w)
      PROVE  Lifecycle!LifecycleNext
  <2>0. PICK j \in Jobs : j = held[w]
    BY <1>6 DEF MarkJob, RetryJob, HeldOK
  <2>1. /\ held[w] = j
        /\ jobs[j].status = "processing"
        /\ pc[w] = "marking"
        /\ pc'[w] = "idle"
        /\ \A v \in Workers \ {w} : pc'[v] = pc[v] /\ held'[v] = held[v]
        /\ \A i \in Jobs : i # j => jobs'[i] = jobs[i]
    BY <1>6, <2>0 DEF MarkJob, RetryJob, Release, HeldOK
  <2>2. jobs'[j].status \in {"succeeded", "failed", "queued"}
    <3>1. CASE MarkJob(w)
      <4>1. /\ jobs' = [jobs EXCEPT ![j].status = result[w].kind]
            /\ result[w].kind \in {"succeeded", "failed"}
        BY <3>1, <2>1 DEF MarkJob, Success, Failed
      <4>. QED
        BY <4>1, <2>1 DEF Row
    <3>2. CASE RetryJob(w)
      <4>1. jobs' = [jobs EXCEPT ![j].status = "queued",
                                 ![j].runAfter = clock + result[w].delay]
        BY <3>2, <2>1 DEF RetryJob
      <4>. QED
        BY <4>1, <2>1 DEF Row
    <3>. QED
      BY <1>6, <3>1, <3>2
  <2>3. /\ AbsStatus[j] = "processing"
        /\ AbsStatus' = [AbsStatus EXCEPT ![j] = jobs'[j].status]
    BY <2>1 DEF AbsStatus
  <2>4. AbsClaims' = AbsClaims \ {<<w, j>>} /\ <<w, j>> \in AbsClaims
    BY <2>1, AbsClaimLess DEF Executing, AbsClaims
  <2>5. Lifecycle!Settle(w, j)
    BY <2>2, <2>3, <2>4 DEF AbsStatus, AbsClaims, Lifecycle!Settle
  <2>. QED
    BY <2>1, <2>5 DEF Lifecycle!LifecycleNext
<1>7. ASSUME NEW w \in Workers, LoseWorker(w)
      PROVE  Lifecycle!LifecycleNext \/ UNCHANGED Lifecycle!lifecycleVars
  <2>0. PICK k \in Jobs : k = held[w]
    BY <1>7 DEF LoseWorker, HeldOK
  <2>1. /\ jobs' = jobs
        /\ pc[w] # "idle" /\ pc'[w] = "idle"
        /\ held[w] = k
        /\ \A v \in Workers \ {w} : pc'[v] = pc[v] /\ held'[v] = held[v]
    BY <1>7, <2>0 DEF LoseWorker, Release
  <2>2. CASE Executing(w)
    <3>1. /\ AbsClaims' = AbsClaims \ {<<w, k>>}
          /\ <<w, k>> \in AbsClaims
      BY <2>1, <2>2, AbsClaimLess DEF Executing, AbsClaims
    <3>2. AbsStatus' = AbsStatus
      BY <2>1 DEF AbsStatus
    <3>3. Lifecycle!Abandon(w, k)
      BY <3>1, <3>2 DEF AbsStatus, AbsClaims, Lifecycle!Abandon
    <3>. QED
      BY <3>3 DEF Lifecycle!LifecycleNext
  <2>3. CASE ~Executing(w)
    <3>1. \A v \in Workers, j \in Jobs :
            (Executing(v) /\ held[v] = j) <=> (Executing(v) /\ held[v] = j)'
      BY <2>1, <2>3 DEF Executing
    <3>. QED
      BY <2>1, <3>1, AbsStutter
  <2>. QED
    BY <2>2, <2>3
<1>8. CASE Tick
  BY <1>8, AbsStutter DEF Tick, Executing
<1>9. CASE UNCHANGED queueVars
  BY <1>9, AbsStutter DEF queueVars, Executing
<1>. QED
  BY <1>1, <1>2, <1>3, <1>4, <1>5, <1>6, <1>7, <1>8, <1>9
  DEF QueueNext, Callers, WorkerStep, EnqueueJob, EnqueueJobIfNotExists

\* The jobs table and its workers keep the promise of JobLifecycle: one
\* claimant at a time, only the claimant settles, an ended job stays ended.
THEOREM QueueRefinesLifecycle == QueueSpec => ImplementsLifecycle
  BY AbsInit, AbsStep, QueueInvariant, PTL
  DEF QueueSpec, ImplementsLifecycle, Lifecycle!LifecycleSpec
=============================================================================
