------------------------------ MODULE JobQueue ------------------------------
(***************************************************************************)
(* The shared `jobs' table (backend/src/jobs.rs) and the polling workers   *)
(* that serve it (backend/src/workers/mod.rs).                             *)
(*                                                                         *)
(* A worker's tick is split where another session can run in between: the  *)
(* SELECT ... FOR UPDATE SKIP LOCKED of reserve_job, the commit of that    *)
(* transaction, the handler (any outcome here; DocumentStore refines it),  *)
(* and the update that records the outcome.  A worker may die at any of    *)
(* these points, and the outcome may be lost because the connection pool   *)
(* has no connection to give.                                              *)
(***************************************************************************)
EXTENDS Naturals

CONSTANTS Jobs,         \* row identifiers (Uuid::new_v4: never reused)
          Workers,      \* worker processes, each with one tick in flight
          Tenants,      \* tenant identifiers
          Documents,    \* document identifiers carried by payloads
          None,         \* SQL NULL, and "nothing" in a worker's locals
          JobTypes,     \* job types that callers enqueue
          Handlers,     \* job types the workers have a handler for
          RetryDelays,  \* delays a handler asks for (30 s, 60 s)
          MaxClock,     \* bound: no handler asks for a retry after this time
          MaxFaults     \* bound: workers that die or lose their outcome

Analyze   == "analyze-document"
Purge     == "purge-document"
Provision == "provision-tenant"
DeleteT   == "delete-tenant"

ASSUME JobQueueAssumption ==
  /\ None \notin Jobs \union Tenants \union Documents
  /\ JobTypes \subseteq {Analyze, Purge, Provision, DeleteT}
  /\ RetryDelays \subseteq Nat \ {0}
  /\ MaxClock \in Nat
  /\ MaxFaults \in Nat

VARIABLES
  jobs,     \* jobs[j]: the row of job j; status "absent" before the insert
  pc,       \* pc[w]: where worker w is in tick()
  held,     \* held[w]: the job worker w has locked or is executing
  scope,    \* scope[w]: the tenant_id w read when it reserved the job
  result,   \* result[w]: the JobExecution w is about to record
  clock,    \* Utc::now()
  faults,   \* number of faults so far (bounded by MaxFaults)
  behind    \* history: j \in behind[i] iff j was put back while i was due

queueVars == <<jobs, pc, held, scope, result, clock, faults, behind>>

Statuses == {"absent", "queued", "processing", "succeeded", "failed"}
Row == [type : JobTypes \union {None}, tenant : Tenants \union {None},
        doc : Documents \union {None}, status : Statuses, runAfter : Nat]
Stages == {"idle", "reserving", "handling", "marking"}
Success == [kind |-> "succeeded", delay |-> 0]
Failed == [kind |-> "failed", delay |-> 0]
Retry(d) == [kind |-> "queued", delay |-> d]
\* JobExecution; `kind' is the status it leads to.
Results == {Success, Failed} \union {Retry(d) : d \in RetryDelays}

NoRow == [type |-> None, tenant |-> None, doc |-> None,
          status |-> "absent", runAfter |-> 0]

JobQueueTypeOK ==
  /\ jobs \in [Jobs -> Row]
  /\ pc \in [Workers -> Stages]
  /\ held \in [Workers -> Jobs \union {None}]
  /\ scope \in [Workers -> Tenants \union {None}]
  /\ result \in [Workers -> Results \union {None}]
  /\ clock \in Nat
  /\ faults \in Nat
  /\ behind \in [Jobs -> SUBSET Jobs]

-----------------------------------------------------------------------------
(* Row locks and the reservation query                                     *)

Locked(j) == \E w \in Workers : pc[w] = "reserving" /\ held[w] = j

\* Mutants of Due: failed jobs are picked up again; a job type is missing
\* from the list the worker polls for.
DueIfFailed(j) ==
  /\ jobs[j].status \in {"queued", "failed"}
  /\ jobs[j].runAfter <= clock
  /\ jobs[j].type \in Handlers

DueUnlessPurge(j) ==
  /\ jobs[j].status = "queued"
  /\ jobs[j].runAfter <= clock
  /\ jobs[j].type \in Handlers \ {Purge}

\* The WHERE clause of reserve_job.
Due(j) ==
  /\ jobs[j].status = "queued"
  /\ jobs[j].runAfter <= clock
  /\ jobs[j].type \in Handlers

\* Mutant of Reservable: no FOR UPDATE SKIP LOCKED.
ReservableUnlocked(j) == Due(j)

\* What SKIP LOCKED leaves of the due rows.
Reservable(j) == Due(j) /\ ~Locked(j)

\* The partial unique index jobs_purge_document_pending_unique.  A NULL
\* tenant_id never conflicts.
PendingPurge(j, t, d) ==
  /\ jobs[j].type = Purge
  /\ jobs[j].tenant = t
  /\ jobs[j].doc = d
  /\ jobs[j].status \in {"queued", "processing"}

-----------------------------------------------------------------------------
(* Callers: API handlers, the admin tool, the tenant deletion job          *)

InsertJob(j, ty, t, d) ==
  /\ jobs[j].status = "absent"
  /\ jobs' = [jobs EXCEPT ![j] =
               [type |-> ty, tenant |-> t, doc |-> d,
                status |-> "queued", runAfter |-> clock]]

\* enqueue_job.  No caller passes a purge job or a run_after.
EnqueueJob(j, ty, t, d) ==
  /\ ty # Purge
  /\ InsertJob(j, ty, t, d)
  /\ UNCHANGED <<pc, held, scope, result, clock, faults, behind>>

\* Mutant of EnqueueJobIfNotExists: the index covers queued rows only.
EnqueueIfNotQueued(j, t, d) ==
  /\ Purge \in JobTypes
  /\ \A i \in Jobs : ~(PendingPurge(i, t, d) /\ jobs[i].status = "queued")
  /\ InsertJob(j, Purge, t, d)
  /\ UNCHANGED <<pc, held, scope, result, clock, faults, behind>>

\* enqueue_job_if_not_exists: ON CONFLICT DO NOTHING.
EnqueueJobIfNotExists(j, t, d) ==
  /\ Purge \in JobTypes
  /\ \A i \in Jobs : ~PendingPurge(i, t, d)
  /\ InsertJob(j, Purge, t, d)
  /\ UNCHANGED <<pc, held, scope, result, clock, faults, behind>>

\* delete_tenant detaches the tenant's jobs, all but the deletion job it runs
\* in, and with them the tenant row goes that one too (ON DELETE SET NULL).
\* A row that a reservation has locked makes the update wait.
DetachJobs(t, k) ==
  LET detached == {j \in Jobs \ {k} : jobs[j].tenant = t} IN
  /\ detached # {}
  /\ \A j \in detached : ~Locked(j)
  /\ jobs' = [j \in Jobs |-> IF j \in detached
                             THEN [jobs[j] EXCEPT !.tenant = None]
                             ELSE jobs[j]]
  /\ UNCHANGED <<pc, held, scope, result, clock, faults, behind>>

-----------------------------------------------------------------------------
(* The worker's tick                                                       *)

\* Mutant of LockJob: no ORDER BY run_after.
LockAnyJob(w, j) ==
  /\ pc[w] = "idle"
  /\ Reservable(j)
  /\ pc' = [pc EXCEPT ![w] = "reserving"]
  /\ held' = [held EXCEPT ![w] = j]
  /\ UNCHANGED <<jobs, scope, result, clock, faults, behind>>

\* reserve_job, SELECT ... ORDER BY run_after FOR UPDATE SKIP LOCKED LIMIT 1.
LockJob(w, j) ==
  /\ pc[w] = "idle"
  /\ Reservable(j)
  /\ \A i \in Jobs : Reservable(i) => jobs[j].runAfter <= jobs[i].runAfter
  /\ pc' = [pc EXCEPT ![w] = "reserving"]
  /\ held' = [held EXCEPT ![w] = j]
  /\ UNCHANGED <<jobs, scope, result, clock, faults, behind>>

\* reserve_job, UPDATE ... SET status = 'processing' and commit.  tick then
\* fails a job without a tenant before it looks for a handler.
ReserveJob(w) ==
  LET j == held[w] IN
  /\ pc[w] = "reserving"
  /\ jobs' = [jobs EXCEPT ![j].status = "processing"]
  /\ scope' = [scope EXCEPT ![w] = jobs[j].tenant]
  /\ IF jobs[j].tenant = None
     THEN /\ pc' = [pc EXCEPT ![w] = "marking"]
          /\ result' = [result EXCEPT ![w] = Failed]
     ELSE /\ pc' = [pc EXCEPT ![w] = "handling"]
          /\ UNCHANGED result
  /\ behind' = [behind EXCEPT ![j] = {}]
  /\ UNCHANGED <<held, clock, faults>>

\* handler.handle returns (or the tenant's storage cannot be loaded).
Handle(w, r) ==
  /\ pc[w] = "handling"
  /\ r.delay = 0 \/ clock + r.delay <= MaxClock
  /\ pc' = [pc EXCEPT ![w] = "marking"]
  /\ result' = [result EXCEPT ![w] = r]
  /\ UNCHANGED <<jobs, held, scope, clock, faults, behind>>

\* The worker forgets the job and polls again.
Release(w) ==
  /\ pc' = [pc EXCEPT ![w] = "idle"]
  /\ held' = [held EXCEPT ![w] = None]
  /\ scope' = [scope EXCEPT ![w] = None]
  /\ result' = [result EXCEPT ![w] = None]

\* Mutants of MarkJob: every running job of that type is marked; only
\* successes are recorded.
MarkJobsOfType(w) ==
  /\ pc[w] = "marking"
  /\ result[w] \in {Success, Failed}
  /\ jobs' = [j \in Jobs |->
                IF /\ jobs[j].type = jobs[held[w]].type
                   /\ jobs[j].status = "processing"
                THEN [jobs[j] EXCEPT !.status = result[w].kind]
                ELSE jobs[j]]
  /\ Release(w)
  /\ UNCHANGED <<clock, faults, behind>>

\* mark_job_succeeded and mark_job_failed: updates by id, unconditional.
MarkJob(w) ==
  /\ pc[w] = "marking"
  /\ result[w] \in {Success, Failed}
  /\ jobs' = [jobs EXCEPT ![held[w]].status = result[w].kind]
  /\ Release(w)
  /\ UNCHANGED <<clock, faults, behind>>

\* Mutant of RetryJob: the delay is subtracted.
RetryJobBefore(w) ==
  /\ pc[w] = "marking"
  /\ result[w].kind = "queued"
  /\ jobs' = [jobs EXCEPT ![held[w]].status = "queued",
                          ![held[w]].runAfter = clock - result[w].delay]
  /\ behind' = [i \in Jobs |-> IF Due(i) THEN behind[i] \union {held[w]}
                               ELSE behind[i]]
  /\ Release(w)
  /\ UNCHANGED <<clock, faults>>

\* retry_job_after: back to the queue, due after the delay.
RetryJob(w) ==
  /\ pc[w] = "marking"
  /\ result[w].kind = "queued"
  /\ jobs' = [jobs EXCEPT ![held[w]].status = "queued",
                          ![held[w]].runAfter = clock + result[w].delay]
  /\ behind' = [i \in Jobs |-> IF Due(i) THEN behind[i] \union {held[w]}
                               ELSE behind[i]]
  /\ Release(w)
  /\ UNCHANGED <<clock, faults>>

\* The process dies, reserve_job's transaction fails, or no connection is
\* left to record the outcome: the row keeps the status it has.
LoseWorker(w) ==
  /\ pc[w] # "idle"
  /\ faults < MaxFaults
  /\ faults' = faults + 1
  /\ Release(w)
  /\ UNCHANGED <<jobs, clock, behind>>

\* Time passes up to the bound, and beyond it while a retry is not yet due.
Tick ==
  /\ \/ clock < MaxClock
     \/ \E j \in Jobs : jobs[j].status = "queued" /\ jobs[j].runAfter > clock
  /\ clock' = clock + 1
  /\ UNCHANGED <<jobs, pc, held, scope, result, faults, behind>>

-----------------------------------------------------------------------------
QueueInit ==
  /\ jobs = [j \in Jobs |-> NoRow]
  /\ pc = [w \in Workers |-> "idle"]
  /\ held = [w \in Workers |-> None]
  /\ scope = [w \in Workers |-> None]
  /\ result = [w \in Workers |-> None]
  /\ clock = 0
  /\ faults = 0
  /\ behind = [j \in Jobs |-> {}]

Callers ==
  \/ \E j \in Jobs, ty \in JobTypes, t \in Tenants, d \in Documents :
       EnqueueJob(j, ty, t, d)
  \/ \E j \in Jobs, t \in Tenants, d \in Documents :
       EnqueueJobIfNotExists(j, t, d)
  \/ \E t \in Tenants, k \in Jobs \union {None} : DetachJobs(t, k)

WorkerStep(w) ==
  \/ \E j \in Jobs : LockJob(w, j)
  \/ ReserveJob(w)
  \/ \E r \in Results : Handle(w, r)
  \/ MarkJob(w)
  \/ RetryJob(w)

QueueNext ==
  \/ Callers
  \/ \E w \in Workers : WorkerStep(w) \/ LoseWorker(w)
  \/ Tick

QueueSpec == QueueInit /\ [][QueueNext]_queueVars

\* Each worker process loops in Worker::run, and time passes.  Nothing is
\* assumed about callers or faults.
FairQueueSpec ==
  QueueSpec /\ WF_clock(Tick) /\ \A w \in Workers : WF_queueVars(WorkerStep(w))

-----------------------------------------------------------------------------
(* Properties                                                              *)

Executing(w) == pc[w] \in {"handling", "marking"}

\* Two workers never execute the same job, and the row of a job that is
\* being executed says `processing': the row lock and the status filter of
\* reserve_job, with no write to the status column but the claimant's.
ExclusiveExecution ==
  \A w \in Workers : Executing(w) =>
    /\ jobs[held[w]].status = "processing"
    /\ \A v \in Workers \ {w} : pc[v] # "idle" => held[v] # held[w]

\* DELETE on a document may be repeated at any time, yet at most one purge
\* of it is queued or running: the partial unique index, across retries.
OnePendingPurge ==
  \A i, j \in Jobs, t \in Tenants, d \in Documents :
    PendingPurge(i, t, d) /\ PendingPurge(j, t, d) => i = j

\* A job that succeeded or failed is never run again, although every mark
\* is an unconditional update by id.
TerminalIsFinal ==
  [][\A j \in Jobs : jobs[j].status \in {"succeeded", "failed"}
       => jobs'[j].status = jobs[j].status]_queueVars

\* A job that keeps asking for a retry goes to the back of the line: once
\* put back while i was due, it is not picked before i as long as i can be
\* picked.  This is why the retry delay and ORDER BY run_after matter.
RetryYields ==
  [][\A w \in Workers, i, j \in Jobs :
       j \in behind[i] /\ Reservable(i)
       => ~(pc[w] = "idle" /\ pc'[w] = "reserving" /\ held'[w] = j)]_queueVars

\* docs/jobs.md on delete-tenant: it removes the queued jobs of the tenant so
\* that workers do not waste effort on them.  No worker takes a job that was
\* detached from its tenant.
DetachedJobsAreRemoved ==
  \A w \in Workers : pc[w] = "marking" => scope[w] # None

\* Every job of a handled type is eventually taken by some worker.
EveryJobIsServed ==
  \A j \in Jobs :
    jobs[j].status = "queued" /\ jobs[j].type \in Handlers
      ~> jobs[j].status # "queued"

\* A job taken by a worker leaves `processing' unless that worker is lost.
ExecutionEnds ==
  \A w \in Workers, j \in Jobs :
    (Executing(w) /\ held[w] = j) ~> ~(Executing(w) /\ held[w] = j)

\* The poll loops make progress: every job is taken and every execution ends.
QueueProgresses == EveryJobIsServed /\ ExecutionEnds

\* The queue implements the lifecycle it promises.
Lifecycle == INSTANCE JobLifecycle
  WITH status <- [j \in Jobs |-> jobs[j].status],
       claims <- {c \in Workers \X Jobs : Executing(c[1]) /\ held[c[1]] = c[2]}

ImplementsLifecycle == Lifecycle!LifecycleSpec
=============================================================================
