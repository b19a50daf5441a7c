------------------------ MODULE DocumentStoreProofs ------------------------
(***************************************************************************)
(* Proofs about DocumentStore, for any number of documents, assets, jobs   *)
(* and workers, and any number of failed calls and lost workers: the       *)
(* handlers are a behaviour of the queue, so that what is proved of the    *)
(* queue holds of them; contents are kept until a purge has seen the       *)
(* document in the trash, and are gone once a purge has removed it.        *)
(***************************************************************************)
EXTENDS DocumentStore, JobQueueProofs

-----------------------------------------------------------------------------
(* The handlers are a behaviour of the queue.                              *)

\* A finished handler has one of the outcomes the queue knows.
LEMMA FinishIsHandle ==
  ASSUME NEW w \in Workers
  PROVE  /\ \A r : Finish(w, r) => Handle(w, r)
         /\ FinishRetry(w) => \E r \in Results : Handle(w, r)
         /\ Finish(w, Success) => \E r \in Results : Handle(w, r)
         /\ Finish(w, Failed) => \E r \in Results : Handle(w, r)
  BY DEF Finish, FinishRetry, Results

\* What a handler does between two of its steps the queue does not see.
LEMMA NextTaskIsQueue ==
  ASSUME NEW w \in Workers, NEW c, NextTask(w, c)
  PROVE  (\E r \in Results : Handle(w, r)) \/ UNCHANGED queueVars
  BY FinishIsHandle DEF NextTask, Goto

\* Each step of a handler returns from it or is no step of the queue.
LEMMA HandlerIsQueue ==
  ASSUME NEW w \in Workers, HandlerStep(w) \/ CallFails(w)
  PROVE  (\E r \in Results : Handle(w, r)) \/ UNCHANGED queueVars
<1> DEFINE Goal == (\E r \in Results : Handle(w, r)) \/ UNCHANGED queueVars
<1>0. /\ Finish(w, Success) \/ Finish(w, Failed) \/ FinishRetry(w) => Goal
      /\ \A c : NextTask(w, c) => Goal
      /\ \A s, c : Goto(w, s, c) => Goal
  BY FinishIsHandle, NextTaskIsQueue DEF Goto
<1> SUFFICES Goal
  OBVIOUS
<1> HIDE DEF Goal
<1>1. CASE LoadDocument(w) \/ PlanTasks(w) \/ MakeAsset(w) \/ DropObject(w) \/ DropRow(w)
  BY <1>0, <1>1 DEF LoadDocument, PlanTasks, MakeAsset, DropObject, DropRow
<1>2. CASE EnsureMime(w) \/ PersistAsset(w) \/ DetermineIssuedAt(w) \/ IndexText(w)
  BY <1>0, <1>2 DEF EnsureMime, PersistAsset, DetermineIssuedAt, IndexText
<1>3. CASE \E ty \in AssetTypes : CheckAsset(w, ty)
  BY <1>0, <1>3 DEF CheckAsset
<1>4. CASE \E a \in AssetIds : PutAsset(w, a)
  BY <1>0, <1>4 DEF PutAsset
<1>5. CASE PreparePurge(w) \/ PurgeObject(w) \/ FinalizePurge(w)
  BY <1>0, <1>5 DEF PreparePurge, PurgeObject, FinalizePurge
<1>6. CASE CallFails(w)
  BY <1>0, <1>6 DEF CallFails
<1>7. QED
  BY <1>1, <1>2, <1>3, <1>4, <1>5, <1>6 DEF HandlerStep

\* A request enqueues a job, as a caller of the queue, or leaves the queue alone.
LEMMA RequestIsQueue ==
  ASSUME Requests
  PROVE  Callers \/ UNCHANGED queueVars
<1>1. PICK d \in Documents :
        \/ \E m \in Claims : StoreUpload(d, m)
        \/ InsertUpload(d) \/ RejectUpload(d)
        \/ \E t \in Tenants, j \in Jobs :
             \/ AnnounceUpload(d, t, j)
             \/ \E force \in BOOLEAN : RequestAnalysis(d, t, j, force)
             \/ DeleteDocument(d, t, j)
        \/ AnnounceFails(d) \/ TrashDocument(d) \/ BeginUndelete(d)
        \/ CompleteUndelete(d) \/ RefuseUndelete(d) \/ EditIssuedAt(d)
  BY DEF Requests
<1>2. CASE \/ \E m \in Claims : StoreUpload(d, m)
           \/ InsertUpload(d) \/ RejectUpload(d) \/ AnnounceFails(d) \/ TrashDocument(d)
           \/ BeginUndelete(d) \/ CompleteUndelete(d) \/ RefuseUndelete(d) \/ EditIssuedAt(d)
  BY <1>2 DEF StoreUpload, InsertUpload, RejectUpload, AnnounceFails, TrashDocument,
              BeginUndelete, CompleteUndelete, RefuseUndelete, EditIssuedAt
<1>3. ASSUME NEW t \in Tenants, NEW j \in Jobs,
             AnnounceUpload(d, t, j) \/ \E force \in BOOLEAN : RequestAnalysis(d, t, j, force)
      PROVE  Callers
  <2>1. EnqueueJob(j, Analyze, t, d) /\ Analyze \in JobTypes
    BY <1>3, DocumentStoreAssumption DEF AnnounceUpload, RequestAnalysis
  <2>2. QED
    BY <2>1 DEF Callers
<1>4. ASSUME NEW t \in Tenants, NEW j \in Jobs, DeleteDocument(d, t, j)
      PROVE  Callers \/ UNCHANGED queueVars
  BY <1>4 DEF DeleteDocument, Callers
<1>5. QED
  BY <1>1, <1>2, <1>3, <1>4

\* Every step is a step of the queue or leaves it alone.
LEMMA StoreStepIsQueue == [StoreNext]_allVars => [QueueNext]_queueVars
<1>1. SUFFICES ASSUME StoreNext PROVE QueueNext \/ UNCHANGED queueVars
  BY DEF allVars, queueVars
<1>2. CASE Requests
  BY <1>2, RequestIsQueue DEF QueueNext
<1>3. ASSUME NEW w \in Workers, HandlerStep(w) \/ CallFails(w)
      PROVE  QueueNext \/ UNCHANGED queueVars
  BY <1>3, HandlerIsQueue DEF QueueNext, WorkerStep
<1>4. ASSUME NEW w \in Workers, PollStep(w) PROVE QueueNext
  BY <1>4 DEF PollStep, QueueNext, WorkerStep
<1>5. ASSUME NEW w \in Workers, LoseHandler(w) PROVE QueueNext
  BY <1>5 DEF LoseHandler, QueueNext
<1>6. CASE Tick /\ UNCHANGED storeVars
  BY <1>6 DEF QueueNext
<1>7. QED
  BY <1>1, <1>2, <1>3, <1>4, <1>5, <1>6 DEF StoreNext

\* The handlers, with all their races, are one of the behaviours of the queue.
THEOREM HandlersImplementQueue == StoreSpec => ImplementsQueue
<1>1. StoreInit => QueueInit
  BY DEF StoreInit
<1>2. QED
  BY <1>1, StoreStepIsQueue, PTL DEF StoreSpec, QueueSpec, ImplementsQueue

\* What is proved of the queue holds of the document handlers: no two workers
\* run the same job, and at most one purge of a document is pending.
THEOREM HandlersExclude == StoreSpec => []ExclusiveExecution /\ []OnePendingPurge
  BY HandlersImplementQueue, Exclusion, PurgeUniqueness, PTL DEF ImplementsQueue

-----------------------------------------------------------------------------
(* The inductive invariant of the contents.                                *)

\* The context of a handler; the list of tasks and the formats play no part.
ContextOK(c) ==
  /\ c = [tasks |-> c.tasks, mime |-> c.mime, dated |-> c.dated, cache |-> c.cache,
          bytes |-> c.bytes, old |-> c.old, new |-> c.new, keys |-> c.keys]
  /\ c.cache \in AssetMap \union {None}
  /\ c.old \in AssetRow \union {None}
  /\ c.new \in AssetIds \union {None}

\* A purge under way deletes objects of its document only, which it has seen in
\* the trash, and has the original among the keys to delete until it is deleted.
PurgeOK(c, d) ==
  /\ d \in condemned
  /\ d \in Documents => docs[d] # "absent"
  /\ \A k \in c.keys : k.doc = d
  /\ Original(d) \in c.keys \/ Original(d) \notin objects

\* What a handler remembers at each of its steps.
StepHas(s, c) ==
  /\ ContextOK(c)
  /\ s \in {"dropObject", "dropRow"} => c.old \in AssetRow
  /\ s = "persist" => c.new \in AssetIds

WorkerOK(w) ==
  /\ StepHas(at[w], local[w])
  /\ at[w] # "start" => pc[w] = "handling"
  /\ at[w] = "purge" => PurgeOK(local[w], Doc(w))

StoreTypes ==
  /\ docs \in [Documents -> DocStates]
  /\ assets \in [Documents -> AssetMap]
  /\ at \in [Workers -> HandlerSteps]
  /\ local = [w \in Workers |-> local[w]]

\* From the put of an upload on, until a purge has seen the document in the trash.
ContentsThere ==
  \A d \in Documents \ condemned :
    docs[d] \in {"stored", "live", "trashed"} => Original(d) \in objects

StoreInv ==
  /\ StoreTypes
  /\ \A w \in Workers : WorkerOK(w)
  /\ ContentsThere
  /\ PurgedContentIsGone

-----------------------------------------------------------------------------
(* Steps by what they do to the handlers.                                  *)

\* Documents do not become unknown again, originals are put for new documents
\* only, and what a purge has seen stays seen.
Onwards ==
  /\ \A d \in Documents : docs[d] # "absent" => docs'[d] # "absent"
  /\ \A d : Original(d) \in objects' => Original(d) \in objects \/ (d \in Documents /\ docs[d] = "absent")
  /\ condemned \subseteq condemned'

\* A handler that does not move keeps what it knows, whatever others do.
LEMMA OthersKeep ==
  ASSUME NEW w \in Workers, WorkerOK(w), Onwards,
         at'[w] = at[w], local'[w] = local[w],
         at[w] # "start" => pc'[w] = pc[w] /\ Doc(w)' = Doc(w)
  PROVE  WorkerOK(w)'
<1>1. StepHas(at[w], local[w])'
  BY DEF WorkerOK, StepHas, ContextOK
<1>2. at'[w] # "start" => pc'[w] = "handling"
  BY DEF WorkerOK
<1>3. ASSUME at'[w] = "purge" PROVE PurgeOK(local[w], Doc(w))'
  <2>1. PurgeOK(local[w], Doc(w)) /\ Doc(w)' = Doc(w)
    BY <1>3 DEF WorkerOK
  <2>2. QED
    BY <2>1 DEF PurgeOK, Onwards
<1>4. QED
  BY <1>1, <1>2, <1>3 DEF WorkerOK

\* Worker w goes on at step s with context c; nobody else's tick moves.
Moves(w, s, c) ==
  /\ UNCHANGED <<jobs, held>>
  /\ at' = [at EXCEPT ![w] = s]
  /\ local' = [local EXCEPT ![w] = c]
  /\ \A v \in Workers \ {w} : pc'[v] = pc[v]
  /\ s # "start" => pc'[w] = "handling"

\* A handler that goes on, or returns, moves its own worker.
LEMMA HandlerMoves ==
  ASSUME NEW w \in Workers, pc[w] = "handling", pc \in [Workers -> Stages]
  PROVE  /\ \A s, c : Goto(w, s, c) => Moves(w, s, c)
         /\ \A r : Finish(w, r) => Moves(w, "start", NoContext)
         /\ FinishRetry(w) => Moves(w, "start", NoContext)
         /\ \A c : NextTask(w, c) =>
              \/ Moves(w, "start", NoContext)
              \/ Moves(w, "task", [c EXCEPT !.tasks = Tail(@)])
<1>1. \A s, c : Goto(w, s, c) => Moves(w, s, c)
  BY DEF Goto, Moves, queueVars
<1>2. \A r : Finish(w, r) => Moves(w, "start", NoContext)
  BY DEF Finish, Forget, Handle, Moves
<1>3. FinishRetry(w) => Moves(w, "start", NoContext)
  BY <1>2 DEF FinishRetry
<1>4. \A c : NextTask(w, c) => \/ Moves(w, "start", NoContext)
                              \/ Moves(w, "task", [c EXCEPT !.tasks = Tail(@)])
  BY <1>1, <1>2 DEF NextTask
<1>5. QED
  BY <1>1, <1>2, <1>3, <1>4

\* A step of a handler keeps the invariant when the documents and objects go
\* on as they may and the handler knows what its next step needs.
LEMMA MoveKeeps ==
  ASSUME StoreInv, NEW w \in Workers, NEW s \in HandlerSteps, NEW c, Moves(w, s, c),
         StepHas(s, c), s = "purge" => PurgeOK(c, Doc(w))',
         Onwards, docs' \in [Documents -> DocStates], assets' \in [Documents -> AssetMap],
         ContentsThere', PurgedContentIsGone'
  PROVE  StoreInv'
<1>1. StoreTypes'
  BY DEF StoreInv, StoreTypes, Moves
<1>2. ASSUME NEW v \in Workers, v # w PROVE WorkerOK(v)'
  <2>1. at'[v] = at[v] /\ local'[v] = local[v] /\ pc'[v] = pc[v] /\ Doc(v)' = Doc(v)
    BY <1>2 DEF Moves, StoreInv, StoreTypes, Doc
  <2>2. QED
    BY <2>1, OthersKeep DEF StoreInv
<1>3. WorkerOK(w)'
  <2>1. at'[w] = s /\ local'[w] = c /\ (s # "start" => pc'[w] = "handling")
    BY DEF Moves, StoreInv, StoreTypes
  <2>2. StepHas(at[w], local[w])'
    BY <2>1 DEF StepHas, ContextOK
  <2>3. at'[w] = "purge" => PurgeOK(local[w], Doc(w))'
    BY <2>1 DEF PurgeOK
  <2>4. QED
    BY <2>1, <2>2, <2>3 DEF WorkerOK
<1>4. QED
  BY <1>1, <1>2, <1>3 DEF StoreInv

\* Most steps touch neither documents nor objects.
LEMMA QuietMoveKeeps ==
  ASSUME StoreInv, NEW w \in Workers, NEW s \in HandlerSteps, NEW c, Moves(w, s, c),
         StepHas(s, c), s # "purge", assets' \in [Documents -> AssetMap],
         UNCHANGED <<docs, objects, condemned>>
  PROVE  StoreInv'
<1>1. Onwards /\ docs' \in [Documents -> DocStates] /\ ContentsThere' /\ PurgedContentIsGone'
  BY DEF Onwards, StoreInv, StoreTypes, ContentsThere, PurgedContentIsGone
<1>2. QED
  BY <1>1, MoveKeeps

\* A fresh context knows nothing, and tasks, types and buffers change nothing.
LEMMA Contexts ==
  /\ ContextOK(NoContext)
  /\ \A c, x : ContextOK(c) => /\ ContextOK([c EXCEPT !.tasks = x])
                              /\ ContextOK([c EXCEPT !.mime = x])
                              /\ ContextOK([c EXCEPT !.dated = x])
                              /\ ContextOK([c EXCEPT !.bytes = x]) /\ [c EXCEPT !.bytes = x].old = c.old
                              /\ ContextOK([c EXCEPT !.keys = x]) /\ [c EXCEPT !.keys = x].keys = x
  /\ \A c, x : ContextOK(c) /\ x \in AssetMap \union {None} => ContextOK([c EXCEPT !.cache = x])
<1>1. ContextOK(NoContext)
  BY DEF ContextOK, NoContext
<1>2. ASSUME NEW c, NEW x, ContextOK(c)
      PROVE  /\ ContextOK([c EXCEPT !.tasks = x]) /\ ContextOK([c EXCEPT !.mime = x])
             /\ ContextOK([c EXCEPT !.dated = x])
             /\ ContextOK([c EXCEPT !.bytes = x]) /\ [c EXCEPT !.bytes = x].old = c.old
             /\ ContextOK([c EXCEPT !.keys = x]) /\ [c EXCEPT !.keys = x].keys = x
  BY <1>2 DEF ContextOK
<1>3. ASSUME NEW c, NEW x \in AssetMap \union {None}, ContextOK(c) PROVE ContextOK([c EXCEPT !.cache = x])
  BY <1>3 DEF ContextOK
<1>4. QED
  BY <1>1, <1>2, <1>3

\* A handler that returns, or goes on to its next task.
LEMMA ReturnKeeps ==
  ASSUME StoreInv, NEW w \in Workers, pc[w] = "handling", pc \in [Workers -> Stages],
         \/ FinishRetry(w) \/ \E r : Finish(w, r)
         \/ \E c : ContextOK(c) /\ NextTask(w, c),
         assets' \in [Documents -> AssetMap], UNCHANGED <<docs, objects, condemned>>
  PROVE  StoreInv'
<1>1. CASE FinishRetry(w) \/ \E r : Finish(w, r)
  <2>1. Moves(w, "start", NoContext)
    BY <1>1, HandlerMoves
  <2>2. StepHas("start", NoContext) /\ "start" \in HandlerSteps
    BY Contexts DEF StepHas, HandlerSteps
  <2>3. QED
    BY <2>1, <2>2, QuietMoveKeeps
<1>2. ASSUME NEW c, ContextOK(c), NextTask(w, c) PROVE StoreInv'
  <2> DEFINE n == [c EXCEPT !.tasks = Tail(@)]
  <2>1. Moves(w, "start", NoContext) \/ Moves(w, "task", n)
    BY <1>2, HandlerMoves
  <2>2. StepHas("start", NoContext) /\ "start" \in HandlerSteps
    BY Contexts DEF StepHas, HandlerSteps
  <2>3. ContextOK(n)
    BY <1>2, Contexts
  <2> HIDE DEF n
  <2>4. StepHas("task", n) /\ "task" \in HandlerSteps
    BY <2>3 DEF StepHas, HandlerSteps
  <2>5. QED
    BY <2>1, <2>2, <2>4, QuietMoveKeeps
<1>3. QED
  BY <1>1, <1>2

-----------------------------------------------------------------------------
(* The queue: a job that was enqueued is about a document.                 *)

JobsHaveDocuments == \A j \in Jobs : jobs[j].status # "absent" => jobs[j].doc \in Documents

\* What the queue tells of a handler at work.
QueueInv == IInv /\ JobsHaveDocuments

\* Rows keep their document and type: they are inserted with them, and only their status,
\* due time and tenant are updated.
LEMMA RowsKeepDocuments ==
  ASSUME QueueInv, [QueueNext]_queueVars
  PROVE  \A j \in Jobs :
           \/ /\ jobs'[j].doc = jobs[j].doc /\ jobs'[j].type = jobs[j].type
              /\ jobs[j].status = "absent" <=> jobs'[j].status = "absent"
           \/ jobs[j].status = "absent" /\ jobs'[j].doc \in Documents
<1> USE DEF QueueInv, IInv, JobQueueTypeOK
<1> DEFINE Goal == \A j \in Jobs :
           \/ /\ jobs'[j].doc = jobs[j].doc /\ jobs'[j].type = jobs[j].type
              /\ jobs[j].status = "absent" <=> jobs'[j].status = "absent"
           \/ jobs[j].status = "absent" /\ jobs'[j].doc \in Documents
<1>1. CASE UNCHANGED jobs
  BY <1>1
<1>2. ASSUME NEW i \in Jobs, NEW ty, NEW t, NEW d \in Documents, InsertJob(i, ty, t, d)
      PROVE  Goal
  BY <1>2 DEF InsertJob
<1>3. ASSUME NEW t, NEW k, DetachJobs(t, k) PROVE Goal
  BY <1>3 DEF DetachJobs, Row
<1>4. ASSUME NEW w \in Workers, ReserveJob(w) PROVE Goal
  BY <1>4 DEF ReserveJob, HeldOK, Row
<1>5. ASSUME NEW w \in Workers, MarkJob(w) PROVE Goal
  <2>1. held[w] \in Jobs /\ jobs[held[w]].status = "processing" /\ result[w].kind # "absent"
    BY <1>5 DEF MarkJob, HeldOK, Success, Failed
  <2>2. QED
    BY <1>5, <2>1 DEF MarkJob, Row
<1>6. ASSUME NEW w \in Workers, RetryJob(w) PROVE Goal
  <2>1. held[w] \in Jobs /\ jobs[held[w]].status = "processing"
    BY <1>6 DEF RetryJob, HeldOK
  <2>2. jobs' = [jobs EXCEPT ![held[w]] = [jobs[held[w]] EXCEPT !.status = "queued",
                                                             !.runAfter = clock + result[w].delay]]
    BY <1>6, <2>1 DEF RetryJob
  <2>3. QED
    BY <2>1, <2>2 DEF Row
<1>7. CASE UNCHANGED queueVars
  BY <1>7, <1>1 DEF queueVars
<1>8. CASE Callers
  BY <1>8, <1>2, <1>3 DEF Callers, EnqueueJob, EnqueueJobIfNotExists
<1>9. ASSUME NEW w \in Workers, WorkerStep(w) \/ LoseWorker(w) PROVE Goal
  BY <1>9, <1>1, <1>4, <1>5, <1>6 DEF WorkerStep, LoseWorker, LockJob, Handle
<1>10. CASE Tick
  BY <1>10, <1>1 DEF Tick
<1>11. QED
  BY <1>7, <1>8, <1>9, <1>10 DEF QueueNext

\* The facts about the queue are kept by every step of it.
LEMMA QueueInvKept == QueueInv /\ [QueueNext]_queueVars => QueueInv'
<1>1. QueueInv /\ [QueueNext]_queueVars => IInv'
  BY NextIInv DEF QueueInv
<1>2. QueueInv /\ [QueueNext]_queueVars => JobsHaveDocuments'
  BY RowsKeepDocuments DEF QueueInv, JobsHaveDocuments
<1>3. QED
  BY <1>1, <1>2 DEF QueueInv

\* A handler at work has a job, whose document is one.
LEMMA AtWork ==
  ASSUME QueueInv, NEW w \in Workers, pc[w] = "handling"
  PROVE  /\ pc \in [Workers -> Stages] /\ held[w] \in Jobs
         /\ jobs[held[w]].status = "processing" /\ Doc(w) \in Documents
  BY DEF QueueInv, IInv, JobQueueTypeOK, HeldOK, JobsHaveDocuments, Doc

-----------------------------------------------------------------------------
(* The steps of the handlers.                                              *)

\* A worker's context and the assets are what their types say.
LEMMA ContextAt ==
  ASSUME StoreInv, NEW w \in Workers
  PROVE  /\ ContextOK(local[w]) /\ StepHas(at[w], local[w])
         /\ \A d \in Documents : assets[d] \in AssetMap
         /\ assets \in [Documents -> AssetMap]
  BY DEF StoreInv, WorkerOK, StepHas, StoreTypes

\* Steps of analyze-document that read, or write nothing the invariant reads.
LEMMA ReadingKeeps ==
  ASSUME StoreInv, QueueInv, NEW w \in Workers,
         \/ LoadDocument(w) \/ PlanTasks(w) \/ EnsureMime(w) \/ MakeAsset(w)
         \/ DetermineIssuedAt(w) \/ IndexText(w) \/ \E ty \in AssetTypes : CheckAsset(w, ty)
  PROVE  StoreInv'
<1>1. /\ pc[w] = "handling" /\ UNCHANGED <<docs, assets, objects, condemned>>
  BY DEF LoadDocument, PlanTasks, EnsureMime, MakeAsset, DetermineIssuedAt, IndexText, CheckAsset,
         Running, AtTask, tableVars
<1>2. /\ pc \in [Workers -> Stages] /\ Doc(w) \in Documents
      /\ ContextOK(local[w]) /\ assets \in [Documents -> AssetMap] /\ assets' \in [Documents -> AssetMap]
  BY <1>1, AtWork, ContextAt
<1>3. ASSUME NEW s \in HandlerSteps, NEW c, Goto(w, s, c), StepHas(s, c), s # "purge"
      PROVE  StoreInv'
  BY <1>1, <1>2, <1>3, HandlerMoves, QuietMoveKeeps
<1>4. ASSUME \/ FinishRetry(w) \/ \E r : Finish(w, r)
             \/ \E c : ContextOK(c) /\ NextTask(w, c)
      PROVE  StoreInv'
  BY <1>1, <1>2, <1>4, ReturnKeeps
<1>5. CASE LoadDocument(w)
  <2> DEFINE c == [NoContext EXCEPT !.mime = mime[Doc(w)], !.dated = issued[Doc(w)] # "unset"]
  <2>1. ContextOK(c)
    <3>1. ContextOK([NoContext EXCEPT !.mime = mime[Doc(w)]])
      BY Contexts
    <3>2. c = [[NoContext EXCEPT !.mime = mime[Doc(w)]] EXCEPT !.dated = issued[Doc(w)] # "unset"]
      OBVIOUS
    <3>3. QED
      BY <3>1, <3>2, Contexts
  <2>2. Goto(w, "plan", c) \/ Finish(w, Failed)
    BY <1>5 DEF LoadDocument
  <2> HIDE DEF c
  <2>3. StepHas("plan", c) /\ "plan" \in HandlerSteps
    BY <2>1 DEF StepHas, HandlerSteps
  <2>4. QED
    BY <2>2, <2>3, <1>3, <1>4
<1>6. CASE PlanTasks(w)
  <2>1. PICK ts : Goto(w, "task", [local[w] EXCEPT !.cache = assets[Doc(w)], !.tasks = ts])
    BY <1>6 DEF PlanTasks
  <2> DEFINE c == [local[w] EXCEPT !.cache = assets[Doc(w)], !.tasks = ts]
  <2>2. ContextOK(c)
    <3>1. assets[Doc(w)] \in AssetMap \union {None}
      BY <1>2
    <3>2. ContextOK([local[w] EXCEPT !.cache = assets[Doc(w)]])
      BY <1>2, <3>1, Contexts
    <3>3. c = [[local[w] EXCEPT !.cache = assets[Doc(w)]] EXCEPT !.tasks = ts]
      OBVIOUS
    <3>4. QED
      BY <3>2, <3>3, Contexts
  <2> HIDE DEF c
  <2>3. StepHas("task", c) /\ "task" \in HandlerSteps
    BY <2>2 DEF StepHas, HandlerSteps
  <2>4. QED
    BY <2>1, <2>3, <1>3 DEF c
<1>7. CASE EnsureMime(w)
  <2>1. ContextOK([local[w] EXCEPT !.mime = Content[Doc(w)]])
    BY <1>2 DEF ContextOK
  <2>2. QED
    BY <1>4, <1>7, <2>1 DEF EnsureMime
<1>8. CASE MakeAsset(w)
  <2> DEFINE c == [local[w] EXCEPT !.bytes = TRUE]
             s == IF local[w].old = None THEN "put" ELSE "dropObject"
  <2>1. ContextOK(c) /\ c.old = local[w].old
    BY <1>2, Contexts
  <2>2. StepHas(s, c) /\ s \in HandlerSteps /\ s # "purge"
    BY <2>1 DEF StepHas, ContextOK, HandlerSteps
  <2>3. FinishRetry(w) \/ Finish(w, Failed) \/ Goto(w, s, c)
    BY <1>8 DEF MakeAsset
  <2> HIDE DEF c, s
  <2>4. QED
    BY <1>3, <1>4, <2>2, <2>3
<1>9. CASE DetermineIssuedAt(w)
  <2> DEFINE cache == IF local[w].cache = None /\ ~local[w].dated THEN assets[Doc(w)] ELSE local[w].cache
             c == [local[w] EXCEPT !.cache = cache]
  <2>1. cache \in AssetMap \union {None}
    BY <1>2 DEF ContextOK
  <2>2. NextTask(w, c)
    BY <1>9 DEF DetermineIssuedAt
  <2> HIDE DEF cache
  <2>3. ContextOK(c)
    BY <1>2, <2>1 DEF ContextOK
  <2>4. QED
    BY <1>4, <2>2, <2>3
<1>10. CASE IndexText(w)
  BY <1>2, <1>4, <1>10 DEF IndexText
<1>11. ASSUME NEW ty \in AssetTypes, CheckAsset(w, ty) PROVE StoreInv'
  <2> DEFINE c == [local[w] EXCEPT !.cache = Cached(w)]
             m == [c EXCEPT !.old = Cached(w)[ty]]
  <2>1. Cached(w) \in AssetMap
    BY <1>2 DEF Cached, ContextOK
  <2>2. Cached(w)[ty] \in AssetRow \union {None}
    BY <2>1 DEF AssetMap
  <2>3. ContextOK(c)
    BY <1>2, <2>1 DEF ContextOK
  <2>4. NextTask(w, c) \/ Goto(w, "make", m)
    BY <1>11 DEF CheckAsset
  <2> HIDE DEF c
  <2>5. ContextOK(m)
    BY <2>2, <2>3 DEF ContextOK
  <2> HIDE DEF m
  <2>6. StepHas("make", m) /\ "make" \in HandlerSteps
    BY <2>5 DEF StepHas, HandlerSteps
  <2>7. QED
    BY <1>3, <1>4, <2>3, <2>4, <2>6
<1>12. QED
  BY <1>5, <1>6, <1>7, <1>8, <1>9, <1>10, <1>11

\* An original is no asset's object.
LEMMA OriginalIsNoAsset == \A d, e, a : a \in AssetIds => Original(d) # Key(e, a)
  BY DocumentStoreAssumption DEF Original, Key

\* Different documents have different originals.
LEMMA OriginalOf == \A d : Original(d).doc = d
  BY DEF Original, Key

\* Objects of assets come and go without a word about the originals.
LEMMA AssetObjectKeeps ==
  ASSUME StoreInv, NEW w \in Workers, NEW s \in HandlerSteps, NEW c, Moves(w, s, c),
         StepHas(s, c), s # "purge", NEW d, NEW a \in AssetIds,
         objects' = objects \union {Key(d, a)} \/ objects' = objects \ {Key(d, a)},
         UNCHANGED <<docs, assets, condemned>>
  PROVE  StoreInv'
<1>1. \A e : Original(e) \in objects' <=> Original(e) \in objects
  BY OriginalIsNoAsset
<1>2. /\ Onwards /\ docs' \in [Documents -> DocStates] /\ assets' \in [Documents -> AssetMap]
      /\ ContentsThere' /\ PurgedContentIsGone'
  BY <1>1 DEF Onwards, StoreInv, StoreTypes, ContentsThere, PurgedContentIsGone
<1>3. QED
  BY <1>2, MoveKeeps

\* Replacing an asset: its object, its row, the new object.
LEMMA ReplacingKeeps ==
  ASSUME StoreInv, QueueInv, NEW w \in Workers,
         DropObject(w) \/ DropRow(w) \/ \E a \in AssetIds : PutAsset(w, a)
  PROVE  StoreInv'
<1>1. pc[w] = "handling" /\ UNCHANGED <<docs, condemned>>
  BY DEF DropObject, DropRow, PutAsset, Running
<1>2. /\ pc \in [Workers -> Stages] /\ Doc(w) \in Documents
      /\ ContextOK(local[w]) /\ StepHas(at[w], local[w]) /\ assets \in [Documents -> AssetMap]
  BY <1>1, AtWork, ContextAt
<1>3. {"dropRow", "put", "persist"} \subseteq HandlerSteps
  BY DEF HandlerSteps
<1>4. CASE DropObject(w)
  <2>1. /\ at[w] = "dropObject" /\ Moves(w, "dropRow", local[w]) /\ UNCHANGED assets
        /\ objects' = objects \ {Key(Doc(w), local[w].old.key)}
    BY <1>1, <1>2, <1>4, HandlerMoves DEF DropObject, Running
  <2>2. StepHas("dropRow", local[w]) /\ local[w].old.key \in AssetIds
    BY <1>2, <2>1 DEF StepHas, AssetRow
  <2>3. QED
    BY <1>1, <1>3, <2>1, <2>2, AssetObjectKeeps
<1>5. CASE DropRow(w)
  <2>1. /\ Moves(w, "put", local[w]) /\ UNCHANGED objects
        /\ assets' = [assets EXCEPT ![Doc(w)] = WithoutRow(@, local[w].old.id)]
    BY <1>1, <1>2, <1>5, HandlerMoves DEF DropRow
  <2>2. assets' \in [Documents -> AssetMap]
    BY <1>2, <2>1 DEF WithoutRow, AssetMap
  <2>3. StepHas("put", local[w])
    BY <1>2 DEF StepHas
  <2>4. QED
    BY <1>1, <1>3, <2>1, <2>2, <2>3, QuietMoveKeeps
<1>6. ASSUME NEW a \in AssetIds, PutAsset(w, a) PROVE StoreInv'
  <2> DEFINE c == [local[w] EXCEPT !.new = a]
  <2>1. /\ Moves(w, "persist", c) /\ UNCHANGED assets
        /\ objects' = objects \union {Key(Doc(w), a)}
    BY <1>1, <1>2, <1>6, HandlerMoves DEF PutAsset
  <2>2. StepHas("persist", c)
    BY <1>2 DEF StepHas, ContextOK
  <2> HIDE DEF c
  <2>3. QED
    BY <1>1, <1>3, <2>1, <2>2, AssetObjectKeeps
<1>7. QED
  BY <1>4, <1>5, <1>6

\* The rows written for a new asset are rows.
LEMMA PersistTyped ==
  ASSUME NEW rows \in AssetMap, NEW old \in AssetRow \union {None}, NEW a \in AssetIds
  PROVE  PersistThumbnail(rows, old, a) \in AssetMap /\ PersistText(rows, old, a) \in AssetMap
<1>1. [id |-> a, key |-> a] \in AssetRow
  BY DEF AssetRow
<1>2. rows[Thumbnail] \in AssetRow \union {None}
  BY DEF AssetMap, AssetTypes
<1>3. PersistThumbnail(rows, old, a) \in AssetMap
  BY <1>2 DEF PersistThumbnail, AssetMap, AssetRow
<1>4. \A id : WithoutRow(rows, id) \in AssetMap
  BY DEF WithoutRow, AssetMap
<1>5. PersistText(rows, old, a) \in AssetMap
  BY <1>1, <1>4 DEF PersistText, AssetMap
<1>6. QED
  BY <1>3, <1>5

\* The row of the new asset is written or refused.
LEMMA PersistKeeps ==
  ASSUME StoreInv, QueueInv, NEW w \in Workers, PersistAsset(w)
  PROVE  StoreInv'
<1>1. pc[w] = "handling" /\ at[w] = "persist" /\ UNCHANGED <<docs, objects, condemned>>
  BY DEF PersistAsset, Running
<1>2. /\ pc \in [Workers -> Stages] /\ Doc(w) \in Documents
      /\ ContextOK(local[w]) /\ StepHas(at[w], local[w]) /\ assets \in [Documents -> AssetMap]
  BY <1>1, AtWork, ContextAt
<1>3. CASE ~RowExists(Doc(w))
  <2>1. FinishRetry(w) /\ UNCHANGED assets
    BY <1>3 DEF PersistAsset
  <2>2. assets' \in [Documents -> AssetMap]
    BY <1>2, <2>1
  <2>3. QED
    BY <1>1, <1>2, <2>1, <2>2, ReturnKeeps
<1>4. CASE RowExists(Doc(w))
  <2> DEFINE c == [local[w] EXCEPT !.cache = None, !.old = None, !.new = None]
  <2>1. /\ NextTask(w, c)
        /\ assets' = [assets EXCEPT ![Doc(w)] = IF Head(local[w].tasks) = Thumbnail
                                                THEN PersistThumbnail(@, local[w].old, local[w].new)
                                                ELSE PersistText(@, local[w].old, local[w].new)]
    BY <1>4 DEF PersistAsset
  <2>2. ContextOK(c)
    <3>1. ContextOK([local[w] EXCEPT !.cache = None])
      BY <1>2, Contexts
    <3>2. \A o : ContextOK(o) => ContextOK([o EXCEPT !.old = None])
      BY DEF ContextOK
    <3>3. \A o : ContextOK(o) => ContextOK([o EXCEPT !.new = None])
      BY DEF ContextOK
    <3>4. c = [[[local[w] EXCEPT !.cache = None] EXCEPT !.old = None] EXCEPT !.new = None]
      OBVIOUS
    <3>5. QED
      BY <3>1, <3>2, <3>3, <3>4, Zenon
  <2>3. assets' \in [Documents -> AssetMap]
    <3>1. local[w].new \in AssetIds /\ local[w].old \in AssetRow \union {None}
      BY <1>1, <1>2 DEF StepHas, ContextOK
    <3>2. assets[Doc(w)] \in AssetMap
      BY <1>2
    <3>3. /\ PersistThumbnail(assets[Doc(w)], local[w].old, local[w].new) \in AssetMap
          /\ PersistText(assets[Doc(w)], local[w].old, local[w].new) \in AssetMap
      BY <3>1, <3>2, PersistTyped
    <3>4. QED
      BY <1>2, <2>1, <3>3
  <2> HIDE DEF c
  <2>4. QED
    BY <1>1, <1>2, <2>1, <2>2, <2>3, ReturnKeeps
<1>5. QED
  BY <1>3, <1>4

\* The purge reads the document in the trash and collects the keys.
LEMMA PreparePurgeKeeps ==
  ASSUME StoreInv, QueueInv, NEW w \in Workers, PreparePurge(w)
  PROVE  StoreInv'
<1> DEFINE d == Doc(w)
<1>1. pc[w] = "handling" /\ UNCHANGED <<docs, assets, objects>>
  BY DEF PreparePurge, Running, tableVars
<1>2. /\ pc \in [Workers -> Stages] /\ d \in Documents /\ assets \in [Documents -> AssetMap]
      /\ docs \in [Documents -> DocStates]
  BY <1>1, AtWork, ContextAt DEF StoreInv, StoreTypes
<1>3. CASE docs[d] # "trashed"
  <2>1. Finish(w, Success) /\ UNCHANGED condemned
    BY <1>3 DEF PreparePurge
  <2>2. assets' \in [Documents -> AssetMap]
    BY <1>1, <1>2
  <2>3. QED
    BY <1>1, <1>2, <2>1, <2>2, ReturnKeeps
<1>4. CASE docs[d] = "trashed"
  <2>1. PICK ks : ks = {Original(d)} \union {Key(d, r.key) : r \in {assets[d][ty] : ty \in AssetTypes} \ {None}}
    OBVIOUS
  <2>2. PICK c : c = [NoContext EXCEPT !.keys = ks]
    OBVIOUS
  <2>3. Goto(w, "purge", c) /\ condemned' = condemned \union {d}
    BY <1>4, <2>1, <2>2 DEF PreparePurge
  <2>4. /\ \A k \in ks : k.doc = d
        /\ Original(d) \in ks
        /\ ContextOK(c) /\ c.keys = ks
    <3>1. \A k \in ks : k.doc = d
      BY <2>1 DEF Original, Key
    <3>2. Original(d) \in ks
      BY <2>1
    <3>3. ContextOK(c) /\ c.keys = ks
      BY <2>2, Contexts
    <3>4. QED
      BY <3>1, <3>2, <3>3
  <2>5. Moves(w, "purge", c) /\ "purge" \in HandlerSteps /\ StepHas("purge", c)
    BY <1>1, <1>2, <2>3, <2>4, HandlerMoves DEF HandlerSteps, StepHas
  <2>6. Doc(w)' = Doc(w)
    BY <2>5 DEF Moves, Doc
  <2>7. PurgeOK(c, Doc(w))'
    BY <1>1, <1>4, <2>3, <2>4, <2>6 DEF PurgeOK, Original
  <2>8. Onwards /\ ContentsThere' /\ PurgedContentIsGone'
    BY <1>1, <2>3 DEF Onwards, StoreInv, ContentsThere, PurgedContentIsGone
  <2>9. docs' \in [Documents -> DocStates] /\ assets' \in [Documents -> AssetMap]
    BY <1>1, <1>2
  <2>10. QED
    BY <2>5, <2>7, <2>8, <2>9, MoveKeeps
<1>5. QED
  BY <1>3, <1>4

\* One object less, and one key less to delete.
LEMMA PurgeObjectKeeps ==
  ASSUME StoreInv, QueueInv, NEW w \in Workers, PurgeObject(w)
  PROVE  StoreInv'
<1> DEFINE d == Doc(w)
<1>1. pc[w] = "handling" /\ at[w] = "purge" /\ UNCHANGED <<docs, assets, condemned>>
  BY DEF PurgeObject, Running
<1>2. /\ pc \in [Workers -> Stages] /\ d \in Documents /\ assets \in [Documents -> AssetMap]
      /\ docs \in [Documents -> DocStates] /\ ContextOK(local[w])
  BY <1>1, AtWork, ContextAt DEF StoreInv, StoreTypes
<1>3. PurgeOK(local[w], d)
  BY <1>1 DEF StoreInv, WorkerOK
<1>4. PICK k \in local[w].keys :
        /\ objects' = objects \ {k}
        /\ Goto(w, "purge", [local[w] EXCEPT !.keys = @ \ {k}])
  BY DEF PurgeObject
<1>5. PICK c : c = [local[w] EXCEPT !.keys = local[w].keys \ {k}]
  OBVIOUS
<1>6. Goto(w, "purge", c) /\ ContextOK(c) /\ c.keys = local[w].keys \ {k}
  BY <1>2, <1>4, <1>5, Contexts
<1>7. Moves(w, "purge", c) /\ "purge" \in HandlerSteps /\ StepHas("purge", c)
  BY <1>1, <1>2, <1>6, HandlerMoves DEF HandlerSteps, StepHas
<1>8. Doc(w)' = Doc(w)
  BY <1>7 DEF Moves, Doc
<1>9. PurgeOK(c, Doc(w))'
  BY <1>1, <1>3, <1>4, <1>6, <1>8 DEF PurgeOK, Original
<1>10. \A e \in Documents : Original(e) \in objects /\ Original(e) \notin objects' => e \in condemned
  BY <1>3, <1>4, OriginalOf DEF PurgeOK
<1>11. Onwards /\ ContentsThere' /\ PurgedContentIsGone'
  BY <1>1, <1>4, <1>10 DEF Onwards, StoreInv, ContentsThere, PurgedContentIsGone
<1>12. docs' \in [Documents -> DocStates] /\ assets' \in [Documents -> AssetMap]
  BY <1>1, <1>2
<1>13. QED
  BY <1>7, <1>9, <1>11, <1>12, MoveKeeps

\* The row goes when no key is left to delete.
LEMMA FinalizePurgeKeeps ==
  ASSUME StoreInv, QueueInv, NEW w \in Workers, FinalizePurge(w)
  PROVE  StoreInv'
<1> DEFINE d == Doc(w)
<1>1. /\ pc[w] = "handling" /\ at[w] = "purge" /\ local[w].keys = {}
      /\ UNCHANGED <<objects, condemned>> /\ Finish(w, Success)
  BY DEF FinalizePurge, Running
<1>2. /\ pc \in [Workers -> Stages] /\ d \in Documents /\ assets \in [Documents -> AssetMap]
      /\ docs \in [Documents -> DocStates]
  BY <1>1, AtWork, ContextAt DEF StoreInv, StoreTypes
<1>3. PurgeOK(local[w], d)
  BY <1>1 DEF StoreInv, WorkerOK
<1>4. Original(d) \notin objects /\ d \in condemned
  BY <1>1, <1>3 DEF PurgeOK
<1>5. Moves(w, "start", NoContext) /\ "start" \in HandlerSteps /\ StepHas("start", NoContext)
  BY <1>1, <1>2, HandlerMoves, Contexts DEF HandlerSteps, StepHas
<1>6. /\ docs' = docs \/ docs' = [docs EXCEPT ![d] = "gone"]
      /\ assets' = assets \/ assets' = [assets EXCEPT ![d] = NoAssets]
  BY DEF FinalizePurge
<1>7. NoAssets \in AssetMap
  BY DEF NoAssets, AssetMap
<1>8. docs' \in [Documents -> DocStates] /\ assets' \in [Documents -> AssetMap]
  BY <1>2, <1>6, <1>7 DEF DocStates
<1>9. Onwards /\ ContentsThere' /\ PurgedContentIsGone'
  BY <1>1, <1>2, <1>4, <1>6 DEF Onwards, StoreInv, ContentsThere, PurgedContentIsGone
<1>10. QED
  BY <1>5, <1>8, <1>9, MoveKeeps

\* A failed call ends the handler, sends it back to the queue, or is ignored.
LEMMA FailureKeeps ==
  ASSUME StoreInv, QueueInv, NEW w \in Workers, CallFails(w)
  PROVE  StoreInv'
<1>1. pc[w] = "handling" /\ UNCHANGED <<docs, assets, objects, condemned>>
  BY DEF CallFails, tableVars, historyVars
<1>2. /\ pc \in [Workers -> Stages] /\ StepHas(at[w], local[w])
      /\ assets \in [Documents -> AssetMap] /\ assets' \in [Documents -> AssetMap]
  BY <1>1, AtWork, ContextAt
<1>3. CASE Finish(w, Failed) \/ FinishRetry(w)
  BY <1>1, <1>2, <1>3, ReturnKeeps
<1>4. ASSUME NEW s \in {"dropRow", "put"}, at[w] \in {"dropObject", "dropRow"}, Goto(w, s, local[w])
      PROVE  StoreInv'
  <2>1. Moves(w, s, local[w]) /\ StepHas(s, local[w]) /\ s \in HandlerSteps /\ s # "purge"
    BY <1>1, <1>2, <1>4, HandlerMoves DEF StepHas, HandlerSteps
  <2>2. QED
    BY <1>1, <1>2, <2>1, QuietMoveKeeps
<1>5. QED
  BY <1>3, <1>4 DEF CallFails

\* Every step of a handler.
LEMMA HandlerKeeps ==
  ASSUME StoreInv, QueueInv, NEW w \in Workers, HandlerStep(w) \/ CallFails(w)
  PROVE  StoreInv'
  BY ReadingKeeps, ReplacingKeeps, PersistKeeps, PreparePurgeKeeps, PurgeObjectKeeps,
     FinalizePurgeKeeps, FailureKeeps DEF HandlerStep

-----------------------------------------------------------------------------
(* The steps around the handlers.                                          *)

\* A step that moves no handler keeps the invariant when the documents and
\* objects go on as they may.
LEMMA NobodyMoves ==
  ASSUME StoreInv, UNCHANGED handlerVars,
         \A w \in Workers : at[w] # "start" => pc'[w] = pc[w] /\ Doc(w)' = Doc(w),
         Onwards, docs' \in [Documents -> DocStates], assets' \in [Documents -> AssetMap],
         ContentsThere', PurgedContentIsGone'
  PROVE  StoreInv'
<1>1. StoreTypes'
  BY DEF StoreInv, StoreTypes, handlerVars
<1>2. ASSUME NEW w \in Workers PROVE WorkerOK(w)'
  <2>1. at'[w] = at[w] /\ local'[w] = local[w] /\ WorkerOK(w)
    BY DEF handlerVars, StoreInv
  <2>2. QED
    BY <2>1, OthersKeep
<1>3. QED
  BY <1>1, <1>2 DEF StoreInv

\* Documents and objects that stay as they are go on as they may.
LEMMA StandStill ==
  ASSUME StoreInv, UNCHANGED <<docs, objects, condemned>>, UNCHANGED assets
  PROVE  /\ Onwards /\ docs' \in [Documents -> DocStates] /\ assets' \in [Documents -> AssetMap]
         /\ ContentsThere' /\ PurgedContentIsGone'
  BY DEF Onwards, StoreInv, StoreTypes, ContentsThere, PurgedContentIsGone

\* The steps of tick() around a handler, and time, leave a handler at work with its job
\* and its document.
LEMMA PollStays ==
  ASSUME StoreInv, QueueInv, (\E w \in Workers : PollStep(w)) \/ Tick \/ UNCHANGED queueVars,
         NEW v \in Workers, at[v] # "start"
  PROVE  pc'[v] = pc[v] /\ Doc(v)' = Doc(v)
<1>0. [QueueNext]_queueVars
  BY DEF PollStep, QueueNext, WorkerStep
<1>1. pc[v] = "handling"
  BY DEF StoreInv, WorkerOK
<1>2. held[v] \in Jobs /\ jobs[held[v]].status = "processing"
  BY <1>1, AtWork
<1>3. pc'[v] = pc[v] /\ held'[v] = held[v]
  <2>1. CASE Tick \/ UNCHANGED queueVars
    BY <2>1 DEF Tick, queueVars
  <2>2. ASSUME NEW w \in Workers, PollStep(w) PROVE pc'[v] = pc[v] /\ held'[v] = held[v]
    <3>1. pc[w] # "handling"
      BY <2>2 DEF PollStep, LockJob, ReserveJob, MarkJob, RetryJob
    <3>2. v # w /\ pc \in [Workers -> Stages] /\ held \in [Workers -> Jobs \union {None}]
      BY <1>1, <3>1 DEF QueueInv, IInv, JobQueueTypeOK
    <3>3. QED
      BY <2>2, <3>2 DEF PollStep, LockJob, ReserveJob, MarkJob, RetryJob, Release
  <2>3. QED
    BY <2>1, <2>2
<1>4. jobs'[held[v]].doc = jobs[held[v]].doc
  BY <1>0, <1>2, RowsKeepDocuments
<1>5. QED
  BY <1>3, <1>4 DEF Doc

\* So they find the handlers at work on the same documents after as before.
LEMMA PollKeeps ==
  ASSUME StoreInv, QueueInv, UNCHANGED storeVars,
         (\E w \in Workers : PollStep(w)) \/ Tick \/ UNCHANGED queueVars
  PROVE  StoreInv'
<1>1. UNCHANGED <<docs, objects, condemned, assets, handlerVars>>
  BY DEF storeVars, tableVars, historyVars, handlerVars
<1>2. QED
  BY <1>1, PollStays, StandStill, NobodyMoves

\* A lost worker forgets what it was doing; the others go on.
LEMMA LossKeeps ==
  ASSUME StoreInv, QueueInv, NEW w \in Workers, LoseHandler(w)
  PROVE  StoreInv'
<1>1. UNCHANGED <<docs, objects, condemned, assets, jobs>>
  BY DEF LoseHandler, LoseWorker, tableVars, historyVars
<1>2. Onwards /\ docs' \in [Documents -> DocStates] /\ assets' \in [Documents -> AssetMap]
      /\ ContentsThere' /\ PurgedContentIsGone'
  BY <1>1, StandStill
<1>3. /\ at' = [at EXCEPT ![w] = "start"] /\ local' = [local EXCEPT ![w] = NoContext]
      /\ \A v \in Workers \ {w} : pc'[v] = pc[v] /\ held'[v] = held[v]
  BY DEF LoseHandler, LoseWorker, Release, Forget, QueueInv, IInv, JobQueueTypeOK
<1>4. StoreTypes'
  BY <1>2, <1>3 DEF StoreInv, StoreTypes, HandlerSteps
<1>5. ASSUME NEW v \in Workers, v # w PROVE WorkerOK(v)'
  <2>1. at'[v] = at[v] /\ local'[v] = local[v] /\ pc'[v] = pc[v] /\ Doc(v)' = Doc(v) /\ WorkerOK(v)
    BY <1>1, <1>3, <1>5 DEF StoreInv, StoreTypes, Doc
  <2>2. QED
    BY <1>2, <2>1, OthersKeep
<1>6. WorkerOK(w)'
  <2>1. at'[w] = "start" /\ local'[w] = NoContext
    BY <1>3 DEF StoreInv, StoreTypes
  <2>2. StepHas("start", NoContext)
    BY Contexts DEF StepHas
  <2>3. StepHas(at[w], local[w])'
    BY <2>1, <2>2 DEF StepHas, ContextOK
  <2>4. QED
    BY <2>1, <2>3 DEF WorkerOK
<1>7. QED
  BY <1>2, <1>4, <1>5, <1>6 DEF StoreInv

\* What requests do to the tables and to the handlers at work.
LEMMA RequestsWrite ==
  ASSUME StoreInv, QueueInv, Requests
  PROVE  /\ UNCHANGED <<handlerVars, pc, held, assets, condemned>>
         /\ \A v \in Workers : at[v] # "start" => pc'[v] = pc[v] /\ Doc(v)' = Doc(v)
         /\ \/ UNCHANGED <<docs, objects>>
            \/ \E d \in Documents :
                 \/ docs[d] = "absent" /\ docs' = [docs EXCEPT ![d] = "stored"] /\ objects' = objects \union {Original(d)}
                 \/ docs[d] = "stored" /\ docs' = [docs EXCEPT ![d] = "live"] /\ objects' = objects
                 \/ docs[d] = "stored" /\ docs' = [docs EXCEPT ![d] = "rejected"] /\ objects' = objects
                 \/ docs[d] = "live" /\ docs' = [docs EXCEPT ![d] = "trashed"] /\ objects' = objects
                 \/ docs[d] \in {"live", "trashed"} /\ docs' = [docs EXCEPT ![d] = "live"] /\ objects' = objects
<1>1. UNCHANGED <<handlerVars, pc, held, assets, condemned>>
  <2>1. UNCHANGED <<pc, held>>
    BY DEF Requests, StoreUpload, InsertUpload, RejectUpload, AnnounceUpload, RequestAnalysis,
           DeleteDocument, AnnounceFails, TrashDocument, BeginUndelete, CompleteUndelete,
           RefuseUndelete, EditIssuedAt, EnqueueJob, EnqueueJobIfNotExists, queueVars
  <2>2. UNCHANGED <<handlerVars, assets, condemned>>
    BY DEF Requests, StoreUpload, InsertUpload, RejectUpload, AnnounceUpload, RequestAnalysis,
           DeleteDocument, AnnounceFails, TrashDocument, BeginUndelete, CompleteUndelete,
           RefuseUndelete, EditIssuedAt, tableVars, historyVars
  <2>3. QED
    BY <2>1, <2>2
<1>2. ASSUME NEW v \in Workers, at[v] # "start" PROVE pc'[v] = pc[v] /\ Doc(v)' = Doc(v)
  <2>1. pc[v] = "handling"
    BY <1>2 DEF StoreInv, WorkerOK
  <2>2. held[v] \in Jobs /\ jobs[held[v]].status = "processing"
    BY <2>1, AtWork
  <2>3. [QueueNext]_queueVars
    BY RequestIsQueue DEF QueueNext
  <2>4. jobs'[held[v]].doc = jobs[held[v]].doc
    BY <2>2, <2>3, RowsKeepDocuments
  <2>5. QED
    BY <1>1, <2>4 DEF Doc
<1>3. docs \in [Documents -> DocStates] /\ assets' \in [Documents -> AssetMap]
  BY <1>1 DEF StoreInv, StoreTypes
<1>4. \/ UNCHANGED <<docs, objects>>
      \/ \E d \in Documents :
           \/ docs[d] = "absent" /\ docs' = [docs EXCEPT ![d] = "stored"] /\ objects' = objects \union {Original(d)}
           \/ docs[d] = "stored" /\ docs' = [docs EXCEPT ![d] = "live"] /\ objects' = objects
           \/ docs[d] = "stored" /\ docs' = [docs EXCEPT ![d] = "rejected"] /\ objects' = objects
           \/ docs[d] = "live" /\ docs' = [docs EXCEPT ![d] = "trashed"] /\ objects' = objects
           \/ docs[d] \in {"live", "trashed"} /\ docs' = [docs EXCEPT ![d] = "live"] /\ objects' = objects
  <2>1. PICK d \in Documents :
          \/ \E m \in Claims : StoreUpload(d, m)
          \/ InsertUpload(d) \/ RejectUpload(d)
          \/ \E t \in Tenants, j \in Jobs :
               \/ AnnounceUpload(d, t, j)
               \/ \E force \in BOOLEAN : RequestAnalysis(d, t, j, force)
               \/ DeleteDocument(d, t, j)
          \/ AnnounceFails(d) \/ TrashDocument(d) \/ BeginUndelete(d)
          \/ CompleteUndelete(d) \/ RefuseUndelete(d) \/ EditIssuedAt(d)
    BY DEF Requests
  <2>2. CASE \E m \in Claims : StoreUpload(d, m)
    BY <2>2 DEF StoreUpload
  <2>3. CASE InsertUpload(d) \/ RejectUpload(d) \/ TrashDocument(d)
    BY <2>3 DEF InsertUpload, RejectUpload, TrashDocument
  <2>4. CASE CompleteUndelete(d)
    <3>1. objects' = objects /\ docs' = [docs EXCEPT ![d] = IF RowExists(d) THEN "live" ELSE docs[d]]
      BY <2>4 DEF CompleteUndelete
    <3>2. CASE RowExists(d)
      BY <3>1, <3>2 DEF RowExists
    <3>3. CASE ~RowExists(d)
      BY <1>3, <3>1, <3>3
    <3>4. QED
      BY <3>2, <3>3
  <2>5. CASE AnnounceFails(d) \/ BeginUndelete(d) \/ RefuseUndelete(d) \/ EditIssuedAt(d)
    BY <2>5 DEF AnnounceFails, BeginUndelete, RefuseUndelete, EditIssuedAt, tableVars
  <2>6. ASSUME NEW t \in Tenants, NEW j \in Jobs,
               \/ AnnounceUpload(d, t, j) \/ DeleteDocument(d, t, j)
               \/ \E force \in BOOLEAN : RequestAnalysis(d, t, j, force)
        PROVE  UNCHANGED <<docs, objects>>
    BY <2>6 DEF AnnounceUpload, DeleteDocument, RequestAnalysis, tableVars
  <2>7. QED
    BY <2>1, <2>2, <2>3, <2>4, <2>5, <2>6
<1>5. QED
  BY <1>1, <1>2, <1>4

\* A request moves no handler and is the only one to make a document live.
LEMMA RequestsKeep ==
  ASSUME StoreInv, QueueInv, Requests
  PROVE  StoreInv'
<1>1. UNCHANGED <<handlerVars, pc, held, assets, condemned>>
  BY RequestsWrite
<1>2. \A v \in Workers : at[v] # "start" => pc'[v] = pc[v] /\ Doc(v)' = Doc(v)
  BY RequestsWrite
<1>3. docs \in [Documents -> DocStates] /\ assets' \in [Documents -> AssetMap]
  BY <1>1 DEF StoreInv, StoreTypes
<1>4. \/ UNCHANGED <<docs, objects>>
      \/ \E d \in Documents :
           \/ docs[d] = "absent" /\ docs' = [docs EXCEPT ![d] = "stored"] /\ objects' = objects \union {Original(d)}
           \/ docs[d] = "stored" /\ docs' = [docs EXCEPT ![d] = "live"] /\ objects' = objects
           \/ docs[d] = "stored" /\ docs' = [docs EXCEPT ![d] = "rejected"] /\ objects' = objects
           \/ docs[d] = "live" /\ docs' = [docs EXCEPT ![d] = "trashed"] /\ objects' = objects
           \/ docs[d] \in {"live", "trashed"} /\ docs' = [docs EXCEPT ![d] = "live"] /\ objects' = objects
  BY RequestsWrite
<1>5. CASE UNCHANGED <<docs, objects>>
  BY <1>1, <1>2, <1>5, StandStill, NobodyMoves
<1>6. ASSUME NEW d \in Documents,
           \/ docs[d] = "absent" /\ docs' = [docs EXCEPT ![d] = "stored"] /\ objects' = objects \union {Original(d)}
           \/ docs[d] = "stored" /\ docs' = [docs EXCEPT ![d] = "live"] /\ objects' = objects
           \/ docs[d] = "stored" /\ docs' = [docs EXCEPT ![d] = "rejected"] /\ objects' = objects
           \/ docs[d] = "live" /\ docs' = [docs EXCEPT ![d] = "trashed"] /\ objects' = objects
           \/ docs[d] \in {"live", "trashed"} /\ docs' = [docs EXCEPT ![d] = "live"] /\ objects' = objects
      PROVE  StoreInv'
  <2>1. docs' \in [Documents -> DocStates]
    BY <1>3, <1>6 DEF DocStates
  <2>2. \A e : Original(e) \in objects' => Original(e) \in objects \/ (e = d /\ docs[d] = "absent")
    BY <1>6, OriginalOf
  <2>3. Onwards
    BY <1>1, <1>3, <1>6, <2>2 DEF Onwards
  <2>4. ContentsThere'
    BY <1>1, <1>3, <1>6 DEF StoreInv, ContentsThere
  <2>5. PurgedContentIsGone'
    BY <1>3, <1>6, <2>2 DEF StoreInv, PurgedContentIsGone
  <2>6. QED
    BY <1>1, <1>2, <1>3, <2>1, <2>3, <2>4, <2>5, NobodyMoves
<1>7. QED
  BY <1>4, <1>5, <1>6

-----------------------------------------------------------------------------
(* The theorems on contents.                                               *)

Inv == StoreInv /\ QueueInv

\* Nothing is there at first.
LEMMA InvInit == StoreInit => Inv
<1>1. StoreInit => QueueInv
  BY InitIInv, JobQueueAssumption DEF StoreInit, QueueInv, QueueInit, JobsHaveDocuments, NoRow
<1>2. ASSUME StoreInit PROVE StoreInv
  <2>1. StoreTypes
    BY <1>2 DEF StoreInit, StoreTypes, DocStates, AssetMap, NoAssets, HandlerSteps
  <2>2. ASSUME NEW w \in Workers PROVE WorkerOK(w)
    <3>1. at[w] = "start" /\ local[w] = NoContext
      BY <1>2 DEF StoreInit
    <3>2. QED
      BY <3>1, Contexts DEF WorkerOK, StepHas
  <2>3. ContentsThere /\ PurgedContentIsGone
    BY <1>2 DEF StoreInit, ContentsThere, PurgedContentIsGone
  <2>4. QED
    BY <2>1, <2>2, <2>3 DEF StoreInv
<1>3. QED
  BY <1>1, <1>2 DEF Inv

\* Every step keeps the invariant.
LEMMA InvKept == Inv /\ [StoreNext]_allVars => Inv'
<1>1. Inv /\ [StoreNext]_allVars => QueueInv'
  BY StoreStepIsQueue, QueueInvKept DEF Inv
<1>2. ASSUME Inv, [StoreNext]_allVars PROVE StoreInv'
  <2>1. CASE Requests
    BY <1>2, <2>1, RequestsKeep DEF Inv
  <2>2. ASSUME NEW w \in Workers, HandlerStep(w) \/ CallFails(w) PROVE StoreInv'
    BY <1>2, <2>2, HandlerKeeps DEF Inv
  <2>3. ASSUME NEW w \in Workers, PollStep(w) PROVE StoreInv'
    <3>1. UNCHANGED storeVars
      BY <2>3 DEF PollStep
    <3>2. QED
      BY <1>2, <2>3, <3>1, PollKeeps DEF Inv
  <2>4. ASSUME NEW w \in Workers, LoseHandler(w) PROVE StoreInv'
    BY <1>2, <2>4, LossKeeps DEF Inv
  <2>5. CASE Tick /\ UNCHANGED storeVars
    BY <1>2, <2>5, PollKeeps DEF Inv
  <2>6. CASE UNCHANGED allVars
    BY <1>2, <2>6, PollKeeps DEF Inv, allVars
  <2>7. QED
    BY <1>2, <2>1, <2>2, <2>3, <2>4, <2>5, <2>6 DEF StoreNext
<1>3. QED
  BY <1>1, <1>2 DEF Inv

\* The invariant holds in every state, however requests, handlers, failed calls
\* and lost workers overlap.
LEMMA StoreInvariant == StoreSpec => []Inv
  BY InvInit, InvKept, PTL DEF StoreSpec

\* Trashing, restoring and analysing never cost a document its contents: until a
\* purge has seen it in the trash, its original object is there.
THEOREM ContentsAreKept == StoreSpec => []ContentKept
<1>1. Inv => ContentKept
  BY DEF Inv, StoreInv, ContentsThere, ContentKept, RowExists
<1>2. QED
  BY <1>1, StoreInvariant, PTL

\* finalize_purge: a document whose row a purge has deleted has no original left.
THEOREM PurgesDeleteContents == StoreSpec => []PurgedContentIsGone
<1>1. Inv => PurgedContentIsGone
  BY DEF Inv, StoreInv
<1>2. QED
  BY <1>1, StoreInvariant, PTL

\* Who deletes the row of a document: the end of a purge that finds it in the trash.
LEMMA OnlyPurgesRemove ==
  ASSUME Inv, [StoreNext]_allVars, NEW d \in Documents, docs[d] # "gone", docs'[d] = "gone"
  PROVE  docs[d] = "trashed"
<1>1. docs \in [Documents -> DocStates]
  BY DEF Inv, StoreInv, StoreTypes
<1>2. ~UNCHANGED docs
  OBVIOUS
<1>3. ~Requests
  <2>1. SUFFICES ASSUME Requests PROVE FALSE
    OBVIOUS
  <2>2. PICK e \in Documents :
          \/ \E m \in Claims : StoreUpload(e, m)
          \/ InsertUpload(e) \/ RejectUpload(e)
          \/ \E t \in Tenants, j \in Jobs :
               \/ AnnounceUpload(e, t, j)
               \/ \E force \in BOOLEAN : RequestAnalysis(e, t, j, force)
               \/ DeleteDocument(e, t, j)
          \/ AnnounceFails(e) \/ TrashDocument(e) \/ BeginUndelete(e)
          \/ CompleteUndelete(e) \/ RefuseUndelete(e) \/ EditIssuedAt(e)
    BY <2>1 DEF Requests
  <2>3. \/ \E m \in Claims : StoreUpload(e, m)
        \/ InsertUpload(e) \/ RejectUpload(e) \/ TrashDocument(e) \/ CompleteUndelete(e)
    BY <1>2, <2>2 DEF AnnounceUpload, RequestAnalysis, DeleteDocument, AnnounceFails, BeginUndelete,
                      RefuseUndelete, EditIssuedAt, tableVars
  <2>4. QED
    BY <1>1, <2>3 DEF StoreUpload, InsertUpload, RejectUpload, TrashDocument, CompleteUndelete
<1>4. \A w \in Workers : ~PollStep(w) /\ ~CallFails(w) /\ ~LoseHandler(w)
  BY <1>2 DEF PollStep, CallFails, LoseHandler, storeVars, tableVars
<1>5. PICK w \in Workers : HandlerStep(w)
  BY <1>2, <1>3, <1>4 DEF StoreNext, allVars, storeVars, tableVars
<1>6. FinalizePurge(w)
  BY <1>2, <1>5 DEF HandlerStep, LoadDocument, PlanTasks, EnsureMime, CheckAsset, MakeAsset, DropObject,
                    DropRow, PutAsset, PersistAsset, DetermineIssuedAt, IndexText, PreparePurge,
                    PurgeObject, tableVars
<1>7. QED
  BY <1>1, <1>2, <1>6 DEF FinalizePurge

\* finalize_purge looks at deleted_at again: the row of a document that was restored
\* while a purge of it was under way is not deleted.
THEOREM LiveIsKept == StoreSpec => LiveIsNeverRemoved
<1>1. ASSUME Inv, [StoreNext]_allVars
      PROVE  [\A d \in Documents : docs[d] = "live" => docs'[d] # "gone"]_allVars
  BY <1>1, OnlyPurgesRemove
<1>2. QED
  BY <1>1, StoreInvariant, PTL DEF StoreSpec, LiveIsNeverRemoved
=============================================================================
