--------------------------- MODULE DocumentStore ---------------------------
(***************************************************************************)
(* Documents, their derived assets and the objects in tenant storage, as   *)
(* the API (backend/src/services/documents.rs) and the two document job    *)
(* handlers (backend/src/workers/purge.rs, analyze.rs, thumbnails.rs,      *)
(* ocr.rs, issued_at.rs, index.rs) change them.                            *)
(*                                                                         *)
(* The database and the object store share no transaction.  Each database  *)
(* transaction and each storage request is a step of its own here; between *)
(* two of them every other worker and every API request may run.           *)
(*                                                                         *)
(* The module refines JobQueue: the handler, any outcome there, is the     *)
(* sequence of steps below.  One tenant, active throughout.  A document    *)
(* has one version (nothing in src/ adds another).  Tags, correspondents,  *)
(* metadata and page counts are left out.                                  *)
(***************************************************************************)
EXTENDS JobQueue, Sequences, FiniteSets

CONSTANTS AssetIds,     \* identifiers of assets (Uuid::new_v4)
          Content,      \* Content[d]: the type sniffed from the bytes of d
          Claims,       \* types that uploads may claim
          MaxUndeletes, \* bound: restores, and uploads reusing a trashed document
          MaxEdits,     \* bound: edits of issued_at
          MaxErrors     \* bound: database or storage calls that fail

Mimes == {"pdf", "image", "other"}
Thumbnail == "thumbnail"
Text == "text-content"
AssetTypes == {Thumbnail, Text}
TaskNames == {"mime", Thumbnail, Text, "issued", "index"}

ASSUME DocumentStoreAssumption ==
  /\ {Analyze, Purge} \subseteq JobTypes
  /\ None \notin AssetIds \union [id : AssetIds, key : AssetIds]
  /\ Content \in [Documents -> Mimes]
  /\ Claims \subseteq Mimes
  /\ MaxUndeletes \in Nat
  /\ MaxEdits \in Nat
  /\ MaxErrors \in Nat

VARIABLES
  docs,       \* docs[d]: the row of d, see DocStates
  mime,       \* mime[d]: content type, from mime_type or the file name
  issued,     \* issued[d]: who set issued_at
  assets,     \* assets[d][ty]: the document_assets row, or None
  objects,    \* keys present in tenant storage
  indexed,    \* documents ingested by Quickwit
  announcing, \* uploads that have inserted d and not yet enqueued its job
  undeleting, \* requests that have read d in the trash and will undelete it
  forced,     \* jobs whose payload says force
  at,         \* at[w]: the next step of the handler w runs
  local,      \* local[w]: the task context of that handler
  errors,     \* failed calls so far (bounded by MaxErrors)
  undeletes,  \* undeleting requests so far (bounded by MaxUndeletes)
  edits,      \* edits so far (bounded by MaxEdits)
  accepted,   \* history: DELETE was accepted since d was last undeleted
  restored,   \* history: d was reported restored and not trashed since
  condemned   \* history: a purge has seen d in the trash

tableVars == <<docs, mime, issued, assets, objects, indexed>>
requestVars == <<announcing, undeleting, forced, undeletes, edits>>
historyVars == <<accepted, restored, condemned>>
handlerVars == <<at, local>>
storeVars == <<tableVars, requestVars, handlerVars, errors, historyVars>>

\* "stored": the object is put, the row not inserted; "rejected": the insert
\* failed; "gone": the row was deleted by a purge.
DocStates == {"absent", "stored", "rejected", "live", "trashed", "gone"}

\* A document_assets row: its id, and the asset id its s3_key was made from.
AssetRow == [id : AssetIds, key : AssetIds]
NoAssets == [ty \in AssetTypes |-> None]
AssetMap == [AssetTypes -> AssetRow \union {None}]

\* document_version_object_key (asset = None) and document_asset_key.
Key(d, a) == [doc |-> d, asset |-> a]
Original(d) == Key(d, None)
Keys == [doc : Documents, asset : AssetIds \union {None}]

\* DocumentVersionTaskContext and PurgeContext: what a handler remembers.
NoContext == [tasks |-> <<>>, mime |-> None, dated |-> FALSE, cache |-> None,
              bytes |-> FALSE, old |-> None, new |-> None, keys |-> {}]

HandlerSteps == {"start", "plan", "task", "make", "dropObject", "dropRow",
                 "put", "persist", "purge"}

DocumentStoreTypeOK ==
  /\ docs \in [Documents -> DocStates]
  /\ mime \in [Documents -> Mimes]
  /\ issued \in [Documents -> {"unset", "user", "guess"}]
  /\ assets \in [Documents -> AssetMap]
  /\ objects \subseteq Keys
  /\ indexed \subseteq Documents
  /\ announcing \subseteq Documents
  /\ undeleting \subseteq Documents
  /\ forced \subseteq Jobs
  /\ at \in [Workers -> HandlerSteps]
  /\ \A w \in Workers :
       /\ local[w].tasks \in Seq(TaskNames)
       /\ local[w].mime \in Mimes \union {None}
       /\ local[w].dated \in BOOLEAN
       /\ local[w].cache = None \/ local[w].cache \in AssetMap
       /\ local[w].bytes \in BOOLEAN
       /\ local[w].old \in AssetRow \union {None}
       /\ local[w].new \in AssetIds \union {None}
       /\ local[w].keys \subseteq Keys
  /\ errors \in 0..MaxErrors
  /\ undeletes \in 0..MaxUndeletes
  /\ edits \in 0..MaxEdits
  /\ accepted \subseteq Documents
  /\ restored \subseteq Documents
  /\ condemned \subseteq Documents

RowExists(d) == docs[d] \in {"live", "trashed"}

-----------------------------------------------------------------------------
(* Requests                                                                *)

\* upload_document, no document with the same contents: put_object.
StoreUpload(d, m) ==
  /\ docs[d] = "absent"
  /\ docs' = [docs EXCEPT ![d] = "stored"]
  /\ mime' = [mime EXCEPT ![d] = m]
  /\ objects' = objects \union {Original(d)}
  /\ UNCHANGED <<issued, assets, indexed, queueVars, requestVars,
                 handlerVars, errors, historyVars>>

\* upload_document: the transaction that inserts document and version.
InsertUpload(d) ==
  /\ docs[d] = "stored"
  /\ docs' = [docs EXCEPT ![d] = "live"]
  /\ announcing' = announcing \union {d}
  /\ UNCHANGED <<mime, issued, assets, objects, indexed, queueVars, undeleting,
                 forced, undeletes, edits, handlerVars, errors, historyVars>>

\* upload_document: the file name is taken (or the request dies); the object
\* that was put stays.
RejectUpload(d) ==
  /\ docs[d] = "stored"
  /\ docs' = [docs EXCEPT ![d] = "rejected"]
  /\ UNCHANGED <<mime, issued, assets, objects, indexed, queueVars,
                 requestVars, handlerVars, errors, historyVars>>

\* upload_document: the analyze job of the new document.
AnnounceUpload(d, t, j) ==
  /\ d \in announcing
  /\ EnqueueJob(j, Analyze, t, d)
  /\ announcing' = announcing \ {d}
  /\ UNCHANGED <<tableVars, undeleting, forced, undeletes, edits, handlerVars,
                 errors, historyVars>>

\* upload_document: tags or correspondents are refused before the job is
\* enqueued, or enqueueing fails and is only logged.
AnnounceFails(d) ==
  /\ d \in announcing
  /\ announcing' = announcing \ {d}
  /\ UNCHANGED <<tableVars, queueVars, undeleting, forced, undeletes, edits,
                 handlerVars, errors, historyVars>>

\* request_document_assets and reanalyze_documents.
RequestAnalysis(d, t, j, force) ==
  /\ docs[d] = "live"
  /\ EnqueueJob(j, Analyze, t, d)
  /\ forced' = IF force THEN forced \union {j} ELSE forced
  /\ UNCHANGED <<tableVars, announcing, undeleting, undeletes, edits,
                 handlerVars, errors, historyVars>>

\* trash_document: the row is locked, one transaction.
TrashDocument(d) ==
  /\ docs[d] = "live"
  /\ docs' = [docs EXCEPT ![d] = "trashed"]
  /\ restored' = restored \ {d}
  /\ UNCHANGED <<mime, issued, assets, objects, indexed, queueVars,
                 requestVars, handlerVars, errors, accepted, condemned>>

\* Mutant of DeleteDocument: enqueue_job, without the check for a pending one.
DeleteEnqueues(d, t, j) ==
  /\ docs[d] = "trashed"
  /\ InsertJob(j, Purge, t, d)
  /\ UNCHANGED <<pc, held, scope, result, clock, faults, behind>>
  /\ accepted' = accepted \union {d}
  /\ UNCHANGED <<tableVars, requestVars, handlerVars, errors, restored,
                 condemned>>

\* delete_document: one transaction; 202 whether or not a job was inserted.
DeleteDocument(d, t, j) ==
  /\ docs[d] = "trashed"
  /\ \/ EnqueueJobIfNotExists(j, t, d)
     \/ /\ \E i \in Jobs : PendingPurge(i, t, d)
        /\ UNCHANGED queueVars
  /\ accepted' = accepted \union {d}
  /\ UNCHANGED <<tableVars, requestVars, handlerVars, errors, restored,
                 condemned>>

\* restore_document, and try_reuse_existing_document for an upload whose
\* contents match a trashed document: the row is read without a lock.
BeginUndelete(d) ==
  /\ docs[d] = "trashed"
  /\ d \notin undeleting
  /\ undeletes < MaxUndeletes
  /\ undeleting' = undeleting \union {d}
  /\ undeletes' = undeletes + 1
  /\ UNCHANGED <<tableVars, queueVars, announcing, forced, edits, handlerVars,
                 errors, historyVars>>

\* ... then deleted_at is cleared by id.  A row that has gone is not an
\* error: the update changes nothing and the request succeeds.
CompleteUndelete(d) ==
  /\ d \in undeleting
  /\ undeleting' = undeleting \ {d}
  /\ docs' = [docs EXCEPT ![d] = IF RowExists(d) THEN "live" ELSE @]
  /\ restored' = restored \union {d}
  /\ accepted' = accepted \ {d}
  /\ UNCHANGED <<mime, issued, assets, objects, indexed, queueVars, announcing,
                 forced, undeletes, edits, handlerVars, errors, condemned>>

\* ... or is refused: a live document has taken the file name.
RefuseUndelete(d) ==
  /\ d \in undeleting
  /\ undeleting' = undeleting \ {d}
  /\ UNCHANGED <<tableVars, queueVars, announcing, forced, undeletes, edits,
                 handlerVars, errors, historyVars>>

\* update_document with an issued_at.
EditIssuedAt(d) ==
  /\ docs[d] = "live"
  /\ edits < MaxEdits
  /\ edits' = edits + 1
  /\ issued' = [issued EXCEPT ![d] = "user"]
  /\ UNCHANGED <<docs, mime, assets, objects, indexed, queueVars, announcing,
                 undeleting, forced, undeletes, handlerVars, errors,
                 historyVars>>

-----------------------------------------------------------------------------
(* Job handlers                                                            *)

Doc(w) == jobs[held[w]].doc
Forced(w) == held[w] \in forced

\* Worker w is about to take step s of its handler for job type ty.
Running(w, ty, s) ==
  /\ pc[w] = "handling"
  /\ jobs[held[w]].type = ty
  /\ at[w] = s

Forget(w) ==
  /\ at' = [at EXCEPT ![w] = "start"]
  /\ local' = [local EXCEPT ![w] = NoContext]

\* The handler returns; a retry is due after 30 or 60 seconds.
Finish(w, r) == Handle(w, r) /\ Forget(w)
FinishRetry(w) == \E d \in RetryDelays : Finish(w, Retry(d))

\* The handler goes on at step s with context c.
Goto(w, s, c) ==
  /\ at' = [at EXCEPT ![w] = s]
  /\ local' = [local EXCEPT ![w] = c]
  /\ UNCHANGED queueVars

\* TaskExecutor::run: the next task, or success after the last one.
NextTask(w, c) ==
  IF Len(c.tasks) > 1
  THEN Goto(w, "task", [c EXCEPT !.tasks = Tail(@)])
  ELSE Finish(w, Success)

HandlerUnchanged == UNCHANGED <<requestVars, errors, accepted, restored>>

\* An id no row, object or context mentions.
Fresh(a) ==
  /\ \A k \in objects : k.asset # a
  /\ \A d \in Documents, ty \in AssetTypes :
       assets[d][ty] # None => a \notin {assets[d][ty].id, assets[d][ty].key}
  /\ \A w \in Workers :
       /\ local[w].new # a
       /\ local[w].old # None => a \notin {local[w].old.id, local[w].old.key}
       /\ local[w].cache # None =>
            \A ty \in AssetTypes : local[w].cache[ty] # None =>
              a \notin {local[w].cache[ty].id, local[w].cache[ty].key}

(* analyze-document *)

\* AnalyzePlanner::plan loads document and version (trashed or not).
LoadDocument(w) ==
  /\ Running(w, Analyze, "start")
  /\ IF RowExists(Doc(w))
     THEN Goto(w, "plan", [NoContext EXCEPT !.mime = mime[Doc(w)],
                                            !.dated = issued[Doc(w)] # "unset"])
     ELSE Finish(w, Failed)
  /\ UNCHANGED <<tableVars, condemned>>
  /\ HandlerUnchanged

HasThumbnail(m) == m \in {"pdf", "image"}
HasText(m) == m = "pdf"

\* AnalyzePlanner::plan loads the assets and lists the tasks.
PlanTasks(w) ==
  LET c == local[w]
      text == assets[Doc(w)][Text] # None
      ocr == HasText(c.mime) /\ (Forced(w) \/ ~text)
      planned == <<"mime">> \o (IF HasThumbnail(c.mime) THEN <<Thumbnail>> ELSE <<>>)
                   \o (IF ocr THEN <<Text>> ELSE <<>>) \o <<"issued">>
                   \o (IF text \/ ocr THEN <<"index">> ELSE <<>>)
  IN /\ Running(w, Analyze, "plan")
     /\ Goto(w, "task", [c EXCEPT !.cache = assets[Doc(w)], !.tasks = planned])
     /\ UNCHANGED <<tableVars, condemned>>
     /\ HandlerUnchanged

AtTask(w, t) == Running(w, Analyze, "task") /\ Head(local[w].tasks) = t

\* EnsureMimeTask.  A document over the size limit fails.
EnsureMime(w) ==
  LET d == Doc(w) IN
  /\ AtTask(w, "mime")
  /\ IF Original(d) \notin objects
     THEN FinishRetry(w) /\ UNCHANGED mime
     ELSE \/ Finish(w, Failed) /\ UNCHANGED mime
          \/ /\ NextTask(w, [local[w] EXCEPT !.mime = Content[d]])
             /\ mime' = [mime EXCEPT ![d] = Content[d]]
  /\ UNCHANGED <<docs, issued, assets, objects, indexed, condemned>>
  /\ HandlerUnchanged

\* The asset rows as the context sees them: loaded once, and again after
\* a task has invalidated them.
Cached(w) == IF local[w].cache = None THEN assets[Doc(w)] ELSE local[w].cache

\* build_thumbnail_context and build_ocr_context.
CheckAsset(w, ty) ==
  LET c == [local[w] EXCEPT !.cache = Cached(w)]
      old == Cached(w)[ty]
      supported == IF ty = Thumbnail THEN HasThumbnail(c.mime) ELSE HasText(c.mime)
  IN /\ AtTask(w, ty)
     /\ IF supported /\ (old = None \/ Forced(w))
        THEN Goto(w, "make", [c EXCEPT !.old = old])
        ELSE NextTask(w, c)
     /\ UNCHANGED <<tableVars, condemned>>
     /\ HandlerUnchanged

\* buffered_object, the generation, and for the thumbnail of a PDF
\* persist_document_page_count.  Contents that cannot be decoded or have no
\* text fail the job.
MakeAsset(w) ==
  LET d == Doc(w)
      c == local[w]
  IN /\ Running(w, Analyze, "make")
     /\ IF ~c.bytes /\ Original(d) \notin objects THEN FinishRetry(w)
        ELSE \/ Finish(w, Failed)
             \/ IF Head(c.tasks) = Thumbnail /\ HasText(c.mime) /\ ~RowExists(d)
                THEN FinishRetry(w)
                ELSE Goto(w, IF c.old = None THEN "put" ELSE "dropObject",
                          [c EXCEPT !.bytes = TRUE])
     /\ UNCHANGED <<tableVars, condemned>>
     /\ HandlerUnchanged

\* delete_asset_object and remove_existing_ocr_asset: the object ...
DropObject(w) ==
  /\ Running(w, Analyze, "dropObject")
  /\ objects' = objects \ {Key(Doc(w), local[w].old.key)}
  /\ Goto(w, "dropRow", local[w])
  /\ UNCHANGED <<docs, mime, issued, assets, indexed, condemned>>
  /\ HandlerUnchanged

WithoutRow(rows, id) ==
  [ty \in AssetTypes |->
     IF rows[ty] # None /\ rows[ty].id = id THEN None ELSE rows[ty]]

\* ... then the row, by id.
DropRow(w) ==
  LET d == Doc(w) IN
  /\ Running(w, Analyze, "dropRow")
  /\ assets' = [assets EXCEPT ![d] = WithoutRow(@, local[w].old.id)]
  /\ Goto(w, "put", local[w])
  /\ UNCHANGED <<docs, mime, issued, objects, indexed, condemned>>
  /\ HandlerUnchanged

\* Mutants of PutAsset: a refused upload fails the job instead of retrying
\* it; the id is not kept for the row.
PutAssetOrFail(w, a) ==
  /\ Running(w, Analyze, "put")
  /\ Fresh(a)
  /\ \/ objects' = objects /\ Finish(w, Failed)
     \/ /\ objects' = objects \union {Key(Doc(w), a)}
        /\ Goto(w, "persist", [local[w] EXCEPT !.new = a])
  /\ UNCHANGED <<docs, mime, issued, assets, indexed, condemned>>
  /\ HandlerUnchanged

PutAssetForgetId(w, a) ==
  /\ Running(w, Analyze, "put")
  /\ Fresh(a)
  /\ objects' = objects \union {Key(Doc(w), a)}
  /\ Goto(w, "persist", local[w])
  /\ UNCHANGED <<docs, mime, issued, assets, indexed, condemned>>
  /\ HandlerUnchanged

\* upload_generated_asset.
PutAsset(w, a) ==
  /\ Running(w, Analyze, "put")
  /\ Fresh(a)
  /\ objects' = objects \union {Key(Doc(w), a)}
  /\ Goto(w, "persist", [local[w] EXCEPT !.new = a])
  /\ UNCHANGED <<docs, mime, issued, assets, indexed, condemned>>
  /\ HandlerUnchanged

\* persist_assets_metadata: ON CONFLICT DO UPDATE sets the key, not the id.
PersistThumbnail(rows, old, a) ==
  [rows EXCEPT ![Thumbnail] =
     [id |-> IF rows[Thumbnail] = None THEN a ELSE rows[Thumbnail].id,
      key |-> a]]

\* persist_ocr_metadata: the old row goes by id, the conflict sets the id too.
PersistText(rows, old, a) ==
  [(IF old = None THEN rows ELSE WithoutRow(rows, old.id))
     EXCEPT ![Text] = [id |-> a, key |-> a]]

\* The row of the new asset.  Without its version the foreign key refuses
\* it, and the object that was put stays.
PersistAsset(w) ==
  LET d == Doc(w)
      c == local[w]
  IN /\ Running(w, Analyze, "persist")
     /\ IF ~RowExists(d) THEN FinishRetry(w) /\ UNCHANGED assets
        ELSE /\ assets' = [assets EXCEPT ![d] =
                  IF Head(c.tasks) = Thumbnail
                  THEN PersistThumbnail(@, c.old, c.new)
                  ELSE PersistText(@, c.old, c.new)]
             /\ NextTask(w, [c EXCEPT !.cache = None, !.old = None, !.new = None])
     /\ UNCHANGED <<docs, mime, issued, objects, indexed, condemned>>
     /\ HandlerUnchanged

\* DetermineIssuedAtTask: a date may be found unless the document had one
\* when the context loaded it; it is written by id.
DetermineIssuedAt(w) ==
  LET d == Doc(w)
      c == [local[w] EXCEPT !.cache = IF @ = None /\ ~local[w].dated
                                      THEN assets[d] ELSE @]
  IN /\ AtTask(w, "issued")
     /\ NextTask(w, c)
     /\ \/ UNCHANGED issued
        \/ /\ ~c.dated
           /\ RowExists(d)
           /\ issued' = [issued EXCEPT ![d] = "guess"]
     /\ UNCHANGED <<docs, mime, assets, objects, indexed, condemned>>
     /\ HandlerUnchanged

\* IndexDocumentTask, Quickwit configured.  Empty text fails the job.
IndexText(w) ==
  LET d == Doc(w)
      row == Cached(w)[Text]
  IN /\ AtTask(w, "index")
     /\ IF row = None THEN Finish(w, Failed) /\ UNCHANGED indexed
        ELSE IF Key(d, row.key) \notin objects
             THEN FinishRetry(w) /\ UNCHANGED indexed
             ELSE \/ Finish(w, Failed) /\ UNCHANGED indexed
                  \/ /\ NextTask(w, local[w])
                     /\ indexed' = indexed \union {d}
     /\ UNCHANGED <<docs, mime, issued, assets, objects, condemned>>
     /\ HandlerUnchanged

(* purge-document *)

\* Mutants of PreparePurge: deleted_at is not looked at; the assets' keys
\* are not collected.
PreparePurgeAnyway(w) ==
  LET d == Doc(w)
      rows == {assets[d][ty] : ty \in AssetTypes} \ {None}
  IN /\ Running(w, Purge, "start")
     /\ IF ~RowExists(d) THEN Finish(w, Success) /\ UNCHANGED condemned
        ELSE /\ Goto(w, "purge",
                     [NoContext EXCEPT !.keys =
                        {Original(d)} \union {Key(d, r.key) : r \in rows}])
             /\ condemned' = IF docs[d] = "trashed" THEN condemned \union {d}
                             ELSE condemned
     /\ UNCHANGED tableVars
     /\ HandlerUnchanged

PreparePurgeVersions(w) ==
  LET d == Doc(w) IN
  /\ Running(w, Purge, "start")
  /\ IF docs[d] # "trashed" THEN Finish(w, Success) /\ UNCHANGED condemned
     ELSE /\ Goto(w, "purge", [NoContext EXCEPT !.keys = {Original(d)}])
          /\ condemned' = condemned \union {d}
  /\ UNCHANGED tableVars
  /\ HandlerUnchanged

\* prepare_purge_context: under the row lock, one transaction.
PreparePurge(w) ==
  LET d == Doc(w)
      rows == {assets[d][ty] : ty \in AssetTypes} \ {None}
  IN /\ Running(w, Purge, "start")
     /\ IF docs[d] # "trashed" THEN Finish(w, Success) /\ UNCHANGED condemned
        ELSE /\ Goto(w, "purge",
                     [NoContext EXCEPT !.keys =
                        {Original(d)} \union {Key(d, r.key) : r \in rows}])
             /\ condemned' = condemned \union {d}
     /\ UNCHANGED tableVars
     /\ HandlerUnchanged

\* Mutant of PurgeObject: a failed deletion is only logged.
PurgeObjectOrNot(w) ==
  /\ Running(w, Purge, "purge")
  /\ \E k \in local[w].keys :
       /\ objects' \in {objects, objects \ {k}}
       /\ Goto(w, "purge", [local[w] EXCEPT !.keys = @ \ {k}])
  /\ UNCHANGED <<docs, mime, issued, assets, indexed, condemned>>
  /\ HandlerUnchanged

\* delete_storage_objects: the keys of a HashSet, in any order.
PurgeObject(w) ==
  /\ Running(w, Purge, "purge")
  /\ \E k \in local[w].keys :
       /\ objects' = objects \ {k}
       /\ Goto(w, "purge", [local[w] EXCEPT !.keys = @ \ {k}])
  /\ UNCHANGED <<docs, mime, issued, assets, indexed, condemned>>
  /\ HandlerUnchanged

\* Mutants of FinalizePurge: deleted_at is not looked at again; the test of
\* deleted_at is inverted.
FinalizeAnyway(w) ==
  LET d == Doc(w) IN
  /\ Running(w, Purge, "purge")
  /\ local[w].keys = {}
  /\ IF ~RowExists(d) THEN UNCHANGED <<docs, assets>>
     ELSE /\ docs' = [docs EXCEPT ![d] = "gone"]
          /\ assets' = [assets EXCEPT ![d] = NoAssets]
  /\ Finish(w, Success)
  /\ UNCHANGED <<mime, issued, objects, indexed, condemned>>
  /\ HandlerUnchanged

FinalizeIfLive(w) ==
  LET d == Doc(w) IN
  /\ Running(w, Purge, "purge")
  /\ local[w].keys = {}
  /\ IF docs[d] # "live" THEN UNCHANGED <<docs, assets>>
     ELSE /\ docs' = [docs EXCEPT ![d] = "gone"]
          /\ assets' = [assets EXCEPT ![d] = NoAssets]
  /\ Finish(w, Success)
  /\ UNCHANGED <<mime, issued, objects, indexed, condemned>>
  /\ HandlerUnchanged

\* finalize_purge: the document is looked at again under the row lock;
\* versions and assets go with it (ON DELETE CASCADE).
FinalizePurge(w) ==
  LET d == Doc(w) IN
  /\ Running(w, Purge, "purge")
  /\ local[w].keys = {}
  /\ IF docs[d] # "trashed" THEN UNCHANGED <<docs, assets>>
     ELSE /\ docs' = [docs EXCEPT ![d] = "gone"]
          /\ assets' = [assets EXCEPT ![d] = NoAssets]
  /\ Finish(w, Success)
  /\ UNCHANGED <<mime, issued, objects, indexed, condemned>>
  /\ HandlerUnchanged

(* Failures *)

\* A database or storage call fails: before and while the document is
\* loaded the job fails, deletions of an old asset are only logged, and any
\* other call is retried.
CallFails(w) ==
  /\ pc[w] = "handling"
  /\ errors < MaxErrors
  /\ errors' = errors + 1
  /\ \/ at[w] = "start" /\ Finish(w, Failed)
     \/ /\ \/ at[w] \in {"plan", "task", "make", "put", "persist", "purge"}
           \/ Running(w, Purge, "start")
        /\ FinishRetry(w)
     \/ at[w] = "dropObject" /\ Goto(w, "dropRow", local[w])
     \/ at[w] = "dropRow" /\ Goto(w, "put", local[w])
  /\ UNCHANGED <<tableVars, requestVars, historyVars>>

-----------------------------------------------------------------------------
StoreInit ==
  /\ QueueInit
  /\ docs = [d \in Documents |-> "absent"]
  /\ mime = [d \in Documents |-> "other"]
  /\ issued = [d \in Documents |-> "unset"]
  /\ assets = [d \in Documents |-> NoAssets]
  /\ objects = {}
  /\ indexed = {}
  /\ announcing = {}
  /\ undeleting = {}
  /\ forced = {}
  /\ at = [w \in Workers |-> "start"]
  /\ local = [w \in Workers |-> NoContext]
  /\ errors = 0
  /\ undeletes = 0
  /\ edits = 0
  /\ accepted = {}
  /\ restored = {}
  /\ condemned = {}

Requests ==
  \E d \in Documents :
    \/ \E m \in Claims : StoreUpload(d, m)
    \/ InsertUpload(d)
    \/ RejectUpload(d)
    \/ \E t \in Tenants, j \in Jobs :
         \/ AnnounceUpload(d, t, j)
         \/ \E force \in BOOLEAN : RequestAnalysis(d, t, j, force)
         \/ DeleteDocument(d, t, j)
    \/ AnnounceFails(d)
    \/ TrashDocument(d)
    \/ BeginUndelete(d)
    \/ CompleteUndelete(d)
    \/ RefuseUndelete(d)
    \/ EditIssuedAt(d)

HandlerStep(w) ==
  \/ LoadDocument(w)
  \/ PlanTasks(w)
  \/ EnsureMime(w)
  \/ \E ty \in AssetTypes : CheckAsset(w, ty)
  \/ MakeAsset(w)
  \/ DropObject(w)
  \/ DropRow(w)
  \/ \E a \in AssetIds : PutAsset(w, a)
  \/ PersistAsset(w)
  \/ DetermineIssuedAt(w)
  \/ IndexText(w)
  \/ PreparePurge(w)
  \/ PurgeObject(w)
  \/ FinalizePurge(w)

\* The steps of tick() around the handler.
PollStep(w) ==
  /\ \/ \E j \in Jobs : LockJob(w, j)
     \/ ReserveJob(w)
     \/ MarkJob(w)
     \/ RetryJob(w)
  /\ UNCHANGED storeVars

LoseHandler(w) ==
  /\ LoseWorker(w)
  /\ Forget(w)
  /\ UNCHANGED <<tableVars, requestVars, errors, historyVars>>

StoreNext ==
  \/ Requests
  \/ \E w \in Workers :
       HandlerStep(w) \/ PollStep(w) \/ CallFails(w) \/ LoseHandler(w)
  \/ Tick /\ UNCHANGED storeVars

allVars == <<queueVars, storeVars>>

StoreSpec == StoreInit /\ [][StoreNext]_allVars

FairStoreSpec ==
  /\ StoreSpec
  /\ WF_clock(Tick /\ UNCHANGED storeVars)
  /\ \A w \in Workers : WF_allVars(HandlerStep(w) \/ PollStep(w))

-----------------------------------------------------------------------------
(* Properties                                                              *)

\* The handlers are one of the behaviours JobQueue allows.
ImplementsQueue == QueueSpec

\* Trashing, restoring and analysing never cost a document its contents:
\* until a purge has seen it in the trash, its original object is there.
ContentKept ==
  \A d \in Documents :
    RowExists(d) /\ d \notin condemned => Original(d) \in objects

\* The row of a document outside the trash is never deleted, although the
\* purge that deletes it began when the document was in the trash.
LiveIsNeverRemoved ==
  [][\A d \in Documents : docs[d] = "live" => docs'[d] # "gone"]_allVars

\* A purge that removed the row has removed the original object, whatever
\* failed and was retried on the way.
PurgedContentIsGone ==
  \A d \in Documents : docs[d] = "gone" => Original(d) \notin objects

Replacing(w, d, row) ==
  /\ Running(w, Analyze, at[w])
  /\ Doc(w) = d
  /\ local[w].old # None
  /\ local[w].old.key = row.key

\* An asset row points at an object that is there, unless a worker is
\* replacing just that asset, the document is being purged, or a worker
\* died or a call failed.
AssetsResolve ==
  \A d \in Documents \ condemned, ty \in AssetTypes :
    LET row == assets[d][ty] IN
    row # None /\ errors = 0 /\ faults = 0 =>
      \/ Key(d, row.key) \in objects
      \/ \E w \in Workers : Replacing(w, d, row)

PendingAnalysis(d) ==
  \E j \in Jobs : /\ jobs[j].type = Analyze
                  /\ jobs[j].doc = d
                  /\ jobs[j].status \in {"queued", "processing"}

\* When analyses of a document overlap, in any order, and all have ended,
\* the document is left with the assets one of them made.
AnalysisLeavesAssets ==
  \A d \in Documents, j \in Jobs :
    LET ty == IF Content[d] = "pdf" THEN Text ELSE Thumbnail IN
    /\ jobs[j].type = Analyze /\ jobs[j].doc = d /\ jobs[j].status = "succeeded"
    /\ Claims = {Content[d]} /\ Content[d] # "other"
    /\ ~PendingAnalysis(d)
    /\ RowExists(d) /\ d \notin condemned
    /\ errors = 0 /\ faults = 0
    => assets[d][ty] # None /\ Key(d, assets[d][ty].key) \in objects

\* What analyses do to the assets, while they overlap and when they have ended.
AssetsAreSound == AssetsResolve /\ AnalysisLeavesAssets

\* docs/jobs.md on purge-document: it removes every version and asset
\* object from tenant storage.  With no analysis left, none remains.
PurgeRemovesEverything ==
  \A d \in Documents :
    docs[d] = "gone" /\ ~PendingAnalysis(d) => \A k \in objects : k.doc # d

\* routes/documents.rs on DELETE: 202 "Document purge scheduled".  While an
\* accepted document is in the trash a purge of it is queued or running.
AcceptedPurgeIsScheduled ==
  \A d \in accepted :
    docs[d] = "trashed" => \E j \in Jobs, t \in Tenants : PendingPurge(j, t, d)

\* routes/documents.rs on restore: 204 "Document restored".  A document
\* reported restored and not trashed since is live and has its contents.
RestoredDocumentExists ==
  \A d \in restored : docs[d] = "live" /\ Original(d) \in objects

\* A purge that is queued or running ends with the row gone, retries after
\* failed calls included, unless the job fails before it reads the document
\* (ensure_active_tenant and storage_for_tenant failures are not retried).
PurgeHappens ==
  \A d \in Documents :
    (docs[d] = "trashed" /\ \E j \in Jobs, t \in Tenants : PendingPurge(j, t, d))
      ~> \/ docs[d] = "gone"
         \/ \E j \in Jobs : /\ jobs[j].type = Purge
                            /\ jobs[j].doc = d
                            /\ jobs[j].status = "failed"
=============================================================================
