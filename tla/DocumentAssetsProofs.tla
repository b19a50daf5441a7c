----------------------- MODULE DocumentAssetsProofs -----------------------
(***************************************************************************)
(* Proofs about the assets of DocumentStore, for any number of documents,  *)
(* jobs and workers: the types of tables, requests and contexts; rows of   *)
(* assets point at objects that are there unless a worker is replacing     *)
(* just that asset; overlapping analyses leave the asset one of them made. *)
(* With one worker, which may die and be restarted, and no failed call, a  *)
(* purge leaves no object of the document.                                 *)
(***************************************************************************)
EXTENDS DocumentStoreProofs, SequenceTheorems

-----------------------------------------------------------------------------
(* The types of the tables, the requests and the contexts.                 *)

\* What a context holds besides the assets, of which ContextOK tells.
FieldsOK(c) ==
  /\ c.tasks \in Seq(TaskNames)
  /\ c.mime \in Mimes \union {None}
  /\ c.dated \in BOOLEAN
  /\ c.bytes \in BOOLEAN
  /\ c.keys \subseteq Keys

TablesOK ==
  /\ mime \in [Documents -> Mimes]
  /\ issued \in [Documents -> {"unset", "user", "guess"}]
  /\ objects \subseteq Keys
  /\ indexed \subseteq Documents

RequestsTyped ==
  /\ announcing \subseteq Documents
  /\ undeleting \subseteq Documents
  /\ forced \subseteq Jobs
  /\ undeletes \in 0..MaxUndeletes
  /\ edits \in 0..MaxEdits

HistoryTyped ==
  /\ errors \in 0..MaxErrors
  /\ accepted \subseteq Documents
  /\ restored \subseteq Documents
  /\ condemned \subseteq Documents

TypesInv ==
  /\ TablesOK
  /\ RequestsTyped
  /\ HistoryTyped
  /\ \A w \in Workers : FieldsOK(local[w])

\* An object's key names a document and one of its assets, or none.
LEMMA KeysTyped ==
  ASSUME NEW d \in Documents
  PROVE  Original(d) \in Keys /\ \A a \in AssetIds : Key(d, a) \in Keys
  BY DEF Original, Key, Keys

\* A fresh context is one, and a context with another field of its type is one.
LEMMA Fields ==
  /\ FieldsOK(NoContext)
  /\ \A c : ContextOK(c) /\ FieldsOK(c) =>
       /\ \A x \in Seq(TaskNames) : FieldsOK([c EXCEPT !.tasks = x])
       /\ \A x \in Mimes \union {None} : FieldsOK([c EXCEPT !.mime = x])
       /\ \A x \in BOOLEAN : FieldsOK([c EXCEPT !.dated = x]) /\ FieldsOK([c EXCEPT !.bytes = x])
       /\ \A x \in SUBSET Keys : FieldsOK([c EXCEPT !.keys = x])
       /\ \A x : /\ FieldsOK([c EXCEPT !.cache = x])
                 /\ FieldsOK([c EXCEPT !.old = x])
                 /\ FieldsOK([c EXCEPT !.new = x])
<1>1. FieldsOK(NoContext)
  <2>1. << >> \in Seq(TaskNames)
    BY EmptySeq
  <2>2. QED
    BY <2>1 DEF FieldsOK, NoContext
<1>2. ASSUME NEW c, ContextOK(c), FieldsOK(c)
      PROVE  /\ \A x \in Seq(TaskNames) : FieldsOK([c EXCEPT !.tasks = x])
             /\ \A x \in Mimes \union {None} : FieldsOK([c EXCEPT !.mime = x])
             /\ \A x \in BOOLEAN : FieldsOK([c EXCEPT !.dated = x]) /\ FieldsOK([c EXCEPT !.bytes = x])
             /\ \A x \in SUBSET Keys : FieldsOK([c EXCEPT !.keys = x])
             /\ \A x : /\ FieldsOK([c EXCEPT !.cache = x])
                       /\ FieldsOK([c EXCEPT !.old = x])
                       /\ FieldsOK([c EXCEPT !.new = x])
  <2>1. PICK f1, f2, f3, f4, f5, f6, f7, f8 :
          c = [tasks |-> f1, mime |-> f2, dated |-> f3, cache |-> f4,
               bytes |-> f5, old |-> f6, new |-> f7, keys |-> f8]
    BY <1>2 DEF ContextOK
  <2>2. QED
    BY <1>2, <2>1 DEF FieldsOK
<1>3. QED
  BY <1>1, <1>2

\* The context of the handler that moves decides.
LEMMA MoveTyped ==
  ASSUME StoreInv, TypesInv, NEW w \in Workers, NEW s, NEW c, Moves(w, s, c), FieldsOK(c),
         TablesOK', RequestsTyped', HistoryTyped'
  PROVE  TypesInv'
<1>1. ASSUME NEW v \in Workers PROVE FieldsOK(local[v])'
  <2>1. local'[v] = c \/ local'[v] = local[v]
    BY DEF Moves, StoreInv, StoreTypes
  <2>2. QED
    BY <2>1 DEF TypesInv, FieldsOK
<1>2. QED
  BY <1>1 DEF TypesInv

\* A handler that returns, or goes on to its next task.
LEMMA ReturnTyped ==
  ASSUME StoreInv, TypesInv, NEW w \in Workers, pc[w] = "handling", pc \in [Workers -> Stages],
         \/ FinishRetry(w) \/ \E r : Finish(w, r)
         \/ \E c : ContextOK(c) /\ FieldsOK(c) /\ NextTask(w, c),
         TablesOK', RequestsTyped', HistoryTyped'
  PROVE  TypesInv'
<1>1. CASE FinishRetry(w) \/ \E r : Finish(w, r)
  BY <1>1, HandlerMoves, MoveTyped, Fields
<1>2. ASSUME NEW c, ContextOK(c), FieldsOK(c), NextTask(w, c) PROVE TypesInv'
  <2>1. CASE Finish(w, Success)
    BY <1>1, <2>1
  <2>2. CASE Len(c.tasks) > 1 /\ Goto(w, "task", [c EXCEPT !.tasks = Tail(@)])
    <3>1. Tail(c.tasks) \in Seq(TaskNames)
      BY <1>2, <2>2, HeadTailProperties, EmptySeq DEF FieldsOK
    <3>2. FieldsOK([c EXCEPT !.tasks = Tail(@)])
      BY <1>2, <3>1, Fields
    <3>3. QED
      BY <2>2, <3>2, HandlerMoves, MoveTyped
  <2>3. QED
    BY <1>2, <2>1, <2>2 DEF NextTask
<1>3. QED
  BY <1>1, <1>2

\* What no step of a handler writes.
LEMMA HandlerTyped ==
  ASSUME TypesInv, NEW w \in Workers, HandlerStep(w)
  PROVE  RequestsTyped' /\ errors' = errors /\ accepted' = accepted /\ restored' = restored
<1>1. HandlerUnchanged
  BY DEF HandlerStep, LoadDocument, PlanTasks, EnsureMime, CheckAsset, MakeAsset, DropObject, DropRow,
         PutAsset, PersistAsset, DetermineIssuedAt, IndexText, PreparePurge, PurgeObject, FinalizePurge
<1>2. QED
  BY <1>1 DEF HandlerUnchanged, requestVars, TypesInv, RequestsTyped

\* The tasks of an analysis are tasks.
LEMMA PlannedTyped ==
  ASSUME NEW f \in BOOLEAN, NEW g \in BOOLEAN, NEW h \in BOOLEAN
  PROVE  <<"mime">> \o (IF f THEN <<Thumbnail>> ELSE <<>>) \o (IF g THEN <<Text>> ELSE <<>>)
           \o <<"issued">> \o (IF h THEN <<"index">> ELSE <<>>) \in Seq(TaskNames)
<1>1. \A x \in TaskNames : <<x>> \in Seq(TaskNames)
  OBVIOUS
<1>2. <<>> \in Seq(TaskNames)
  BY EmptySeq
<1>3. /\ <<"mime">> \in Seq(TaskNames) /\ <<"issued">> \in Seq(TaskNames)
      /\ (IF f THEN <<Thumbnail>> ELSE <<>>) \in Seq(TaskNames)
      /\ (IF g THEN <<Text>> ELSE <<>>) \in Seq(TaskNames)
      /\ (IF h THEN <<"index">> ELSE <<>>) \in Seq(TaskNames)
  BY <1>1, <1>2 DEF TaskNames
<1>4. \A x, y \in Seq(TaskNames) : x \o y \in Seq(TaskNames)
  BY ConcatProperties
<1>5. QED
  BY <1>3, <1>4

\* Steps of analyze-document that read, or write a type or a date.
LEMMA ReadingTyped ==
  ASSUME StoreInv, QueueInv, TypesInv, NEW w \in Workers,
         \/ LoadDocument(w) \/ PlanTasks(w) \/ EnsureMime(w) \/ MakeAsset(w)
         \/ DetermineIssuedAt(w) \/ IndexText(w) \/ \E ty \in AssetTypes : CheckAsset(w, ty)
  PROVE  TypesInv'
<1>1. pc[w] = "handling" /\ UNCHANGED <<objects, condemned>>
  BY DEF LoadDocument, PlanTasks, EnsureMime, MakeAsset, DetermineIssuedAt, IndexText, CheckAsset,
         Running, AtTask, tableVars
<1>2. /\ pc \in [Workers -> Stages] /\ Doc(w) \in Documents
      /\ ContextOK(local[w]) /\ FieldsOK(local[w])
      /\ assets \in [Documents -> AssetMap]
      /\ mime \in [Documents -> Mimes] /\ issued \in [Documents -> {"unset", "user", "guess"}]
  BY <1>1, AtWork, ContextAt DEF TypesInv, TablesOK
<1>3. RequestsTyped' /\ HistoryTyped'
  BY <1>1, HandlerTyped DEF HandlerStep, TypesInv, HistoryTyped
<1>4. TablesOK'
  <2>1. CASE LoadDocument(w) \/ PlanTasks(w) \/ MakeAsset(w) \/ \E ty \in AssetTypes : CheckAsset(w, ty)
    BY <2>1 DEF LoadDocument, PlanTasks, MakeAsset, CheckAsset, tableVars, TypesInv, TablesOK
  <2>2. CASE EnsureMime(w)
    BY <1>2, <2>2, DocumentStoreAssumption DEF EnsureMime, TypesInv, TablesOK
  <2>3. CASE DetermineIssuedAt(w)
    BY <1>2, <2>3 DEF DetermineIssuedAt, TypesInv, TablesOK
  <2>4. CASE IndexText(w)
    BY <1>2, <2>4 DEF IndexText, TypesInv, TablesOK
  <2>5. QED
    BY <2>1, <2>2, <2>3, <2>4
<1>5. ASSUME NEW s, NEW c, Goto(w, s, c), FieldsOK(c)
      PROVE  TypesInv'
  BY <1>1, <1>2, <1>3, <1>4, <1>5, HandlerMoves, MoveTyped
<1>6. ASSUME \/ FinishRetry(w) \/ \E r : Finish(w, r)
             \/ \E c : ContextOK(c) /\ FieldsOK(c) /\ NextTask(w, c)
      PROVE  TypesInv'
  BY <1>1, <1>2, <1>3, <1>4, <1>6, ReturnTyped
<1>7. CASE LoadDocument(w)
  <2>1. PICK m, b : m = mime[Doc(w)] /\ b = (issued[Doc(w)] # "unset")
    OBVIOUS
  <2>2. m \in Mimes /\ b \in BOOLEAN
    BY <1>2, <2>1
  <2>3. FieldsOK([NoContext EXCEPT !.mime = m, !.dated = b])
    BY <2>2, Fields DEF FieldsOK, NoContext
  <2>4. Goto(w, "plan", [NoContext EXCEPT !.mime = m, !.dated = b]) \/ Finish(w, Failed)
    BY <1>7, <2>1 DEF LoadDocument
  <2>5. QED
    BY <2>3, <2>4, <1>5, <1>6
<1>8. CASE PlanTasks(w)
  <2>1. PICK ts \in Seq(TaskNames) : Goto(w, "task", [local[w] EXCEPT !.cache = assets[Doc(w)], !.tasks = ts])
    BY <1>8, PlannedTyped DEF PlanTasks
  <2>2. PICK x : x = [local[w] EXCEPT !.cache = assets[Doc(w)]]
    OBVIOUS
  <2>3. ContextOK(x) /\ FieldsOK(x)
    <3>1. assets[Doc(w)] \in AssetMap \union {None}
      BY <1>2
    <3>2. QED
      BY <1>2, <2>2, <3>1, Contexts, Fields
  <2>4. FieldsOK([x EXCEPT !.tasks = ts])
    BY <2>3, Fields
  <2>5. [local[w] EXCEPT !.cache = assets[Doc(w)], !.tasks = ts] = [x EXCEPT !.tasks = ts]
    BY <2>2
  <2>6. QED
    BY <2>1, <2>4, <2>5, <1>5
<1>9. CASE EnsureMime(w)
  <2>1. Content[Doc(w)] \in Mimes
    BY <1>2, DocumentStoreAssumption
  <2>2. /\ ContextOK([local[w] EXCEPT !.mime = Content[Doc(w)]])
        /\ FieldsOK([local[w] EXCEPT !.mime = Content[Doc(w)]])
    BY <1>2, <2>1, Contexts, Fields
  <2>3. QED
    BY <1>6, <1>9, <2>2 DEF EnsureMime
<1>10. CASE MakeAsset(w)
  <2>1. FieldsOK([local[w] EXCEPT !.bytes = TRUE])
    BY <1>2, Fields
  <2>2. \/ FinishRetry(w) \/ Finish(w, Failed)
        \/ \E s : Goto(w, s, [local[w] EXCEPT !.bytes = TRUE])
    BY <1>10 DEF MakeAsset
  <2>3. QED
    BY <1>5, <1>6, <2>1, <2>2
<1>11. CASE DetermineIssuedAt(w)
  <2>1. PICK x : /\ x = IF local[w].cache = None /\ ~local[w].dated THEN assets[Doc(w)] ELSE local[w].cache
                 /\ NextTask(w, [local[w] EXCEPT !.cache = x])
    BY <1>11 DEF DetermineIssuedAt
  <2>2. x \in AssetMap \union {None}
    BY <1>2, <2>1 DEF ContextOK
  <2>3. ContextOK([local[w] EXCEPT !.cache = x]) /\ FieldsOK([local[w] EXCEPT !.cache = x])
    BY <1>2, <2>2, Contexts, Fields
  <2>4. QED
    BY <1>6, <2>1, <2>3
<1>12. CASE IndexText(w)
  BY <1>2, <1>6, <1>12 DEF IndexText
<1>13. ASSUME NEW ty \in AssetTypes, CheckAsset(w, ty) PROVE TypesInv'
  <2>1. PICK x : x = [local[w] EXCEPT !.cache = Cached(w)]
    OBVIOUS
  <2>2. Cached(w) \in AssetMap
    BY <1>2 DEF Cached, ContextOK
  <2>3. ContextOK(x) /\ FieldsOK(x)
    BY <1>2, <2>1, <2>2, Contexts, Fields
  <2>4. NextTask(w, x) \/ Goto(w, "make", [x EXCEPT !.old = Cached(w)[ty]])
    BY <1>13, <2>1 DEF CheckAsset
  <2>5. FieldsOK([x EXCEPT !.old = Cached(w)[ty]])
    BY <2>3, Fields
  <2>6. QED
    BY <1>5, <1>6, <2>3, <2>4, <2>5
<1>14. QED
  BY <1>7, <1>8, <1>9, <1>10, <1>11, <1>12, <1>13

\* Steps of the handlers that write assets, objects or the row.
LEMMA WritingTyped ==
  ASSUME StoreInv, QueueInv, TypesInv, NEW w \in Workers,
         \/ DropObject(w) \/ DropRow(w) \/ \E a \in AssetIds : PutAsset(w, a)
         \/ PersistAsset(w) \/ PreparePurge(w) \/ PurgeObject(w) \/ FinalizePurge(w)
  PROVE  TypesInv'
<1>1. pc[w] = "handling"
  BY DEF DropObject, DropRow, PutAsset, PersistAsset, PreparePurge, PurgeObject, FinalizePurge, Running
<1>2. /\ pc \in [Workers -> Stages] /\ Doc(w) \in Documents
      /\ ContextOK(local[w]) /\ FieldsOK(local[w]) /\ assets[Doc(w)] \in AssetMap
  BY <1>1, AtWork, ContextAt DEF TypesInv
<1>3. RequestsTyped' /\ errors' = errors /\ accepted' = accepted /\ restored' = restored
  BY HandlerTyped DEF HandlerStep
<1>4. HistoryTyped'
  <2>1. condemned' \subseteq condemned \union {Doc(w)}
    BY DEF DropObject, DropRow, PutAsset, PersistAsset, PreparePurge, PurgeObject, FinalizePurge
  <2>2. QED
    BY <1>2, <1>3, <2>1 DEF TypesInv, HistoryTyped
<1>5. TablesOK'
  <2>1. UNCHANGED <<mime, issued, indexed>>
    BY DEF DropObject, DropRow, PutAsset, PersistAsset, PreparePurge, PurgeObject, FinalizePurge, tableVars
  <2>2. objects' \subseteq Keys
    <3>1. ASSUME NEW a \in AssetIds, PutAsset(w, a) PROVE objects' \subseteq Keys
      BY <1>2, <3>1, KeysTyped DEF PutAsset, TypesInv, TablesOK
    <3>2. CASE DropObject(w) \/ DropRow(w) \/ PersistAsset(w) \/ PreparePurge(w)
               \/ PurgeObject(w) \/ FinalizePurge(w)
      BY <3>2 DEF DropObject, DropRow, PersistAsset, PreparePurge, PurgeObject, FinalizePurge, tableVars,
                  TypesInv, TablesOK
    <3>3. QED
      BY <3>1, <3>2
  <2>3. QED
    BY <2>1, <2>2 DEF TypesInv, TablesOK
<1>6. ASSUME NEW s, NEW c, Goto(w, s, c), FieldsOK(c)
      PROVE  TypesInv'
  BY <1>1, <1>2, <1>3, <1>4, <1>5, <1>6, HandlerMoves, MoveTyped
<1>7. ASSUME \/ FinishRetry(w) \/ \E r : Finish(w, r)
             \/ \E c : ContextOK(c) /\ FieldsOK(c) /\ NextTask(w, c)
      PROVE  TypesInv'
  BY <1>1, <1>2, <1>3, <1>4, <1>5, <1>7, ReturnTyped
<1>8. CASE DropObject(w) \/ DropRow(w)
  BY <1>2, <1>6, <1>8 DEF DropObject, DropRow
<1>9. ASSUME NEW a \in AssetIds, PutAsset(w, a) PROVE TypesInv'
  <2>1. FieldsOK([local[w] EXCEPT !.new = a])
    BY <1>2, Fields
  <2>2. QED
    BY <1>6, <1>9, <2>1 DEF PutAsset
<1>10. CASE PersistAsset(w)
  <2>1. FinishRetry(w) \/ NextTask(w, [local[w] EXCEPT !.cache = None, !.old = None, !.new = None])
    BY <1>10 DEF PersistAsset
  <2>2. PICK x : x = [local[w] EXCEPT !.cache = None]
    OBVIOUS
  <2>3. PICK y : y = [x EXCEPT !.old = None]
    OBVIOUS
  <2>4. PICK z : z = [y EXCEPT !.new = None]
    OBVIOUS
  <2>5. ContextOK(x) /\ FieldsOK(x)
    BY <1>2, <2>2, Contexts, Fields
  <2>6. ContextOK(y) /\ FieldsOK(y)
    BY <2>3, <2>5, Fields DEF ContextOK
  <2>7. ContextOK(z) /\ FieldsOK(z)
    BY <2>4, <2>6, Fields DEF ContextOK
  <2>8. z = [local[w] EXCEPT !.cache = None, !.old = None, !.new = None]
    BY <2>2, <2>3, <2>4
  <2>9. QED
    BY <1>7, <2>1, <2>7, <2>8
<1>11. CASE PreparePurge(w)
  <2>1. PICK ks : ks = {Original(Doc(w))}
                    \union {Key(Doc(w), r.key) : r \in {assets[Doc(w)][ty] : ty \in AssetTypes} \ {None}}
    OBVIOUS
  <2>2. Finish(w, Success) \/ Goto(w, "purge", [NoContext EXCEPT !.keys = ks])
    BY <1>11, <2>1 DEF PreparePurge
  <2>3. \A r \in {assets[Doc(w)][ty] : ty \in AssetTypes} \ {None} : r.key \in AssetIds
    BY <1>2 DEF AssetMap, AssetRow
  <2>4. ks \in SUBSET Keys
    BY <1>2, <2>1, <2>3, KeysTyped
  <2>5. FieldsOK([NoContext EXCEPT !.keys = ks])
    BY <2>4, Fields, Contexts
  <2>6. QED
    BY <1>6, <1>7, <2>2, <2>5
<1>12. CASE PurgeObject(w)
  <2>1. PICK ks \in SUBSET Keys : Goto(w, "purge", [local[w] EXCEPT !.keys = ks])
    BY <1>2, <1>12 DEF PurgeObject, FieldsOK
  <2>2. FieldsOK([local[w] EXCEPT !.keys = ks])
    BY <1>2, Fields
  <2>3. QED
    BY <1>6, <2>1, <2>2
<1>13. CASE FinalizePurge(w)
  BY <1>7, <1>13 DEF FinalizePurge
<1>14. QED
  BY <1>8, <1>9, <1>10, <1>11, <1>12, <1>13

\* A failed call counts, and ends the handler, sends it back or is ignored.
LEMMA FailureTyped ==
  ASSUME StoreInv, QueueInv, TypesInv, NEW w \in Workers, CallFails(w)
  PROVE  TypesInv'
<1>1. /\ pc[w] = "handling" /\ UNCHANGED <<tableVars, requestVars, historyVars>>
      /\ errors < MaxErrors /\ errors' = errors + 1
  BY DEF CallFails
<1>2. pc \in [Workers -> Stages] /\ FieldsOK(local[w])
  BY <1>1, AtWork DEF TypesInv
<1>3. TablesOK' /\ RequestsTyped'
  BY <1>1 DEF TypesInv, TablesOK, RequestsTyped, tableVars, requestVars
<1>4. HistoryTyped'
  BY <1>1, DocumentStoreAssumption DEF TypesInv, HistoryTyped, historyVars
<1>5. CASE Finish(w, Failed) \/ FinishRetry(w)
  BY <1>1, <1>2, <1>3, <1>4, <1>5, ReturnTyped
<1>6. CASE \E s : Goto(w, s, local[w])
  BY <1>1, <1>2, <1>3, <1>4, <1>6, HandlerMoves, MoveTyped
<1>7. QED
  BY <1>5, <1>6 DEF CallFails

\* Requests write the tables and their own bookkeeping.
LEMMA RequestsKeepTypes ==
  ASSUME TypesInv, Requests
  PROVE  TypesInv'
<1>1. PICK d \in Documents :
        \/ \E m \in Claims : StoreUpload(d, m)
        \/ InsertUpload(d) \/ RejectUpload(d)
        \/ \E t \in Tenants, j \in Jobs :
             \/ AnnounceUpload(d, t, j)
             \/ \E force \in BOOLEAN : RequestAnalysis(d, t, j, force)
             \/ DeleteDocument(d, t, j)
        \/ AnnounceFails(d) \/ TrashDocument(d) \/ BeginUndelete(d)
        \/ CompleteUndelete(d) \/ RefuseUndelete(d) \/ EditIssuedAt(d)
  BY DEF Requests
<1>2. UNCHANGED handlerVars /\ errors' = errors /\ condemned' = condemned
  BY <1>1 DEF StoreUpload, InsertUpload, RejectUpload, AnnounceUpload, RequestAnalysis, DeleteDocument,
              AnnounceFails, TrashDocument, BeginUndelete, CompleteUndelete, RefuseUndelete, EditIssuedAt,
              historyVars
<1>3. TablesOK'
  <2>1. ASSUME NEW m \in Claims, StoreUpload(d, m) PROVE TablesOK'
    BY <2>1, DocumentStoreAssumption, KeysTyped DEF StoreUpload, TypesInv, TablesOK
  <2>2. CASE EditIssuedAt(d)
    BY <2>2 DEF EditIssuedAt, TypesInv, TablesOK
  <2>3. CASE UNCHANGED <<mime, issued, objects, indexed>>
    BY <2>3 DEF TypesInv, TablesOK
  <2>4. QED
    BY <1>1, <2>1, <2>2, <2>3 DEF InsertUpload, RejectUpload, AnnounceUpload, RequestAnalysis,
       DeleteDocument, AnnounceFails, TrashDocument, BeginUndelete, CompleteUndelete, RefuseUndelete, tableVars
<1>4. RequestsTyped'
  <2>1. CASE BeginUndelete(d)
    BY <2>1, DocumentStoreAssumption DEF BeginUndelete, TypesInv, RequestsTyped
  <2>2. CASE EditIssuedAt(d)
    BY <2>2, DocumentStoreAssumption DEF EditIssuedAt, TypesInv, RequestsTyped
  <2>3. CASE UNCHANGED <<undeletes, edits>>
    <3>1. /\ announcing' \subseteq announcing \union {d} /\ undeleting' \subseteq undeleting
          /\ forced' \subseteq forced \union Jobs
      BY <1>1, <2>3 DEF StoreUpload, InsertUpload, RejectUpload, AnnounceUpload, RequestAnalysis,
           DeleteDocument, AnnounceFails, TrashDocument, BeginUndelete, CompleteUndelete, RefuseUndelete,
           EditIssuedAt, requestVars, TypesInv, RequestsTyped
    <3>2. QED
      BY <2>3, <3>1 DEF TypesInv, RequestsTyped
  <2>4. QED
    BY <1>1, <2>1, <2>2, <2>3 DEF StoreUpload, InsertUpload, RejectUpload, AnnounceUpload, RequestAnalysis,
       DeleteDocument, AnnounceFails, TrashDocument, CompleteUndelete, RefuseUndelete, requestVars
<1>5. HistoryTyped'
  <2>1. accepted' \subseteq accepted \union {d} /\ restored' \subseteq restored \union {d}
    BY <1>1 DEF StoreUpload, InsertUpload, RejectUpload, AnnounceUpload, RequestAnalysis, DeleteDocument,
              AnnounceFails, TrashDocument, BeginUndelete, CompleteUndelete, RefuseUndelete, EditIssuedAt,
              historyVars
  <2>2. QED
    BY <1>2, <2>1 DEF TypesInv, HistoryTyped
<1>6. QED
  BY <1>2, <1>3, <1>4, <1>5 DEF TypesInv, FieldsOK, handlerVars

\* Every step keeps the types.
LEMMA TypesKept == Inv /\ TypesInv /\ [StoreNext]_allVars => TypesInv'
<1>1. SUFFICES ASSUME Inv, TypesInv, [StoreNext]_allVars PROVE TypesInv'
  OBVIOUS
<1>2. CASE UNCHANGED storeVars
  BY <1>1, <1>2 DEF storeVars, tableVars, requestVars, handlerVars, historyVars,
     TypesInv, TablesOK, RequestsTyped, HistoryTyped, FieldsOK
<1>3. CASE Requests
  BY <1>1, <1>3, RequestsKeepTypes
<1>4. ASSUME NEW w \in Workers, HandlerStep(w) PROVE TypesInv'
  BY <1>1, <1>4, ReadingTyped, WritingTyped DEF HandlerStep, Inv
<1>5. ASSUME NEW w \in Workers, LoseHandler(w) PROVE TypesInv'
  <2>1. TablesOK' /\ RequestsTyped' /\ HistoryTyped'
    BY <1>1, <1>5 DEF LoseHandler, tableVars, requestVars, historyVars, TypesInv, TablesOK, RequestsTyped,
                      HistoryTyped
  <2>2. ASSUME NEW v \in Workers PROVE FieldsOK(local[v])'
    <3>1. local'[v] = NoContext \/ local'[v] = local[v]
      BY <1>1, <1>5 DEF LoseHandler, Forget, Inv, StoreInv, StoreTypes
    <3>2. FieldsOK(NoContext) /\ FieldsOK(local[v])
      BY <1>1, Fields DEF TypesInv
    <3>3. QED
      BY <3>1, <3>2 DEF FieldsOK
  <2>3. QED
    BY <2>1, <2>2 DEF TypesInv
<1>6. QED
  BY <1>1, <1>2, <1>3, <1>4, <1>5, FailureTyped DEF StoreNext, PollStep, allVars, Inv

\* The types hold from the start.
LEMMA TypesInit == StoreInit => TypesInv
BY DocumentStoreAssumption, Fields
   DEF StoreInit, TypesInv, TablesOK, RequestsTyped, HistoryTyped, Mimes, FieldsOK

\* What every reachable state satisfies.
LEMMA TypedInvariant == StoreSpec => []TypesInv
BY TypesInit, TypesKept, StoreInvariant, PTL DEF StoreSpec

\* The tables, the requests and the handlers' contexts have their types, for any
\* number of documents, jobs and workers: rows and contexts name assets by ids
\* that exist, and every object in the storage is a document's.
THEOREM StoreTyped == StoreSpec => []DocumentStoreTypeOK
<1>1. Inv /\ TypesInv => DocumentStoreTypeOK
  <2>1. SUFFICES ASSUME Inv, TypesInv PROVE DocumentStoreTypeOK
    OBVIOUS
  <2>2. ASSUME NEW w \in Workers PROVE ContextOK(local[w]) /\ FieldsOK(local[w])
    BY <2>1, ContextAt DEF Inv, TypesInv
  <2>3. ASSUME NEW w \in Workers
        PROVE  /\ local[w].tasks \in Seq(TaskNames) /\ local[w].mime \in Mimes \union {None}
               /\ local[w].dated \in BOOLEAN /\ (local[w].cache = None \/ local[w].cache \in AssetMap)
               /\ local[w].bytes \in BOOLEAN /\ local[w].old \in AssetRow \union {None}
               /\ local[w].new \in AssetIds \union {None} /\ local[w].keys \subseteq Keys
    BY <2>2 DEF ContextOK, FieldsOK
  <2>4. QED
    BY <2>1, <2>3 DEF Inv, StoreInv, StoreTypes, TypesInv, TablesOK, RequestsTyped, HistoryTyped,
                      DocumentStoreTypeOK
<1>2. QED
  BY <1>1, StoreInvariant, TypedInvariant, PTL

-----------------------------------------------------------------------------
(* The inductive invariant of the assets.                                  *)

\* The steps that make one asset, and those of an analysis that has its tasks.
MakeSteps == {"make", "dropObject", "dropRow", "put", "persist"}
TaskSteps == {"task"} \union MakeSteps

\* What the handler of w remembers at step s, if c is its context.
Remembers(w, s, c) ==
  /\ s \in {"plan"} \union TaskSteps =>
       /\ jobs[held[w]].type = Analyze
       /\ Claims = {Content[Doc(w)]} => c.mime = Content[Doc(w)]
  /\ s = "purge" => jobs[held[w]].type = Purge
  /\ s \in MakeSteps => Head(c.tasks) \in AssetTypes
  /\ s \notin MakeSteps => c.old = None
  /\ s \notin TaskSteps => c.cache = None
  /\ s # "persist" => c.new = None

\* Jobs are about documents that were inserted; only a purge removes those.
DocumentsOK ==
  /\ \A d \in Documents : docs[d] = "gone" => d \in condemned
  /\ \A d \in announcing : docs[d] \in {"live", "trashed", "gone"}
  /\ \A j \in Jobs : jobs[j].status # "absent" => docs[jobs[j].doc] \in {"live", "trashed", "gone"}
  /\ \A d \in Documents : docs[d] # "absent" /\ Claims = {Content[d]} => mime[d] = Content[d]

\* r is the row of an asset of type ty, in the table or as a context remembers it.
Knows(c, ty, r) ==
  \/ c.cache # None /\ c.cache[ty] = r
  \/ c.old = r /\ Head(c.tasks) = ty
Seen(ty, r) ==
  /\ r # None
  /\ \/ \E d \in Documents : assets[d][ty] = r
     \/ \E w \in Workers : Knows(local[w], ty, r)

\* Ids tell rows apart: rows with the same object are the same row, an id is of
\* one type, and nobody has seen the id of an asset that was put and has no row yet.
IdsApart ==
  /\ \A ty, uy \in AssetTypes, r, q \in AssetRow : Seen(ty, r) /\ Seen(uy, q) =>
       /\ r.key = q.key => r.id = q.id
       /\ r.id = q.id => ty = uy
  /\ \A w \in Workers : local[w].new # None =>
       /\ \A ty \in AssetTypes, r \in AssetRow : Seen(ty, r) => local[w].new \notin {r.id, r.key}
       /\ \A v \in Workers \ {w} : local[v].new # local[w].new

\* An object that was put is there until its row is.
NewThere ==
  \A w \in Workers :
    at[w] = "persist" /\ Doc(w) \notin condemned => Key(Doc(w), local[w].new) \in objects

\* The object of a row is there, or the row is the next thing to go.
Dropping(w, d, k) == at[w] = "dropRow" /\ Doc(w) = d /\ local[w].old.key = k
RowsResolve ==
  \A d \in Documents \ condemned, ty \in AssetTypes :
    errors = 0 /\ faults = 0 /\ assets[d][ty] # None =>
      \/ Key(d, assets[d][ty].key) \in objects
      \/ \E w \in Workers : Dropping(w, d, assets[d][ty].key)

\* The asset an analysis of d leaves, if nothing fails and d is kept.
Wanted(d) == IF Content[d] = "pdf" THEN Text ELSE Thumbnail
Undisturbed(d) ==
  /\ d \notin condemned /\ errors = 0 /\ faults = 0
  /\ Claims = {Content[d]} /\ Content[d] # "other"

\* d has it, or is about to: between the removal of an old asset and the row of
\* the new one nothing but a failure stops a handler.
Making(w, d) == at[w] \in {"put", "persist"} /\ Doc(w) = d /\ Head(local[w].tasks) = Wanted(d)
HasAsset(d) == assets[d][Wanted(d)] # None \/ \E w \in Workers : Making(w, d)

\* What tells that d had it: a context that saw its row or has its task behind it,
\* a handler that succeeded, a job that did.
Passed(c, ty) ==
  \/ \A i \in 1..Len(c.tasks) : c.tasks[i] # ty
  \/ c.cache # None /\ c.cache[ty] # None
  \/ c.old # None /\ Head(c.tasks) = ty
Succeeded(j) ==
  \/ jobs[j].status = "succeeded"
  \/ \E w \in Workers : pc[w] = "marking" /\ held[w] = j /\ result[w] = Success
AssetsMade ==
  \A d \in Documents : Undisturbed(d) =>
    /\ \A w \in Workers : at[w] \in TaskSteps /\ Doc(w) = d /\ Passed(local[w], Wanted(d)) => HasAsset(d)
    /\ \A j \in Jobs : jobs[j].type = Analyze /\ jobs[j].doc = d /\ Succeeded(j) => HasAsset(d)

AssetsInv ==
  /\ \A w \in Workers : Remembers(w, at[w], local[w])
  /\ DocumentsOK
  /\ IdsApart
  /\ NewThere
  /\ RowsResolve
  /\ AssetsMade

-----------------------------------------------------------------------------
(* Steps by what they do to the assets.                                    *)

\* What has been seen, and the ids that were put, decide whether ids stay apart.
LEMMA ApartKept ==
  ASSUME IdsApart,
         \A ty \in AssetTypes, r \in AssetRow : Seen(ty, r)' => Seen(ty, r),
         \A w \in Workers : local'[w].new = local[w].new \/ local'[w].new = None
  PROVE  IdsApart'
<1>1. ASSUME NEW ty \in AssetTypes, NEW uy \in AssetTypes, NEW r \in AssetRow, NEW q \in AssetRow,
             Seen(ty, r)', Seen(uy, q)'
      PROVE  (r.key = q.key => r.id = q.id) /\ (r.id = q.id => ty = uy)
  <2>1. Seen(ty, r) /\ Seen(uy, q)
    BY <1>1
  <2>2. QED
    BY <2>1 DEF IdsApart
<1>2. ASSUME NEW w \in Workers, local'[w].new # None
      PROVE  /\ \A ty \in AssetTypes, r \in AssetRow : Seen(ty, r)' => local'[w].new \notin {r.id, r.key}
             /\ \A v \in Workers \ {w} : local'[v].new # local'[w].new
  <2>1. local'[w].new = local[w].new
    BY <1>2
  <2>2. /\ \A ty \in AssetTypes, r \in AssetRow : Seen(ty, r) => local[w].new \notin {r.id, r.key}
        /\ \A v \in Workers \ {w} : local[v].new # local[w].new
    BY <1>2, <2>1 DEF IdsApart
  <2>3. QED
    BY <1>2, <2>1, <2>2
<1>3. QED
  BY <1>1, <1>2 DEF IdsApart

\* The workers' own tick, and their handlers when only one moves.
LEMMA OneMoves ==
  ASSUME StoreInv, NEW w \in Workers, NEW s, NEW c, Moves(w, s, c)
  PROVE  /\ at'[w] = s /\ local'[w] = c /\ jobs' = jobs /\ held' = held
         /\ \A v \in Workers : Doc(v)' = Doc(v)
         /\ \A v \in Workers \ {w} : at'[v] = at[v] /\ local'[v] = local[v] /\ pc'[v] = pc[v]
  BY DEF Moves, StoreInv, StoreTypes, Doc

\* The other handlers remember what they did.
LEMMA MoveRemembers ==
  ASSUME StoreInv, NEW w \in Workers, NEW s, NEW c, Moves(w, s, c), Remembers(w, s, c),
         \A v \in Workers : Remembers(v, at[v], local[v])
  PROVE  \A v \in Workers : Remembers(v, at[v], local[v])'
<1>1. SUFFICES ASSUME NEW v \in Workers PROVE Remembers(v, at[v], local[v])'
  OBVIOUS
<1>2. /\ at'[w] = s /\ local'[w] = c /\ jobs' = jobs /\ held' = held /\ Doc(v)' = Doc(v)
      /\ v # w => at'[v] = at[v] /\ local'[v] = local[v]
  BY OneMoves
<1>3. \E x, y : x = at'[v] /\ y = local'[v] /\ Remembers(v, x, y)
  BY <1>2
<1>4. QED
  BY <1>2, <1>3 DEF Remembers

\* Of a step of one handler: rows known before stay known, and no id is put.
LEMMA MoveApart ==
  ASSUME StoreInv, IdsApart, NEW w \in Workers, NEW s, NEW c, Moves(w, s, c),
         \A ty \in AssetTypes, r \in AssetRow : Knows(c, ty, r) /\ r # None => Seen(ty, r),
         \A d \in Documents, ty \in AssetTypes : assets'[d][ty] \in {assets[d][ty], None},
         c.new = None \/ c.new = local[w].new
  PROVE  IdsApart'
<1>1. ASSUME NEW ty \in AssetTypes, NEW r \in AssetRow, Seen(ty, r)' PROVE Seen(ty, r)
  <2>1. CASE \E d \in Documents : assets'[d][ty] = r
    BY <1>1, <2>1 DEF Seen
  <2>2. CASE \E v \in Workers : Knows(local'[v], ty, r)
    <3>1. PICK v \in Workers : Knows(local'[v], ty, r)
      BY <2>2
    <3>2. CASE v = w
      <4>1. Knows(c, ty, r) /\ r # None
        BY <1>1, <3>1, <3>2, OneMoves DEF Seen
      <4>2. QED
        BY <4>1
    <3>3. CASE v # w
      <4>1. Knows(local[v], ty, r)
        BY <3>1, <3>3, OneMoves
      <4>2. QED
        BY <1>1, <4>1 DEF Seen
    <3>4. QED
      BY <3>2, <3>3
  <2>3. QED
    BY <1>1, <2>1, <2>2 DEF Seen, Knows
<1>2. \A v \in Workers : local'[v].new = local[v].new \/ local'[v].new = None
  BY OneMoves
<1>3. QED
  BY <1>1, <1>2, ApartKept

\* What a step of one handler leaves alone, and that a document undisturbed after
\* it was undisturbed before.
Steady(w) ==
  /\ \A v \in Workers \ {w} : result'[v] = result[v]
  /\ condemned \subseteq condemned'
  /\ faults' = faults
  /\ errors' = 0 => errors = 0

LEMMA UndisturbedBefore ==
  ASSUME NEW w, Steady(w), NEW d, Undisturbed(d)'
  PROVE  Undisturbed(d)
  BY DEF Steady, Undisturbed

\* Evidence that an asset was made is as good after the step as before it, if what
\* the moving handler gains is.
LEMMA MoveMade ==
  ASSUME StoreInv, AssetsMade, NEW w \in Workers, NEW s, NEW c, Moves(w, s, c), Steady(w),
         \A d \in Documents : Undisturbed(d)' /\ HasAsset(d) => HasAsset(d)',
         \A d \in Documents : Undisturbed(d)' /\ Doc(w) = d /\ s \in TaskSteps /\ Passed(c, Wanted(d))
                               => HasAsset(d)',
         \A d \in Documents : /\ Undisturbed(d)' /\ Doc(w) = d /\ jobs[held[w]].type = Analyze
                               /\ pc'[w] = "marking" /\ result'[w] = Success
                               => HasAsset(d)'
  PROVE  AssetsMade'
<1>1. SUFFICES ASSUME NEW d \in Documents, Undisturbed(d)'
               PROVE  /\ \A v \in Workers : at'[v] \in TaskSteps /\ Doc(v)' = d /\ Passed(local'[v], Wanted(d))
                                             => HasAsset(d)'
                      /\ \A j \in Jobs : jobs'[j].type = Analyze /\ jobs'[j].doc = d /\ Succeeded(j)'
                                             => HasAsset(d)'
  BY DEF AssetsMade, Wanted, Passed
<1>2. Undisturbed(d)
  BY <1>1, UndisturbedBefore
<1>3. ASSUME NEW v \in Workers, at'[v] \in TaskSteps, Doc(v)' = d, Passed(local'[v], Wanted(d))
      PROVE  HasAsset(d)'
  <2>1. CASE v = w
    BY <1>1, <1>3, <2>1, OneMoves
  <2>2. CASE v # w
    <3>1. at[v] \in TaskSteps /\ Doc(v) = d /\ Passed(local[v], Wanted(d))
      BY <1>3, <2>2, OneMoves
    <3>2. HasAsset(d)
      BY <1>2, <3>1 DEF AssetsMade
    <3>3. QED
      BY <1>1, <3>2
  <2>3. QED
    BY <2>1, <2>2
<1>4. ASSUME NEW j \in Jobs, jobs'[j].type = Analyze, jobs'[j].doc = d, Succeeded(j)'
      PROVE  HasAsset(d)'
  <2>1. jobs' = jobs /\ held' = held /\ \A v \in Workers \ {w} : pc'[v] = pc[v] /\ result'[v] = result[v]
    BY OneMoves DEF Steady
  <2>2. CASE Succeeded(j)
    <3>1. HasAsset(d)
      BY <1>2, <1>4, <2>1, <2>2 DEF AssetsMade
    <3>2. QED
      BY <1>1, <3>1
  <2>3. CASE ~Succeeded(j)
    <3>1. pc'[w] = "marking" /\ held[w] = j /\ result'[w] = Success
      BY <1>4, <2>1, <2>3 DEF Succeeded
    <3>2. Doc(w) = d /\ jobs[held[w]].type = Analyze
      BY <1>4, <2>1, <3>1 DEF Doc
    <3>3. QED
      BY <1>1, <3>1, <3>2
  <2>4. QED
    BY <2>2, <2>3
<1>5. QED
  BY <1>3, <1>4

\* With assets and objects as they were, and no handler leaving or reaching the
\* steps between them, objects resolve as before.
LEMMA QuietResolve ==
  ASSUME StoreInv, NewThere, RowsResolve, NEW w \in Workers, NEW s, NEW c, Moves(w, s, c), Steady(w),
         UNCHANGED <<assets, objects>>, at[w] # "dropRow" \/ errors' # 0, s # "persist", errors \in Nat
  PROVE  NewThere' /\ RowsResolve'
<1>1. NewThere'
  <2>1. SUFFICES ASSUME NEW v \in Workers, at'[v] = "persist", Doc(v)' \notin condemned'
                 PROVE  Key(Doc(v)', local'[v].new) \in objects
    BY DEF NewThere, Key
  <2>2. v # w
    BY <2>1, OneMoves
  <2>3. at[v] = "persist" /\ Doc(v) \notin condemned /\ Doc(v)' = Doc(v) /\ local'[v] = local[v]
    BY <2>1, <2>2, OneMoves DEF Steady
  <2>4. QED
    BY <2>3 DEF NewThere
<1>2. RowsResolve'
  <2>1. SUFFICES ASSUME NEW d \in Documents \ condemned', NEW ty \in AssetTypes,
                        errors' = 0, faults' = 0, assets[d][ty] # None
                 PROVE  \/ Key(d, assets[d][ty].key) \in objects
                        \/ \E v \in Workers : Dropping(v, d, assets[d][ty].key)'
    BY DEF RowsResolve, Key
  <2>2. \/ Key(d, assets[d][ty].key) \in objects
        \/ \E v \in Workers : Dropping(v, d, assets[d][ty].key)
    BY <2>1 DEF Steady, RowsResolve
  <2>3. ASSUME NEW v \in Workers, Dropping(v, d, assets[d][ty].key)
        PROVE  Dropping(v, d, assets[d][ty].key)'
    <3>1. v # w
      BY <2>1, <2>3 DEF Dropping
    <3>2. at'[v] = at[v] /\ local'[v] = local[v] /\ Doc(v)' = Doc(v)
      BY <3>1, OneMoves
    <3>3. QED
      BY <2>1, <2>3, <3>2 DEF Dropping
  <2>4. QED
    BY <2>2, <2>3
<1>3. QED
  BY <1>1, <1>2

\* A handler that is not between the removal of an asset and its row leaves the
\* other handlers' documents with what they have.
LEMMA QuietHas ==
  ASSUME StoreInv, NEW w \in Workers, NEW s, NEW c, Moves(w, s, c), UNCHANGED assets,
         at[w] \notin {"put", "persist"}
  PROVE  \A d \in Documents : HasAsset(d) => HasAsset(d)'
<1>1. SUFFICES ASSUME NEW d \in Documents, NEW v \in Workers, Making(v, d) PROVE Making(v, d)'
  BY DEF HasAsset, Wanted
<1>2. v # w
  BY <1>1 DEF Making
<1>3. at'[v] = at[v] /\ local'[v] = local[v] /\ Doc(v)' = Doc(v)
  BY <1>2, OneMoves
<1>4. QED
  BY <1>1, <1>3 DEF Making, Wanted

\* The queue knows of no other worker than the one whose handler steps.
LEMMA HandlerSteady ==
  ASSUME QueueInv, NEW w \in Workers, HandlerStep(w)
  PROVE  Steady(w)
<1>1. errors' = errors
  BY DEF HandlerStep, LoadDocument, PlanTasks, EnsureMime, CheckAsset, MakeAsset, DropObject, DropRow,
         PutAsset, PersistAsset, DetermineIssuedAt, IndexText, PreparePurge, PurgeObject, FinalizePurge,
         HandlerUnchanged
<1>2. condemned \subseteq condemned'
  BY DEF HandlerStep, LoadDocument, PlanTasks, EnsureMime, CheckAsset, MakeAsset, DropObject, DropRow,
         PutAsset, PersistAsset, DetermineIssuedAt, IndexText, PreparePurge, PurgeObject, FinalizePurge
<1>3. faults' = faults /\ \A v \in Workers \ {w} : result'[v] = result[v]
  BY HandlerIsQueue DEF Handle, queueVars, QueueInv, IInv, JobQueueTypeOK
<1>4. QED
  BY <1>1, <1>2, <1>3 DEF Steady

\* A step of a handler that leaves assets and objects alone.
LEMMA QuietAssets ==
  ASSUME StoreInv, TypesInv, AssetsInv, NEW w \in Workers, NEW s, NEW c, Moves(w, s, c), Steady(w),
         UNCHANGED <<assets, objects>>, at[w] \notin {"dropRow", "put", "persist"}, s # "persist",
         Remembers(w, s, c), DocumentsOK',
         \A ty \in AssetTypes, r \in AssetRow : Knows(c, ty, r) /\ r # None => Seen(ty, r),
         \A d \in Documents : Undisturbed(d) /\ Doc(w) = d /\ s \in TaskSteps /\ Passed(c, Wanted(d))
                               => HasAsset(d),
         \A d \in Documents : /\ Undisturbed(d) /\ Doc(w) = d /\ jobs[held[w]].type = Analyze
                               /\ pc'[w] = "marking" /\ result'[w] = Success
                               => HasAsset(d)
  PROVE  AssetsInv'
<1>1. \A v \in Workers : Remembers(v, at[v], local[v])'
  BY MoveRemembers DEF AssetsInv
<1>2. IdsApart'
  <2>1. c.new = None
    BY DEF Remembers
  <2>2. \A d \in Documents, ty \in AssetTypes : assets'[d][ty] \in {assets[d][ty], None}
    OBVIOUS
  <2>3. QED
    BY <2>1, <2>2, MoveApart DEF AssetsInv
<1>3. NewThere' /\ RowsResolve'
  <2>1. errors \in Nat
    BY DEF TypesInv, HistoryTyped
  <2>2. QED
    BY <2>1, QuietResolve DEF AssetsInv
<1>4. \A d \in Documents : HasAsset(d) => HasAsset(d)'
  BY QuietHas
<1>5. AssetsMade'
  <2>1. \A d : Undisturbed(d)' => Undisturbed(d)
    BY UndisturbedBefore
  <2>2. \A d \in Documents : Undisturbed(d)' /\ HasAsset(d) => HasAsset(d)'
    BY <1>4
  <2>3. \A d \in Documents : Undisturbed(d)' /\ Doc(w) = d /\ s \in TaskSteps /\ Passed(c, Wanted(d))
                               => HasAsset(d)'
    BY <1>4, <2>1
  <2>4. \A d \in Documents : /\ Undisturbed(d)' /\ Doc(w) = d /\ jobs[held[w]].type = Analyze
                               /\ pc'[w] = "marking" /\ result'[w] = Success
                               => HasAsset(d)'
    BY <1>4, <2>1
  <2>5. QED
    BY <2>2, <2>3, <2>4, MoveMade DEF AssetsInv
<1>6. QED
  BY <1>1, <1>2, <1>3, <1>5 DEF AssetsInv

\* A context that knows no row and has nothing behind it.
LEMMA BlankContext ==
  ASSUME NEW w
  PROVE  /\ Remembers(w, "start", NoContext)
         /\ \A ty, r : Knows(NoContext, ty, r) => r = None
<1>1. Remembers(w, "start", NoContext)
  BY DEF Remembers, NoContext, TaskSteps, MakeSteps
<1>2. \A ty, r : Knows(NoContext, ty, r) => r = None
  BY DEF Knows, NoContext
<1>3. QED
  BY <1>1, <1>2

\* Of what a handler step leaves of jobs, documents and uploads.
LEMMA DocumentsStay ==
  ASSUME DocumentsOK, NEW w \in Workers, NEW s, NEW c, Moves(w, s, c), Steady(w),
         UNCHANGED <<docs, announcing, mime>>
  PROVE  DocumentsOK'
  BY DEF DocumentsOK, Moves, Steady

\* A handler that returns without success, or has purged, says nothing of assets.
LEMMA QuietReturn ==
  ASSUME StoreInv, QueueInv, TypesInv, AssetsInv, NEW w \in Workers, pc[w] = "handling", Steady(w),
         UNCHANGED <<assets, objects>>, at[w] \notin {"dropRow", "put", "persist"}, DocumentsOK',
         \/ FinishRetry(w) \/ Finish(w, Failed)
         \/ Finish(w, Success) /\ jobs[held[w]].type = Purge
  PROVE  AssetsInv'
<1>1. pc \in [Workers -> Stages] /\ result \in [Workers -> Results \union {None}]
  BY DEF QueueInv, IInv, JobQueueTypeOK
<1>2. Moves(w, "start", NoContext)
  BY <1>1, HandlerMoves
<1>3. result'[w] = Success => jobs[held[w]].type # Analyze
  <2>1. CASE FinishRetry(w)
    BY <1>1, <2>1 DEF FinishRetry, Finish, Handle, Retry, Success
  <2>2. CASE Finish(w, Failed)
    BY <1>1, <2>2 DEF Finish, Handle, Failed, Success
  <2>3. CASE jobs[held[w]].type = Purge
    BY <2>3 DEF Purge, Analyze
  <2>4. QED
    BY <2>1, <2>2, <2>3
<1>4. "start" \notin TaskSteps
  BY DEF TaskSteps, MakeSteps
<1>5. Remembers(w, "start", NoContext) /\ \A ty, r : Knows(NoContext, ty, r) => r = None
  BY BlankContext
<1>6. QED
  BY <1>2, <1>3, <1>4, <1>5, QuietAssets

\* A context whose only rows are those of its cache, which have been seen.
CacheSeen(c) ==
  /\ ContextOK(c) /\ FieldsOK(c) /\ c.old = None /\ c.new = None
  /\ c.cache # None => \A ty \in AssetTypes : c.cache[ty] # None => Seen(ty, c.cache[ty])

LEMMA CacheKnows ==
  ASSUME NEW c, CacheSeen(c), NEW n, n.cache = c.cache, n.old = None,
         NEW ty \in AssetTypes, NEW r \in AssetRow, Knows(n, ty, r), r # None
  PROVE  Seen(ty, r)
<1>1. c.cache # None /\ c.cache[ty] = r
  BY DEF Knows
<1>2. QED
  BY <1>1 DEF CacheSeen

\* The tasks after the first, none of which is ty.
Behind(c, ty) == \A i \in 2..Len(c.tasks) : c.tasks[i] # ty

LEMMA TailPassed ==
  ASSUME NEW c, c.tasks \in Seq(TaskNames), Len(c.tasks) > 1, NEW ty
  PROVE  (\A i \in 1..Len(Tail(c.tasks)) : Tail(c.tasks)[i] # ty) => Behind(c, ty)
<1>1. SUFFICES ASSUME \A i \in 1..Len(Tail(c.tasks)) : Tail(c.tasks)[i] # ty,
                      NEW i \in 2..Len(c.tasks)
               PROVE  c.tasks[i] # ty
  BY DEF Behind
<1>2. c.tasks # <<>>
  BY EmptySeq
<1>3. /\ Len(Tail(c.tasks)) = Len(c.tasks) - 1 /\ Len(c.tasks) \in Nat
      /\ \A k \in 1..Len(Tail(c.tasks)) : Tail(c.tasks)[k] = c.tasks[k + 1]
  BY <1>2, HeadTailProperties, LenProperties
<1>4. i - 1 \in 1..Len(Tail(c.tasks)) /\ (i - 1) + 1 = i
  BY <1>1, <1>3
<1>5. QED
  BY <1>1, <1>3, <1>4

\* The next task, or the end: the document has what the task just done leaves.
LEMMA QuietNext ==
  ASSUME StoreInv, QueueInv, TypesInv, AssetsInv, NEW w \in Workers, Running(w, Analyze, at[w]), Steady(w),
         UNCHANGED <<assets, objects>>, at[w] \notin {"dropRow", "put", "persist"}, DocumentsOK',
         NEW c, NextTask(w, c), CacheSeen(c), Claims = {Content[Doc(w)]} => c.mime = Content[Doc(w)],
         \A d \in Documents :
           /\ Undisturbed(d) /\ Doc(w) = d
           /\ Behind(c, Wanted(d)) \/ (c.cache # None /\ c.cache[Wanted(d)] # None)
           => HasAsset(d)
  PROVE  AssetsInv'
<1>1. /\ pc[w] = "handling" /\ jobs[held[w]].type = Analyze /\ pc \in [Workers -> Stages]
      /\ c.tasks \in Seq(TaskNames)
  BY AtWork DEF Running, CacheSeen, FieldsOK
<1>2. CASE Finish(w, Success) /\ Len(c.tasks) <= 1
  <2>1. Moves(w, "start", NoContext)
    BY <1>1, <1>2, HandlerMoves
  <2>2. "start" \notin TaskSteps
    BY DEF TaskSteps, MakeSteps
  <2>3. Remembers(w, "start", NoContext) /\ \A ty, r : Knows(NoContext, ty, r) => r = None
    BY BlankContext
  <2>4. \A ty : Behind(c, ty)
    BY <1>1, <1>2, LenProperties DEF Behind
  <2>5. \A d \in Documents : Undisturbed(d) /\ Doc(w) = d => HasAsset(d)
    BY <2>4
  <2>6. QED
    BY <2>1, <2>2, <2>3, <2>5, QuietAssets
<1>3. CASE Len(c.tasks) > 1 /\ Goto(w, "task", [c EXCEPT !.tasks = Tail(c.tasks)])
  <2>1. PICK n : n = [c EXCEPT !.tasks = Tail(c.tasks)]
    OBVIOUS
  <2>2. Moves(w, "task", n)
    BY <1>1, <1>3, <2>1, HandlerMoves
  <2>3. /\ n.cache = c.cache /\ n.mime = c.mime /\ n.old = None /\ n.new = None /\ n.tasks = Tail(c.tasks)
        /\ \A ty \in AssetTypes, r \in AssetRow : Knows(n, ty, r) /\ r # None => Seen(ty, r)
    <3>1. /\ n.cache = c.cache /\ n.mime = c.mime /\ n.old = None /\ n.new = None
          /\ n.tasks = Tail(c.tasks)
      BY <2>1 DEF CacheSeen, ContextOK
    <3> QED BY <3>1, CacheKnows
  <2>4. Remembers(w, "task", n)
    BY <1>1, <2>3 DEF Remembers, TaskSteps, MakeSteps
  <2>5. pc'[w] = "handling"
    BY <1>1, <1>3 DEF Goto, queueVars
  <2>6. \A d \in Documents : Undisturbed(d) /\ Doc(w) = d /\ Passed(n, Wanted(d)) => HasAsset(d)
    <3>1. SUFFICES ASSUME NEW d \in Documents, Undisturbed(d), Doc(w) = d, Passed(n, Wanted(d))
                   PROVE  HasAsset(d)
      OBVIOUS
    <3>2. CASE n.cache # None /\ n.cache[Wanted(d)] # None
      BY <2>3, <3>1, <3>2
    <3>3. CASE \A i \in 1..Len(n.tasks) : n.tasks[i] # Wanted(d)
      BY <1>1, <1>3, <2>3, <3>1, <3>3, TailPassed
    <3>4. QED
      BY <2>3, <3>1, <3>2, <3>3 DEF Passed
  <2>7. QED
    BY <2>2, <2>3, <2>4, <2>5, <2>6, QuietAssets
<1>4. Len(c.tasks) \in Nat
  BY <1>1, LenProperties
<1>5. QED
  BY <1>2, <1>3, <1>4 DEF NextTask

-----------------------------------------------------------------------------
(* The steps of an analysis that leave assets and objects alone.           *)

\* The context of an analysis between two tasks.
LEMMA TaskContext ==
  ASSUME StoreInv, TypesInv, AssetsInv, NEW w \in Workers, at[w] = "task"
  PROVE  /\ CacheSeen(local[w]) /\ jobs[held[w]].type = Analyze
         /\ Claims = {Content[Doc(w)]} => local[w].mime = Content[Doc(w)]
<1>1. Remembers(w, "task", local[w]) /\ ContextOK(local[w]) /\ FieldsOK(local[w])
  BY ContextAt DEF AssetsInv, TypesInv
<1>2. /\ local[w].old = None /\ local[w].new = None /\ jobs[held[w]].type = Analyze
      /\ Claims = {Content[Doc(w)]} => local[w].mime = Content[Doc(w)]
  BY <1>1 DEF Remembers, TaskSteps, MakeSteps
<1>3. ASSUME NEW ty \in AssetTypes, local[w].cache # None, local[w].cache[ty] # None
      PROVE  Seen(ty, local[w].cache[ty])
  BY <1>3 DEF Seen, Knows
<1>4. QED
  BY <1>1, <1>2, <1>3 DEF CacheSeen

\* The rows a handler reads now, or has read.
LEMMA CachedSeen ==
  ASSUME StoreInv, QueueInv, NEW w \in Workers, pc[w] = "handling"
  PROVE  /\ Cached(w) \in AssetMap
         /\ \A ty \in AssetTypes : Cached(w)[ty] # None => Seen(ty, Cached(w)[ty])
<1>1. Doc(w) \in Documents /\ ContextOK(local[w]) /\ assets \in [Documents -> AssetMap]
  BY AtWork, ContextAt
<1>2. CASE local[w].cache = None
  <2>1. Cached(w) = assets[Doc(w)]
    BY <1>2 DEF Cached
  <2>2. QED
    BY <1>1, <2>1 DEF Seen
<1>3. CASE local[w].cache # None
  <2>1. Cached(w) = local[w].cache /\ Cached(w) \in AssetMap
    BY <1>1, <1>3 DEF Cached, ContextOK
  <2>2. QED
    BY <1>3, <2>1 DEF Seen, Knows
<1>4. QED
  BY <1>2, <1>3

\* A document of which a handler reads a row, or has read one, has its asset.
LEMMA CachedHas ==
  ASSUME AssetsInv, NEW w \in Workers, at[w] \in TaskSteps, NEW d \in Documents, Undisturbed(d), Doc(w) = d,
         \/ Cached(w)[Wanted(d)] # None
         \/ Passed(local[w], Wanted(d))
  PROVE  HasAsset(d)
<1>1. CASE Passed(local[w], Wanted(d))
  BY <1>1 DEF AssetsInv, AssetsMade
<1>2. CASE local[w].cache # None /\ Cached(w)[Wanted(d)] # None
  BY <1>1, <1>2 DEF Cached, Passed
<1>3. CASE local[w].cache = None /\ Cached(w)[Wanted(d)] # None
  BY <1>3 DEF Cached, HasAsset
<1>4. QED
  BY <1>1, <1>2, <1>3

\* A task is behind the handler when it is neither the one at hand nor later.
LEMMA HeadBehind ==
  ASSUME NEW c, c.tasks \in Seq(TaskNames), NEW ty, Head(c.tasks) # ty, Behind(c, ty)
  PROVE  Passed(c, ty)
<1>1. SUFFICES ASSUME NEW i \in 1..Len(c.tasks) PROVE c.tasks[i] # ty
  BY DEF Passed
<1>2. Len(c.tasks) \in Nat
  BY LenProperties
<1>3. CASE i = 1
  <2>1. Head(c.tasks) = c.tasks[1]
    OBVIOUS
  <2>2. QED
    BY <1>3, <2>1
<1>4. CASE i \in 2..Len(c.tasks)
  BY <1>4 DEF Behind
<1>5. QED
  BY <1>1, <1>2, <1>3, <1>4

\* A task of an analysis that makes no asset, or finds the one it would make.
LEMMA TaskDone ==
  ASSUME StoreInv, QueueInv, TypesInv, AssetsInv, NEW w \in Workers, NEW t, AtTask(w, t), Steady(w),
         UNCHANGED <<assets, objects>>, DocumentsOK',
         NEW c, NextTask(w, c), CacheSeen(c), Claims = {Content[Doc(w)]} => c.mime = Content[Doc(w)],
         c.tasks = local[w].tasks, c.cache = local[w].cache \/ c.cache = Cached(w),
         t \in AssetTypes /\ Undisturbed(Doc(w)) /\ t = Wanted(Doc(w)) => Cached(w)[t] # None
  PROVE  AssetsInv'
<1>1. Running(w, Analyze, at[w]) /\ at[w] = "task" /\ Head(local[w].tasks) = t
  BY DEF AtTask, Running
<1>2. ASSUME NEW d \in Documents, Undisturbed(d), Doc(w) = d,
             Behind(c, Wanted(d)) \/ (c.cache # None /\ c.cache[Wanted(d)] # None)
      PROVE  HasAsset(d)
  <2>1. at[w] \in TaskSteps /\ local[w].tasks \in Seq(TaskNames) /\ Wanted(d) \in AssetTypes
    BY <1>1 DEF TaskSteps, TypesInv, FieldsOK, Wanted, AssetTypes
  <2>2. CASE t = Wanted(d)
    BY <1>2, <2>1, <2>2, CachedHas
  <2>3. CASE t # Wanted(d) /\ Behind(c, Wanted(d))
    <3>1. Behind(local[w], Wanted(d))
      BY <2>3 DEF Behind
    <3>2. Passed(local[w], Wanted(d))
      BY <1>1, <2>1, <2>3, <3>1, HeadBehind
    <3>3. QED
      BY <1>2, <2>1, <3>2, CachedHas
  <2>4. CASE c.cache # None /\ c.cache[Wanted(d)] # None
    <3>1. Cached(w)[Wanted(d)] # None \/ Passed(local[w], Wanted(d))
      BY <2>4 DEF Passed
    <3>2. QED
      BY <1>2, <2>1, <3>1, CachedHas
  <2>5. QED
    BY <1>2, <2>2, <2>3, <2>4
<1>3. at[w] \notin {"dropRow", "put", "persist"}
  BY <1>1
<1>4. QED
  BY <1>1, <1>2, <1>3, QuietNext

\* Tasks stay where they are when more follow.
LEMMA ConcatKeeps ==
  ASSUME NEW x \in Seq(TaskNames), NEW y \in Seq(TaskNames), NEW ty, \E i \in 1..Len(x) : x[i] = ty
  PROVE  x \o y \in Seq(TaskNames) /\ \E i \in 1..Len(x \o y) : (x \o y)[i] = ty
<1>1. PICK i \in 1..Len(x) : x[i] = ty
  OBVIOUS
<1>2. Len(x) \in Nat /\ Len(y) \in Nat
  BY LenProperties
<1>3. i \in 1..(Len(x) + Len(y)) /\ i <= Len(x)
  BY <1>2
<1>4. x \o y \in Seq(TaskNames) /\ Len(x \o y) = Len(x) + Len(y) /\ (x \o y)[i] = x[i]
  BY <1>3, ConcatProperties
<1>5. QED
  BY <1>1, <1>3, <1>4

\* A task appended is there.
LEMMA ConcatAdds ==
  ASSUME NEW x \in Seq(TaskNames), NEW ty \in TaskNames
  PROVE  x \o <<ty>> \in Seq(TaskNames) /\ \E i \in 1..Len(x \o <<ty>>) : (x \o <<ty>>)[i] = ty
<1>1. <<ty>> \in Seq(TaskNames) /\ Len(<<ty>>) = 1 /\ <<ty>>[1] = ty
  OBVIOUS
<1>2. Len(x) \in Nat
  BY LenProperties
<1>3. PICK n : n = Len(x) + 1
  OBVIOUS
<1>4. n \in 1..(Len(x) + Len(<<ty>>)) /\ ~(n <= Len(x)) /\ n - Len(x) = 1
  BY <1>1, <1>2, <1>3
<1>5. x \o <<ty>> \in Seq(TaskNames) /\ Len(x \o <<ty>>) = Len(x) + Len(<<ty>>) /\ (x \o <<ty>>)[n] = <<ty>>[1]
  BY <1>1, <1>4, ConcatProperties
<1>6. QED
  BY <1>1, <1>4, <1>5

\* The plan has the tasks it was made for.
LEMMA PlannedHas ==
  ASSUME NEW f \in BOOLEAN, NEW g \in BOOLEAN, NEW h \in BOOLEAN, NEW ts,
         ts = <<"mime">> \o (IF f THEN <<Thumbnail>> ELSE <<>>) \o (IF g THEN <<Text>> ELSE <<>>)
                \o <<"issued">> \o (IF h THEN <<"index">> ELSE <<>>)
  PROVE  /\ f => \E i \in 1..Len(ts) : ts[i] = Thumbnail
         /\ g => \E i \in 1..Len(ts) : ts[i] = Text
<1>1. PICK a, b, c, k : /\ a = <<"mime">> /\ b = (IF f THEN <<Thumbnail>> ELSE <<>>)
                        /\ c = (IF g THEN <<Text>> ELSE <<>>) /\ k = (IF h THEN <<"index">> ELSE <<>>)
  OBVIOUS
<1>2. PICK e : e = <<"issued">>
  OBVIOUS
<1>3. \A x \in TaskNames : <<x>> \in Seq(TaskNames)
  OBVIOUS
<1>4. {"mime", Thumbnail, Text, "issued", "index"} \subseteq TaskNames /\ <<>> \in Seq(TaskNames)
  BY EmptySeq DEF TaskNames
<1>5. a \in Seq(TaskNames) /\ c \in Seq(TaskNames) /\ e \in Seq(TaskNames) /\ k \in Seq(TaskNames)
      /\ b \in Seq(TaskNames)
  BY <1>1, <1>2, <1>3, <1>4
<1>6. a \o b \in Seq(TaskNames)
  BY <1>5, ConcatProperties
<1>7. ts = (((a \o b) \o c) \o e) \o k
  BY <1>1, <1>2
<1>8. ASSUME NEW ty, NEW x \in Seq(TaskNames), \E i \in 1..Len(x) : x[i] = ty
      PROVE  \E i \in 1..Len((x \o e) \o k) : ((x \o e) \o k)[i] = ty
  <2>1. x \o e \in Seq(TaskNames) /\ \E i \in 1..Len(x \o e) : (x \o e)[i] = ty
    BY <1>5, <1>8, ConcatKeeps
  <2>2. QED
    BY <1>5, <2>1, ConcatKeeps
<1>9. ASSUME f PROVE \E i \in 1..Len(ts) : ts[i] = Thumbnail
  <2>1. b = <<Thumbnail>>
    BY <1>1, <1>9
  <2>2. \E i \in 1..Len(a \o b) : (a \o b)[i] = Thumbnail
    BY <1>4, <1>5, <2>1, ConcatAdds
  <2>3. (a \o b) \o c \in Seq(TaskNames) /\ \E i \in 1..Len((a \o b) \o c) : ((a \o b) \o c)[i] = Thumbnail
    BY <1>5, <1>6, <2>2, ConcatKeeps
  <2>4. \E i \in 1..Len((((a \o b) \o c) \o e) \o k) : ((((a \o b) \o c) \o e) \o k)[i] = Thumbnail
    BY <1>8, <2>3
  <2>5. QED
    BY <1>7, <2>4, Zenon
<1>10. ASSUME g PROVE \E i \in 1..Len(ts) : ts[i] = Text
  <2>1. c = <<Text>>
    BY <1>1, <1>10
  <2>2. (a \o b) \o c \in Seq(TaskNames) /\ \E i \in 1..Len((a \o b) \o c) : ((a \o b) \o c)[i] = Text
    BY <1>4, <1>6, <2>1, ConcatAdds
  <2>3. \E i \in 1..Len((((a \o b) \o c) \o e) \o k) : ((((a \o b) \o c) \o e) \o k)[i] = Text
    BY <1>8, <2>2
  <2>4. QED
    BY <1>7, <2>3, Zenon
<1>11. QED
  BY <1>9, <1>10

\* AnalyzePlanner::plan, first step: the context has the type of the document.
LEMMA LoadAssets ==
  ASSUME StoreInv, QueueInv, TypesInv, AssetsInv, NEW w \in Workers, LoadDocument(w)
  PROVE  AssetsInv'
<1>1. /\ pc[w] = "handling" /\ at[w] = "start" /\ jobs[held[w]].type = Analyze /\ Steady(w)
      /\ UNCHANGED <<assets, objects, docs, mime, announcing>>
  BY HandlerSteady DEF LoadDocument, Running, tableVars, HandlerStep, HandlerUnchanged, requestVars
<1>2. pc \in [Workers -> Stages] /\ Doc(w) \in Documents
  BY <1>1, AtWork
<1>3. CASE Finish(w, Failed)
  <2>1. Moves(w, "start", NoContext)
    BY <1>1, <1>2, <1>3, HandlerMoves
  <2>2. DocumentsOK'
    BY <1>1, <2>1, DocumentsStay DEF AssetsInv
  <2>3. QED
    BY <1>1, <1>3, <2>2, QuietReturn
<1>4. ASSUME RowExists(Doc(w)),
             Goto(w, "plan", [NoContext EXCEPT !.mime = mime[Doc(w)], !.dated = issued[Doc(w)] # "unset"])
      PROVE  AssetsInv'
  <2>1. PICK b : b = (issued[Doc(w)] # "unset")
    OBVIOUS
  <2>2. PICK c : c = [NoContext EXCEPT !.mime = mime[Doc(w)], !.dated = b]
    OBVIOUS
  <2>3. Moves(w, "plan", c)
    BY <1>1, <1>2, <1>4, <2>1, <2>2, HandlerMoves
  <2>4. c.mime = mime[Doc(w)] /\ c.cache = None /\ c.old = None /\ c.new = None
    BY <2>2 DEF NoContext
  <2>5. Claims = {Content[Doc(w)]} => mime[Doc(w)] = Content[Doc(w)]
    BY <1>2, <1>4 DEF RowExists, AssetsInv, DocumentsOK
  <2>6. Remembers(w, "plan", c)
    BY <1>1, <2>4, <2>5 DEF Remembers, TaskSteps, MakeSteps
  <2>7. DocumentsOK'
    BY <1>1, <2>3, DocumentsStay DEF AssetsInv
  <2>8. pc'[w] = "handling" /\ "plan" \notin TaskSteps
    BY <1>1, <1>4 DEF Goto, queueVars, TaskSteps, MakeSteps
  <2>9. \A ty \in AssetTypes, r \in AssetRow : Knows(c, ty, r) /\ r # None => Seen(ty, r)
    BY <2>4 DEF Knows
  <2>10. QED
    BY <1>1, <2>3, <2>6, <2>7, <2>8, <2>9, QuietAssets
<1>5. QED
  BY <1>3, <1>4 DEF LoadDocument

\* ... second step: what the plan leaves out is there.
LEMMA PlanAssets ==
  ASSUME StoreInv, QueueInv, TypesInv, AssetsInv, NEW w \in Workers, PlanTasks(w)
  PROVE  AssetsInv'
<1>1. /\ pc[w] = "handling" /\ at[w] = "plan" /\ jobs[held[w]].type = Analyze /\ Steady(w)
      /\ UNCHANGED <<assets, objects, docs, mime, announcing>>
  BY HandlerSteady DEF PlanTasks, Running, tableVars, HandlerStep, HandlerUnchanged, requestVars
<1>2. /\ pc \in [Workers -> Stages] /\ Doc(w) \in Documents /\ ContextOK(local[w])
      /\ assets \in [Documents -> AssetMap] /\ Remembers(w, "plan", local[w])
  BY <1>1, AtWork, ContextAt DEF AssetsInv
<1>3. PICK f, g, h : /\ f = HasThumbnail(local[w].mime)
                     /\ g = (HasText(local[w].mime) /\ (Forced(w) \/ ~(assets[Doc(w)][Text] # None)))
                     /\ h = ((assets[Doc(w)][Text] # None) \/ g)
  OBVIOUS
<1>4. f \in BOOLEAN /\ g \in BOOLEAN /\ h \in BOOLEAN
  BY <1>3 DEF HasThumbnail, HasText
<1>5. PICK ts : ts = <<"mime">> \o (IF f THEN <<Thumbnail>> ELSE <<>>) \o (IF g THEN <<Text>> ELSE <<>>)
                       \o <<"issued">> \o (IF h THEN <<"index">> ELSE <<>>)
  OBVIOUS
<1>6. PICK c : c = [local[w] EXCEPT !.cache = assets[Doc(w)], !.tasks = ts]
  OBVIOUS
<1>7. Goto(w, "task", c)
  BY <1>3, <1>5, <1>6 DEF PlanTasks
<1>8. Moves(w, "task", c) /\ pc'[w] = "handling"
  BY <1>1, <1>2, <1>7, HandlerMoves DEF Goto, queueVars
<1>9. /\ c.mime = local[w].mime /\ c.cache = assets[Doc(w)] /\ c.old = None /\ c.new = None /\ c.tasks = ts
  BY <1>2, <1>6 DEF ContextOK, Remembers, TaskSteps, MakeSteps
<1>10. Remembers(w, "task", c)
  BY <1>1, <1>2, <1>9 DEF Remembers, TaskSteps, MakeSteps
<1>11. \A ty \in AssetTypes, r \in AssetRow : Knows(c, ty, r) /\ r # None => Seen(ty, r)
  BY <1>2, <1>9 DEF Knows, Seen
<1>12. ASSUME NEW d \in Documents, Undisturbed(d), Doc(w) = d, Passed(c, Wanted(d))
       PROVE  HasAsset(d)
  <2>1. CASE assets[d][Wanted(d)] # None
    BY <2>1 DEF HasAsset
  <2>2. CASE assets[d][Wanted(d)] = None /\ \A i \in 1..Len(ts) : ts[i] # Wanted(d)
    <3>1. local[w].mime = Content[d] /\ Content[d] \in {"pdf", "image"}
      BY <1>2, <1>12, DocumentStoreAssumption DEF Remembers, Undisturbed, Mimes
    <3>2. CASE Content[d] = "pdf"
      <4>1. Wanted(d) = Text /\ g
        BY <1>3, <1>12, <2>2, <3>1, <3>2 DEF Wanted, HasText
      <4>2. QED
        BY <1>4, <1>5, <2>2, <4>1, PlannedHas
    <3>3. CASE Content[d] = "image"
      <4>1. Wanted(d) = Thumbnail /\ f
        BY <1>3, <3>1, <3>3 DEF Wanted, HasThumbnail
      <4>2. QED
        BY <1>4, <1>5, <2>2, <4>1, PlannedHas
    <3>4. QED
      BY <3>1, <3>2, <3>3
  <2>3. QED
    BY <1>9, <1>12, <2>1, <2>2 DEF Passed
<1>13. DocumentsOK'
  BY <1>1, <1>8, DocumentsStay DEF AssetsInv
<1>14. QED
  BY <1>1, <1>8, <1>10, <1>11, <1>12, <1>13, QuietAssets

\* EnsureMimeTask writes the type that was sniffed.
LEMMA MimeAssets ==
  ASSUME StoreInv, QueueInv, TypesInv, AssetsInv, NEW w \in Workers, EnsureMime(w)
  PROVE  AssetsInv'
<1> DEFINE d == Doc(w)
<1>1. /\ pc[w] = "handling" /\ at[w] = "task" /\ AtTask(w, "mime") /\ Steady(w)
      /\ UNCHANGED <<assets, objects, docs, announcing>>
  BY HandlerSteady DEF EnsureMime, AtTask, Running, HandlerStep, HandlerUnchanged, requestVars
<1>2. /\ pc \in [Workers -> Stages] /\ d \in Documents /\ CacheSeen(local[w])
      /\ mime \in [Documents -> Mimes]
  BY <1>1, AtWork, TaskContext DEF TypesInv, TablesOK
<1>3. PICK c : c = [local[w] EXCEPT !.mime = Content[d]]
  OBVIOUS
<1>4. /\ c.mime = Content[d] /\ c.cache = local[w].cache /\ c.tasks = local[w].tasks
      /\ c.old = None /\ c.new = None /\ ContextOK(c) /\ FieldsOK(c)
  <2>1. Content[d] \in Mimes \union {None}
    BY <1>2, DocumentStoreAssumption
  <2>2. ContextOK(c) /\ FieldsOK(c)
    BY <1>2, <1>3, <2>1, Contexts, Fields DEF CacheSeen
  <2>3. QED
    BY <1>2, <1>3, <2>2 DEF CacheSeen, ContextOK
<1>5. CacheSeen(c)
  BY <1>2, <1>4 DEF CacheSeen
<1>6. \/ (FinishRetry(w) \/ Finish(w, Failed)) /\ UNCHANGED mime
      \/ NextTask(w, c) /\ mime' = [mime EXCEPT ![d] = Content[d]]
  BY <1>3 DEF EnsureMime
<1>7. DocumentsOK'
  <2>1. jobs' = jobs
    BY HandlerIsQueue DEF HandlerStep, Handle, queueVars
  <2>2. \A e \in Documents : mime'[e] = mime[e] \/ mime'[e] = Content[e]
    BY <1>2, <1>6
  <2>3. QED
    BY <1>1, <2>1, <2>2 DEF AssetsInv, DocumentsOK, Steady
<1>8. CASE FinishRetry(w) \/ Finish(w, Failed)
  BY <1>1, <1>7, <1>8, QuietReturn
<1>9. CASE NextTask(w, c)
  BY <1>1, <1>4, <1>5, <1>7, <1>9, TaskDone DEF AssetTypes, Thumbnail, Text
<1>10. QED
  BY <1>6, <1>8, <1>9

\* The first step of a task that makes an asset: it is there, or will be made.
LEMMA CheckAssets ==
  ASSUME StoreInv, QueueInv, TypesInv, AssetsInv, NEW w \in Workers, NEW ty \in AssetTypes, CheckAsset(w, ty)
  PROVE  AssetsInv'
<1>1. /\ pc[w] = "handling" /\ at[w] = "task" /\ AtTask(w, ty) /\ Head(local[w].tasks) = ty /\ Steady(w)
      /\ UNCHANGED <<assets, objects, docs, announcing, mime>>
  BY HandlerSteady DEF CheckAsset, AtTask, Running, HandlerStep, HandlerUnchanged, requestVars, tableVars
<1>2. /\ pc \in [Workers -> Stages] /\ Doc(w) \in Documents /\ CacheSeen(local[w])
      /\ jobs[held[w]].type = Analyze
      /\ Claims = {Content[Doc(w)]} => local[w].mime = Content[Doc(w)]
  BY <1>1, AtWork, TaskContext
<1>3. /\ Cached(w) \in AssetMap
      /\ \A uy \in AssetTypes : Cached(w)[uy] # None => Seen(uy, Cached(w)[uy])
  BY <1>1, CachedSeen
<1>4. PICK c : c = [local[w] EXCEPT !.cache = Cached(w)]
  OBVIOUS
<1>5. ContextOK(c) /\ FieldsOK(c)
  BY <1>2, <1>3, <1>4, Contexts, Fields DEF CacheSeen
<1>6. /\ c.mime = local[w].mime /\ c.cache = Cached(w) /\ c.tasks = local[w].tasks
      /\ c.old = None /\ c.new = None
  BY <1>2, <1>4 DEF CacheSeen, ContextOK
<1>7. CacheSeen(c)
  BY <1>3, <1>5, <1>6 DEF CacheSeen
<1>8. DocumentsOK'
  <2>1. jobs' = jobs
    BY HandlerIsQueue DEF HandlerStep, Handle, queueVars
  <2>2. QED
    BY <1>1, <2>1 DEF AssetsInv, DocumentsOK, Steady
<1> DEFINE supported == IF ty = Thumbnail THEN HasThumbnail(c.mime) ELSE HasText(c.mime)
<1>10. CASE NextTask(w, c) /\ ~(supported /\ (Cached(w)[ty] = None \/ Forced(w)))
  <2>1. ASSUME Undisturbed(Doc(w)), ty = Wanted(Doc(w)) PROVE Cached(w)[ty] # None
    <3>1. c.mime = Content[Doc(w)] /\ Content[Doc(w)] \in {"pdf", "image"}
      BY <1>2, <1>6, <2>1, DocumentStoreAssumption DEF Undisturbed, Mimes
    <3>2. supported
      BY <2>1, <3>1 DEF Wanted, HasThumbnail, HasText, Thumbnail, Text
    <3>3. QED
      BY <1>10, <3>2
  <2>2. QED
    BY <1>1, <1>2, <1>6, <1>7, <1>8, <1>10, <2>1, TaskDone
<1>11. CASE Goto(w, "make", [c EXCEPT !.old = Cached(w)[ty]])
  <2>1. PICK n : n = [c EXCEPT !.old = Cached(w)[ty]]
    OBVIOUS
  <2>2. Moves(w, "make", n) /\ pc'[w] = "handling"
    BY <1>1, <1>2, <1>11, <2>1, HandlerMoves DEF Goto, queueVars
  <2>3. /\ n.mime = c.mime /\ n.cache = c.cache /\ n.tasks = c.tasks /\ n.old = Cached(w)[ty] /\ n.new = None
    BY <1>5, <1>6, <2>1 DEF ContextOK
  <2>4. Remembers(w, "make", n)
    BY <1>1, <1>2, <1>6, <2>3 DEF Remembers, TaskSteps, MakeSteps
  <2>5. ASSUME NEW uy \in AssetTypes, NEW r \in AssetRow, Knows(n, uy, r), r # None PROVE Seen(uy, r)
    <3>1. Cached(w)[uy] = r
      BY <1>1, <1>6, <2>3, <2>5 DEF Knows
    <3>2. QED
      BY <1>3, <2>5, <3>1
  <2>6. ASSUME NEW d \in Documents, Undisturbed(d), Doc(w) = d, Passed(n, Wanted(d)) PROVE HasAsset(d)
    <3>1. Cached(w)[Wanted(d)] # None \/ Passed(local[w], Wanted(d))
      BY <1>1, <1>6, <2>3, <2>6 DEF Passed
    <3>2. at[w] \in TaskSteps
      BY <1>1 DEF TaskSteps
    <3>3. QED
      BY <2>6, <3>1, <3>2, CachedHas
  <2>7. QED
    BY <1>1, <1>8, <2>2, <2>4, <2>5, <2>6, QuietAssets
<1>12. QED
  BY <1>4, <1>6, <1>10, <1>11 DEF CheckAsset

\* The generation: the old asset goes next, or the new one is put.
LEMMA MakeAssets ==
  ASSUME StoreInv, QueueInv, TypesInv, AssetsInv, NEW w \in Workers, MakeAsset(w)
  PROVE  AssetsInv'
<1>1. /\ pc[w] = "handling" /\ at[w] = "make" /\ jobs[held[w]].type = Analyze /\ Steady(w)
      /\ UNCHANGED <<assets, objects, docs, announcing, mime>>
  BY HandlerSteady DEF MakeAsset, Running, HandlerStep, HandlerUnchanged, requestVars, tableVars
<1>2. /\ pc \in [Workers -> Stages] /\ Doc(w) \in Documents /\ ContextOK(local[w])
      /\ Remembers(w, "make", local[w])
  BY <1>1, AtWork, ContextAt DEF AssetsInv
<1>3. DocumentsOK'
  <2>1. jobs' = jobs
    BY HandlerIsQueue DEF HandlerStep, Handle, queueVars
  <2>2. QED
    BY <1>1, <2>1 DEF AssetsInv, DocumentsOK, Steady
<1>4. CASE FinishRetry(w) \/ Finish(w, Failed)
  BY <1>1, <1>3, <1>4, QuietReturn
<1>5. ASSUME NEW s \in {"put", "dropObject"}, Goto(w, s, [local[w] EXCEPT !.bytes = TRUE])
      PROVE  AssetsInv'
  <2>1. PICK c : c = [local[w] EXCEPT !.bytes = TRUE]
    OBVIOUS
  <2>2. Moves(w, s, c) /\ pc'[w] = "handling"
    BY <1>1, <1>2, <1>5, <2>1, HandlerMoves DEF Goto, queueVars
  <2>3. /\ c.mime = local[w].mime /\ c.cache = local[w].cache /\ c.tasks = local[w].tasks
        /\ c.old = local[w].old /\ c.new = local[w].new
    BY <1>2, <2>1 DEF ContextOK
  <2>4. Remembers(w, s, c) /\ s # "persist"
    BY <1>1, <1>2, <1>5, <2>3 DEF Remembers, TaskSteps, MakeSteps
  <2>5. \A ty \in AssetTypes, r \in AssetRow : Knows(c, ty, r) /\ r # None => Seen(ty, r)
    BY <2>3 DEF Knows, Seen
  <2>6. ASSUME NEW d \in Documents, Undisturbed(d), Doc(w) = d, Passed(c, Wanted(d)) PROVE HasAsset(d)
    <3>1. Passed(local[w], Wanted(d)) /\ at[w] \in TaskSteps
      BY <1>1, <2>3, <2>6 DEF Passed, TaskSteps, MakeSteps
    <3>2. QED
      BY <2>6, <3>1, CachedHas
  <2>7. QED
    BY <1>1, <1>3, <2>2, <2>4, <2>5, <2>6, QuietAssets
<1>6. QED
  BY <1>4, <1>5 DEF MakeAsset

\* DetermineIssuedAtTask and IndexDocumentTask.
LEMMA LaterAssets ==
  ASSUME StoreInv, QueueInv, TypesInv, AssetsInv, NEW w \in Workers, DetermineIssuedAt(w) \/ IndexText(w)
  PROVE  AssetsInv'
<1>1. /\ pc[w] = "handling" /\ at[w] = "task" /\ Steady(w)
      /\ AtTask(w, "issued") \/ AtTask(w, "index")
      /\ UNCHANGED <<assets, objects, docs, announcing, mime>>
  BY HandlerSteady DEF DetermineIssuedAt, IndexText, AtTask, Running, HandlerStep, HandlerUnchanged, requestVars
<1>2. /\ CacheSeen(local[w])
      /\ Claims = {Content[Doc(w)]} => local[w].mime = Content[Doc(w)]
      /\ Cached(w) \in AssetMap
      /\ \A uy \in AssetTypes : Cached(w)[uy] # None => Seen(uy, Cached(w)[uy])
  BY <1>1, TaskContext, CachedSeen
<1>3. DocumentsOK'
  <2>1. jobs' = jobs
    BY HandlerIsQueue DEF HandlerStep, Handle, queueVars
  <2>2. QED
    BY <1>1, <2>1 DEF AssetsInv, DocumentsOK, Steady
<1>4. CASE FinishRetry(w) \/ Finish(w, Failed)
  BY <1>1, <1>3, <1>4, QuietReturn
<1>5. ASSUME NEW x \in {local[w].cache, Cached(w)}, NextTask(w, [local[w] EXCEPT !.cache = x])
      PROVE  AssetsInv'
  <2>1. PICK c : c = [local[w] EXCEPT !.cache = x]
    OBVIOUS
  <2>2. x \in AssetMap \union {None}
    BY <1>2, <1>5 DEF CacheSeen, ContextOK
  <2>3. ContextOK(c) /\ FieldsOK(c)
    BY <1>2, <2>1, <2>2, Contexts, Fields DEF CacheSeen
  <2>4. /\ c.mime = local[w].mime /\ c.cache = x /\ c.tasks = local[w].tasks /\ c.old = None /\ c.new = None
    BY <1>2, <2>1 DEF CacheSeen, ContextOK
  <2>5. CacheSeen(c)
    BY <1>2, <1>5, <2>3, <2>4 DEF CacheSeen
  <2>6. NextTask(w, c)
    BY <1>5, <2>1
  <2>7. "issued" \notin AssetTypes /\ "index" \notin AssetTypes
    BY DEF AssetTypes, Thumbnail, Text
  <2>8. QED
    BY <1>1, <1>2, <1>3, <1>5, <2>4, <2>5, <2>6, <2>7, TaskDone
<1>6. CASE DetermineIssuedAt(w)
  <2>1. PICK x : /\ x = IF local[w].cache = None /\ ~local[w].dated THEN assets[Doc(w)] ELSE local[w].cache
                 /\ NextTask(w, [local[w] EXCEPT !.cache = x])
    BY <1>6 DEF DetermineIssuedAt
  <2>2. x \in {local[w].cache, Cached(w)}
    BY <2>1 DEF Cached
  <2>3. QED
    BY <1>5, <2>1, <2>2
<1>7. CASE NextTask(w, local[w])
  <2>1. local[w] = [local[w] EXCEPT !.cache = local[w].cache]
    BY <1>2 DEF CacheSeen, ContextOK
  <2>2. QED
    BY <1>5, <1>7, <2>1
<1>8. CASE IndexText(w)
  BY <1>4, <1>7, <1>8 DEF IndexText
<1>9. QED
  BY <1>6, <1>8

-----------------------------------------------------------------------------
(* The steps that write assets and objects.                                *)

\* A row is not None.
LEMMA RowsAreRows == \A r \in AssetRow : r # None
  BY DocumentStoreAssumption DEF AssetRow

\* What is left to show of a step of one handler.
LEMMA MoveAssets ==
  ASSUME StoreInv, AssetsInv, NEW w \in Workers, NEW s, NEW c, Moves(w, s, c), Steady(w),
         Remembers(w, s, c), DocumentsOK', IdsApart', NewThere', RowsResolve',
         \A d \in Documents : Undisturbed(d)' /\ HasAsset(d) => HasAsset(d)',
         \A d \in Documents : Undisturbed(d)' /\ Doc(w) = d /\ s \in TaskSteps /\ Passed(c, Wanted(d))
                               => HasAsset(d)',
         \A d \in Documents : /\ Undisturbed(d)' /\ Doc(w) = d /\ jobs[held[w]].type = Analyze
                               /\ pc'[w] = "marking" /\ result'[w] = Success
                               => HasAsset(d)'
  PROVE  AssetsInv'
<1>1. \A v \in Workers : Remembers(v, at[v], local[v])'
  BY MoveRemembers DEF AssetsInv
<1>2. AssetsMade'
  BY MoveMade DEF AssetsInv
<1>3. QED
  BY <1>1, <1>2 DEF AssetsInv

\* A handler among the steps that make an asset has its job, its document, its context.
LEMMA MakingAt ==
  ASSUME StoreInv, QueueInv, TypesInv, AssetsInv, NEW w \in Workers, pc[w] = "handling", at[w] \in MakeSteps
  PROVE  /\ pc \in [Workers -> Stages] /\ Doc(w) \in Documents /\ ContextOK(local[w])
         /\ StepHas(at[w], local[w]) /\ assets \in [Documents -> AssetMap]
         /\ Remembers(w, at[w], local[w]) /\ at[w] \in TaskSteps
         /\ Head(local[w].tasks) \in AssetTypes /\ jobs[held[w]].type = Analyze
         /\ local[w].tasks \in Seq(TaskNames)
         /\ local[w].old # None => Seen(Head(local[w].tasks), local[w].old)
<1>1. /\ pc \in [Workers -> Stages] /\ Doc(w) \in Documents /\ ContextOK(local[w])
      /\ StepHas(at[w], local[w]) /\ assets \in [Documents -> AssetMap]
  BY AtWork, ContextAt
<1>2. Remembers(w, at[w], local[w]) /\ local[w].tasks \in Seq(TaskNames) /\ at[w] \in TaskSteps
  BY DEF AssetsInv, TypesInv, FieldsOK, TaskSteps
<1>3. Head(local[w].tasks) \in AssetTypes /\ jobs[held[w]].type = Analyze
  BY <1>2 DEF Remembers
<1>4. local[w].old # None => Seen(Head(local[w].tasks), local[w].old)
  BY DEF Seen, Knows
<1>5. QED
  BY <1>1, <1>2, <1>3, <1>4

\* The object of the old asset goes; its row is next.
LEMMA DropObjectAssets ==
  ASSUME StoreInv, QueueInv, TypesInv, AssetsInv, NEW w \in Workers, DropObject(w)
  PROVE  AssetsInv'
<1>1. /\ pc[w] = "handling" /\ at[w] = "dropObject" /\ Steady(w) /\ Goto(w, "dropRow", local[w])
      /\ UNCHANGED <<assets, docs, announcing, mime>>
      /\ objects' = objects \ {Key(Doc(w), local[w].old.key)}
  BY HandlerSteady DEF DropObject, Running, HandlerStep, HandlerUnchanged, requestVars
<1>2. at[w] \in MakeSteps
  BY <1>1 DEF MakeSteps
<1>3. /\ pc \in [Workers -> Stages] /\ Doc(w) \in Documents /\ StepHas(at[w], local[w])
      /\ Remembers(w, at[w], local[w]) /\ at[w] \in TaskSteps /\ Head(local[w].tasks) \in AssetTypes
      /\ local[w].old # None => Seen(Head(local[w].tasks), local[w].old)
  BY <1>1, <1>2, MakingAt
<1>4. Moves(w, "dropRow", local[w]) /\ pc'[w] = "handling"
  BY <1>1, <1>3, HandlerMoves DEF Goto, queueVars
<1>5. local[w].old \in AssetRow /\ Seen(Head(local[w].tasks), local[w].old)
  BY <1>1, <1>3, RowsAreRows DEF StepHas
<1>6. Remembers(w, "dropRow", local[w])
  BY <1>1, <1>3 DEF Remembers, TaskSteps, MakeSteps
<1>7. DocumentsOK'
  BY <1>1, <1>4, DocumentsStay DEF AssetsInv
<1>8. IdsApart'
  <2>1. \A ty \in AssetTypes, r \in AssetRow : Knows(local[w], ty, r) /\ r # None => Seen(ty, r)
    BY DEF Seen
  <2>2. QED
    BY <1>1, <1>4, <2>1, MoveApart DEF AssetsInv
<1>9. NewThere'
  <2>1. SUFFICES ASSUME NEW v \in Workers, at'[v] = "persist", Doc(v)' \notin condemned'
                 PROVE  Key(Doc(v)', local'[v].new) \in objects'
    BY DEF NewThere, Key
  <2>2. v # w /\ at[v] = "persist" /\ Doc(v)' = Doc(v) /\ local'[v] = local[v] /\ Doc(v) \notin condemned
    BY <1>1, <1>4, <2>1, OneMoves DEF Steady
  <2>3. Key(Doc(v), local[v].new) \in objects
    BY <2>2 DEF AssetsInv, NewThere
  <2>4. local[v].new \in AssetIds
    BY <2>2, ContextAt DEF StepHas
  <2>5. local[v].new # local[w].old.key
    BY <1>3, <1>5, <2>4, DocumentStoreAssumption DEF AssetsInv, IdsApart
  <2>6. QED
    BY <1>1, <2>2, <2>3, <2>5 DEF Key
<1>10. RowsResolve'
  <2>1. SUFFICES ASSUME NEW d \in Documents \ condemned', NEW ty \in AssetTypes,
                        errors' = 0, faults' = 0, assets[d][ty] # None
                 PROVE  \/ Key(d, assets[d][ty].key) \in objects'
                        \/ \E v \in Workers : Dropping(v, d, assets[d][ty].key)'
    BY <1>1 DEF RowsResolve, Key
  <2>2. \/ Key(d, assets[d][ty].key) \in objects
        \/ \E v \in Workers : Dropping(v, d, assets[d][ty].key)
    BY <1>1, <2>1 DEF Steady, AssetsInv, RowsResolve
  <2>3. ASSUME NEW v \in Workers, Dropping(v, d, assets[d][ty].key)
        PROVE  Dropping(v, d, assets[d][ty].key)'
    <3>1. at'[v] = "dropRow" /\ local'[v] = local[v] /\ Doc(v)' = Doc(v)
      BY <1>4, <2>3, OneMoves DEF Dropping
    <3>2. QED
      BY <1>1, <2>3, <3>1 DEF Dropping
  <2>4. CASE Key(d, assets[d][ty].key) \in objects /\ Key(d, assets[d][ty].key) \notin objects'
    <3>1. d = Doc(w) /\ assets[d][ty].key = local[w].old.key
      BY <1>1, <2>4 DEF Key
    <3>2. at'[w] = "dropRow" /\ local'[w] = local[w] /\ Doc(w)' = Doc(w)
      BY <1>4, OneMoves
    <3>3. Dropping(w, d, assets[d][ty].key)'
      BY <1>1, <3>1, <3>2 DEF Dropping
    <3>4. QED
      BY <3>3
  <2>5. QED
    BY <2>2, <2>3, <2>4
<1>11. \A d \in Documents : HasAsset(d) => HasAsset(d)'
  BY <1>1, <1>4, QuietHas
<1>12. ASSUME NEW d \in Documents, Undisturbed(d)', Doc(w) = d, Passed(local[w], Wanted(d))
       PROVE  HasAsset(d)'
  BY <1>1, <1>3, <1>11, <1>12, UndisturbedBefore, CachedHas
<1>13. QED
  BY <1>1, <1>4, <1>6, <1>7, <1>8, <1>9, <1>10, <1>11, <1>12, MoveAssets

\* Then its row goes, and no other: from here on the asset is being made.
LEMMA DropRowAssets ==
  ASSUME StoreInv, QueueInv, TypesInv, AssetsInv, NEW w \in Workers, DropRow(w)
  PROVE  AssetsInv'
<1>1. /\ pc[w] = "handling" /\ at[w] = "dropRow" /\ Steady(w) /\ Goto(w, "put", local[w])
      /\ UNCHANGED <<objects, docs, announcing, mime>>
      /\ assets' = [assets EXCEPT ![Doc(w)] = WithoutRow(assets[Doc(w)], local[w].old.id)]
  BY HandlerSteady DEF DropRow, Running, HandlerStep, HandlerUnchanged, requestVars
<1>2. at[w] \in MakeSteps
  BY <1>1 DEF MakeSteps
<1>3. /\ pc \in [Workers -> Stages] /\ Doc(w) \in Documents /\ StepHas(at[w], local[w])
      /\ assets \in [Documents -> AssetMap]
      /\ Remembers(w, at[w], local[w]) /\ at[w] \in TaskSteps /\ Head(local[w].tasks) \in AssetTypes
      /\ local[w].old # None => Seen(Head(local[w].tasks), local[w].old)
  BY <1>1, <1>2, MakingAt
<1>4. Moves(w, "put", local[w]) /\ pc'[w] = "handling"
  BY <1>1, <1>3, HandlerMoves DEF Goto, queueVars
<1>5. local[w].old \in AssetRow /\ Seen(Head(local[w].tasks), local[w].old)
  BY <1>1, <1>3, RowsAreRows DEF StepHas
<1>6. Remembers(w, "put", local[w])
  BY <1>1, <1>3 DEF Remembers, TaskSteps, MakeSteps
<1>7. DocumentsOK'
  BY <1>1, <1>4, DocumentsStay DEF AssetsInv
<1>8. \A d \in Documents, ty \in AssetTypes :
        /\ assets'[d][ty] \in {assets[d][ty], None}
        /\ assets'[d][ty] # assets[d][ty] => d = Doc(w) /\ assets[d][ty].id = local[w].old.id
        /\ d = Doc(w) /\ assets[d][ty] # None /\ assets[d][ty].id = local[w].old.id => assets'[d][ty] = None
  BY <1>1, <1>3 DEF WithoutRow, AssetMap
<1>9. IdsApart'
  <2>1. \A ty \in AssetTypes, r \in AssetRow : Knows(local[w], ty, r) /\ r # None => Seen(ty, r)
    BY DEF Seen
  <2>2. QED
    BY <1>4, <1>8, <2>1, MoveApart DEF AssetsInv
<1>10. \A d \in Documents, ty \in AssetTypes :
         assets[d][ty] # None => assets[d][ty] \in AssetRow /\ Seen(ty, assets[d][ty])
  BY <1>3 DEF AssetMap, Seen
<1>11. NewThere'
  <2>1. SUFFICES ASSUME NEW v \in Workers, at'[v] = "persist", Doc(v)' \notin condemned'
                 PROVE  Key(Doc(v)', local'[v].new) \in objects
    BY <1>1 DEF NewThere, Key
  <2>2. v # w /\ at[v] = "persist" /\ Doc(v)' = Doc(v) /\ local'[v] = local[v] /\ Doc(v) \notin condemned
    BY <1>1, <1>4, <2>1, OneMoves DEF Steady
  <2>3. QED
    BY <2>2 DEF AssetsInv, NewThere
<1>12. RowsResolve'
  <2>1. ASSUME NEW d \in Documents \ condemned', NEW ty \in AssetTypes,
               errors' = 0, faults' = 0, assets'[d][ty] # None
        PROVE  \E k : /\ k = assets'[d][ty].key
                      /\ Key(d, k) \in objects \/ \E v \in Workers : Dropping(v, d, k)'
    <3>1. PICK k : k = assets[d][ty].key
      OBVIOUS
    <3>2. assets'[d][ty] = assets[d][ty]
      BY <1>8, <2>1
    <3>3. Key(d, k) \in objects \/ \E v \in Workers : Dropping(v, d, k)
      BY <1>1, <2>1, <3>1, <3>2 DEF Steady, AssetsInv, RowsResolve
    <3>4. ASSUME NEW v \in Workers, Dropping(v, d, k) PROVE Dropping(v, d, k)'
      <4>1. v # w
        <5>1. SUFFICES ASSUME v = w PROVE FALSE
          OBVIOUS
        <5>2. d = Doc(w) /\ local[w].old.key = assets[d][ty].key
          BY <3>1, <3>4, <5>1 DEF Dropping
        <5>3. assets[d][ty].id = local[w].old.id
          BY <1>3, <1>5, <1>10, <2>1, <3>2, <5>2 DEF AssetsInv, IdsApart
        <5>4. assets'[d][ty] = None
          BY <1>8, <2>1, <3>2, <5>2, <5>3
        <5>5. QED
          BY <2>1, <5>4
      <4>2. at'[v] = at[v] /\ local'[v] = local[v] /\ Doc(v)' = Doc(v)
        BY <1>4, <4>1, OneMoves
      <4>3. QED
        BY <3>4, <4>2 DEF Dropping
    <3>5. QED
      BY <3>1, <3>2, <3>3, <3>4
  <2>2. QED
    <3>1. SUFFICES ASSUME NEW d \in Documents \ condemned', NEW ty \in AssetTypes,
                          errors' = 0, faults' = 0, assets'[d][ty] # None
                   PROVE  \/ Key(d, assets'[d][ty].key) \in objects'
                          \/ \E v \in Workers : at'[v] = "dropRow" /\ Doc(v)' = d
                                               /\ local'[v].old.key = assets'[d][ty].key
      BY DEF RowsResolve, Key, Dropping
    <3>2. PICK k : /\ k = assets'[d][ty].key
                   /\ Key(d, k) \in objects \/ \E v \in Workers : Dropping(v, d, k)'
      BY <2>1, <3>1
    <3>3. QED
      BY <1>1, <3>2 DEF Dropping
<1>13. ASSUME NEW d \in Documents, HasAsset(d) PROVE HasAsset(d)'
  <2>1. Wanted(d) \in AssetTypes
    BY DEF Wanted, AssetTypes
  <2>2. CASE assets'[d][Wanted(d)] # None
    BY <2>2 DEF HasAsset, Wanted
  <2>3. CASE assets[d][Wanted(d)] # None /\ assets'[d][Wanted(d)] = None
    <3>1. d = Doc(w) /\ assets[d][Wanted(d)].id = local[w].old.id
      BY <1>8, <2>1, <2>3
    <3>2. Head(local[w].tasks) = Wanted(d)
      BY <1>3, <1>5, <1>10, <2>1, <2>3, <3>1 DEF AssetsInv, IdsApart
    <3>3. Making(w, d)'
      BY <1>4, <3>1, <3>2, OneMoves DEF Making, Wanted
    <3>4. QED
      BY <3>3 DEF HasAsset
  <2>4. ASSUME NEW v \in Workers, Making(v, d) PROVE Making(v, d)'
    BY <1>1, <1>4, <2>4, OneMoves DEF Making, Wanted
  <2>5. QED
    BY <1>13, <2>2, <2>3, <2>4 DEF HasAsset
<1>14. ASSUME NEW d \in Documents, Undisturbed(d)', Doc(w) = d, Passed(local[w], Wanted(d))
       PROVE  HasAsset(d)'
  BY <1>1, <1>3, <1>13, <1>14, UndisturbedBefore, CachedHas
<1>15. QED
  BY <1>1, <1>4, <1>6, <1>7, <1>9, <1>11, <1>12, <1>13, <1>14, MoveAssets

\* A fresh id is none of the rows that have been seen, nor of an asset that was put.
LEMMA FreshUnseen ==
  ASSUME StoreInv, NEW a, Fresh(a)
  PROVE  /\ \A ty \in AssetTypes, r \in AssetRow : Seen(ty, r) => a \notin {r.id, r.key}
         /\ \A v \in Workers : local[v].new # a
<1>1. ASSUME NEW ty \in AssetTypes, NEW r \in AssetRow, Seen(ty, r) PROVE a \notin {r.id, r.key}
  <2>1. CASE \E d \in Documents : assets[d][ty] = r
    BY <1>1, <2>1 DEF Seen, Fresh
  <2>2. CASE \E v \in Workers : Knows(local[v], ty, r)
    BY <1>1, <2>2 DEF Seen, Fresh, Knows
  <2>3. QED
    BY <1>1, <2>1, <2>2 DEF Seen
<1>2. QED
  BY <1>1 DEF Fresh

\* The object of the new asset is put, under an id of its own.
LEMMA PutAssets ==
  ASSUME StoreInv, QueueInv, TypesInv, AssetsInv, NEW w \in Workers, NEW a \in AssetIds, PutAsset(w, a)
  PROVE  AssetsInv'
<1>1. /\ pc[w] = "handling" /\ at[w] = "put" /\ Steady(w) /\ Fresh(a)
      /\ Goto(w, "persist", [local[w] EXCEPT !.new = a])
      /\ UNCHANGED <<assets, docs, announcing, mime>>
      /\ objects' = objects \union {Key(Doc(w), a)}
  BY HandlerSteady DEF PutAsset, Running, HandlerStep, HandlerUnchanged, requestVars
<1>2. at[w] \in MakeSteps
  BY <1>1 DEF MakeSteps
<1>3. /\ pc \in [Workers -> Stages] /\ Doc(w) \in Documents /\ ContextOK(local[w])
      /\ Remembers(w, at[w], local[w]) /\ at[w] \in TaskSteps
  BY <1>1, <1>2, MakingAt
<1>4. PICK n : n = [local[w] EXCEPT !.new = a]
  OBVIOUS
<1>5. /\ n.mime = local[w].mime /\ n.cache = local[w].cache /\ n.tasks = local[w].tasks
      /\ n.old = local[w].old /\ n.new = a
  BY <1>3, <1>4 DEF ContextOK
<1>6. Moves(w, "persist", n) /\ pc'[w] = "handling"
  BY <1>1, <1>3, <1>4, HandlerMoves DEF Goto, queueVars
<1>7. Remembers(w, "persist", n)
  BY <1>1, <1>3, <1>5 DEF Remembers, TaskSteps, MakeSteps
<1>8. DocumentsOK'
  BY <1>1, <1>6, DocumentsStay DEF AssetsInv
<1>9. /\ at'[w] = "persist" /\ local'[w] = n
      /\ \A v \in Workers : Doc(v)' = Doc(v)
      /\ \A v \in Workers \ {w} : at'[v] = at[v] /\ local'[v] = local[v]
  BY <1>6, OneMoves
<1>10. /\ \A ty \in AssetTypes, r \in AssetRow : Seen(ty, r) => a \notin {r.id, r.key}
       /\ \A v \in Workers : local[v].new # a
  BY <1>1, FreshUnseen
<1>11. ASSUME NEW ty \in AssetTypes, NEW r \in AssetRow, Seen(ty, r)' PROVE Seen(ty, r)
  <2>1. CASE \E d \in Documents : assets[d][ty] = r
    BY <1>11, <2>1 DEF Seen
  <2>2. ASSUME NEW v \in Workers, Knows(local'[v], ty, r) PROVE Knows(local[v], ty, r)
    BY <1>5, <1>9, <2>2 DEF Knows
  <2>3. QED
    BY <1>1, <1>11, <2>1, <2>2 DEF Seen, Knows
<1>12. IdsApart'
  <2>1. ASSUME NEW ty \in AssetTypes, NEW uy \in AssetTypes, NEW r \in AssetRow, NEW q \in AssetRow,
               Seen(ty, r)', Seen(uy, q)'
        PROVE  (r.key = q.key => r.id = q.id) /\ (r.id = q.id => ty = uy)
    <3>1. Seen(ty, r) /\ Seen(uy, q)
      BY <1>11, <2>1
    <3>2. QED
      BY <3>1 DEF AssetsInv, IdsApart
  <2>2. ASSUME NEW v \in Workers, local'[v].new # None
        PROVE  /\ \A ty \in AssetTypes, r \in AssetRow : Seen(ty, r)' => local'[v].new \notin {r.id, r.key}
               /\ \A u \in Workers \ {v} : local'[u].new # local'[v].new
    <3>1. CASE v = w
      BY <1>5, <1>9, <1>10, <1>11, <3>1
    <3>2. CASE v # w
      <4>1. local'[v].new = local[v].new /\ \A u \in Workers \ {w} : local'[u].new = local[u].new
        BY <1>9, <3>2
      <4>2. /\ \A ty \in AssetTypes, r \in AssetRow : Seen(ty, r) => local[v].new \notin {r.id, r.key}
            /\ \A u \in Workers \ {v} : local[u].new # local[v].new
        BY <2>2, <4>1 DEF AssetsInv, IdsApart
      <4>3. local'[w].new # local[v].new
        BY <1>5, <1>9, <1>10
      <4>4. QED
        BY <1>11, <4>1, <4>2, <4>3
    <3>3. QED
      BY <3>1, <3>2
  <2>3. QED
    BY <2>1, <2>2 DEF IdsApart
<1>13. NewThere'
  <2>1. SUFFICES ASSUME NEW v \in Workers, at'[v] = "persist", Doc(v)' \notin condemned'
                 PROVE  Key(Doc(v), local'[v].new) \in objects'
    BY <1>9 DEF NewThere, Key
  <2>2. CASE v = w
    BY <1>1, <1>5, <1>9, <2>2
  <2>3. CASE v # w
    BY <1>1, <1>9, <2>1, <2>3 DEF Steady, AssetsInv, NewThere
  <2>4. QED
    BY <2>2, <2>3
<1>14. RowsResolve'
  <2>1. ASSUME NEW d \in Documents \ condemned', NEW ty \in AssetTypes,
               errors' = 0, faults' = 0, assets[d][ty] # None
        PROVE  \E k : /\ k = assets[d][ty].key
                      /\ Key(d, k) \in objects \/ \E v \in Workers : Dropping(v, d, k)'
    <3>1. PICK k : k = assets[d][ty].key
      OBVIOUS
    <3>2. Key(d, k) \in objects \/ \E v \in Workers : Dropping(v, d, k)
      BY <1>1, <2>1, <3>1 DEF Steady, AssetsInv, RowsResolve
    <3>3. ASSUME NEW v \in Workers, Dropping(v, d, k) PROVE Dropping(v, d, k)'
      BY <1>1, <1>9, <3>3 DEF Dropping
    <3>4. QED
      BY <3>1, <3>2, <3>3
  <2>2. SUFFICES ASSUME NEW d \in Documents \ condemned', NEW ty \in AssetTypes,
                        errors' = 0, faults' = 0, assets'[d][ty] # None
                 PROVE  \/ Key(d, assets'[d][ty].key) \in objects'
                        \/ \E v \in Workers : at'[v] = "dropRow" /\ Doc(v)' = d
                                             /\ local'[v].old.key = assets'[d][ty].key
    BY DEF RowsResolve, Key, Dropping
  <2>3. PICK k : /\ k = assets[d][ty].key
                 /\ Key(d, k) \in objects \/ \E v \in Workers : Dropping(v, d, k)'
    BY <1>1, <2>1, <2>2
  <2>4. QED
    BY <1>1, <2>3 DEF Dropping
<1>15. ASSUME NEW d \in Documents, HasAsset(d) PROVE HasAsset(d)'
  <2>1. ASSUME NEW v \in Workers, Making(v, d) PROVE Making(v, d)'
    <3>1. at'[v] \in {"put", "persist"} /\ local'[v].tasks = local[v].tasks /\ Doc(v)' = Doc(v)
      BY <1>5, <1>9, <2>1 DEF Making
    <3>2. QED
      BY <2>1, <3>1 DEF Making, Wanted
  <2>2. QED
    BY <1>1, <1>15, <2>1 DEF HasAsset, Wanted
<1>16. ASSUME NEW d \in Documents, Undisturbed(d)', Doc(w) = d, Passed(n, Wanted(d))
       PROVE  HasAsset(d)'
  <2>1. Passed(local[w], Wanted(d))
    BY <1>5, <1>16 DEF Passed
  <2>2. QED
    BY <1>1, <1>3, <1>15, <1>16, <2>1, UndisturbedBefore, CachedHas
<1>17. QED
  BY <1>1, <1>6, <1>7, <1>8, <1>12, <1>13, <1>14, <1>15, <1>16, MoveAssets

\* persist_assets_metadata and persist_ocr_metadata write the row of their asset: it
\* has the new key, the id is new or stays, and the row of the other asset stays.
LEMMA PersistRow ==
  ASSUME NEW rows \in AssetMap, NEW old \in AssetRow \union {None}, NEW a \in AssetIds, NEW ty \in AssetTypes,
         ty = Text /\ old # None /\ rows[Thumbnail] # None => rows[Thumbnail].id # old.id,
         NEW new, new = IF ty = Thumbnail THEN PersistThumbnail(rows, old, a) ELSE PersistText(rows, old, a)
  PROVE  \E r \in AssetRow :
           /\ r.key = a
           /\ r.id = a \/ (rows[ty] # None /\ r.id = rows[ty].id)
           /\ \A uy \in AssetTypes : new[uy] = IF uy = ty THEN r ELSE rows[uy]
<1>1. /\ Thumbnail # Text /\ ty \in {Thumbnail, Text} /\ rows[ty] \in AssetRow \union {None}
      /\ rows = [uy \in AssetTypes |-> rows[uy]]
  BY DEF AssetTypes, AssetMap, Thumbnail, Text
<1>2. CASE ty = Thumbnail
  <2>1. PICK r : r = [id |-> IF rows[Thumbnail] = None THEN a ELSE rows[Thumbnail].id, key |-> a]
    OBVIOUS
  <2>2. r \in AssetRow /\ r.key = a /\ (r.id = a \/ (rows[ty] # None /\ r.id = rows[ty].id))
    BY <1>1, <1>2, <2>1 DEF AssetRow
  <2>3. new = [rows EXCEPT ![Thumbnail] = r]
    BY <1>2, <2>1 DEF PersistThumbnail
  <2>4. \A uy \in AssetTypes : new[uy] = IF uy = ty THEN r ELSE rows[uy]
    BY <1>1, <1>2, <2>3
  <2>5. QED
    BY <2>2, <2>4
<1>3. CASE ty = Text
  <2>1. PICK r : r = [id |-> a, key |-> a]
    OBVIOUS
  <2>2. r \in AssetRow /\ r.key = a /\ r.id = a
    BY <2>1 DEF AssetRow
  <2>3. PICK kept : kept = IF old = None THEN rows ELSE WithoutRow(rows, old.id)
    OBVIOUS
  <2>4. kept = [uy \in AssetTypes |-> kept[uy]] /\ kept[Thumbnail] = rows[Thumbnail]
    BY <1>1, <1>3, <2>3 DEF WithoutRow, AssetTypes
  <2>5. new = [kept EXCEPT ![Text] = r]
    BY <1>1, <1>3, <2>1, <2>3 DEF PersistText
  <2>6. \A uy \in AssetTypes : new[uy] = IF uy = ty THEN r ELSE rows[uy]
    BY <1>1, <1>3, <2>4, <2>5 DEF AssetTypes
  <2>7. QED
    BY <2>2, <2>6
<1>4. QED
  BY <1>1, <1>2, <1>3

\* A handler that persists writes the row r of type ty for the object it has put, and
\* forgets what it knew.
Persists(w, s, m, ty, r) ==
  /\ pc[w] = "handling" /\ at[w] = "persist" /\ Moves(w, s, m) /\ Steady(w)
  /\ s # "dropRow" /\ s # "persist" /\ m.cache = None /\ m.old = None /\ m.new = None
  /\ ty = Head(local[w].tasks)
  /\ r \in AssetRow /\ r.key = local[w].new
  /\ r.id = local[w].new \/ \E q \in AssetRow : Seen(ty, q) /\ r.id = q.id
  /\ \A d \in Documents, uy \in AssetTypes :
       assets'[d][uy] = IF d = Doc(w) /\ uy = ty THEN r ELSE assets[d][uy]
  /\ UNCHANGED objects

\* The new row is the only one not seen before.
LEMMA PersistsSeen ==
  ASSUME StoreInv, NEW w \in Workers, NEW s, NEW m, NEW ty \in AssetTypes, NEW r,
         Persists(w, s, m, ty, r), NEW uy \in AssetTypes, NEW q, Seen(uy, q)'
  PROVE  Seen(uy, q) \/ (uy = ty /\ q = r)
<1>1. /\ local'[w] = m /\ \A v \in Workers \ {w} : local'[v] = local[v]
      /\ m.cache = None /\ m.old = None
  BY OneMoves DEF Persists
<1>2. CASE \E d \in Documents : assets'[d][uy] = q
  BY <1>2 DEF Seen, Persists
<1>3. ASSUME NEW v \in Workers, Knows(local'[v], uy, q) PROVE Knows(local[v], uy, q)
  <2>1. v # w
    BY <1>1, <1>3 DEF Seen, Knows
  <2>2. QED
    BY <1>1, <1>3, <2>1
<1>4. QED
  BY <1>2, <1>3 DEF Seen, Knows

\* Its ids stay apart from all others.
LEMMA PersistsApart ==
  ASSUME StoreInv, IdsApart, NEW w \in Workers, NEW s, NEW m, NEW ty \in AssetTypes, NEW r,
         Persists(w, s, m, ty, r), local[w].new \in AssetIds
  PROVE  IdsApart'
<1>1. PICK a : a = local[w].new
  OBVIOUS
<1>2. /\ a # None /\ r \in AssetRow /\ r.key = a
      /\ r.id = a \/ \E q \in AssetRow : Seen(ty, q) /\ r.id = q.id
      /\ local'[w].new = None /\ \A v \in Workers \ {w} : local'[v] = local[v]
  BY <1>1, OneMoves, DocumentStoreAssumption DEF Persists
<1>3. /\ \A uy \in AssetTypes, q \in AssetRow : Seen(uy, q) => a \notin {q.id, q.key}
      /\ \A v \in Workers \ {w} : local[v].new # a
  BY <1>1, <1>2 DEF IdsApart
<1>4. \A uy \in AssetTypes, q \in AssetRow : Seen(uy, q)' => Seen(uy, q) \/ (uy = ty /\ q = r)
  BY PersistsSeen
<1>5. ASSUME NEW uy \in AssetTypes, NEW q \in AssetRow, Seen(uy, q)
      PROVE  r.key # q.key /\ (r.id = q.id => ty = uy)
  <2>1. a \notin {q.id, q.key}
    BY <1>3, <1>5
  <2>2. ASSUME NEW p \in AssetRow, Seen(ty, p), p.id = q.id PROVE ty = uy
    BY <1>5, <2>2 DEF IdsApart
  <2>3. QED
    BY <1>2, <2>1, <2>2
<1>6. ASSUME NEW uy \in AssetTypes, NEW xy \in AssetTypes, NEW q \in AssetRow, NEW p \in AssetRow,
             Seen(uy, q)', Seen(xy, p)'
      PROVE  (q.key = p.key => q.id = p.id) /\ (q.id = p.id => uy = xy)
  <2>1. CASE Seen(uy, q) /\ Seen(xy, p)
    BY <2>1 DEF IdsApart
  <2>2. CASE uy = ty /\ q = r /\ Seen(xy, p)
    BY <1>5, <2>2
  <2>3. CASE Seen(uy, q) /\ xy = ty /\ p = r
    BY <1>5, <2>3
  <2>4. QED
    BY <1>4, <1>6, <2>1, <2>2, <2>3
<1>7. ASSUME NEW v \in Workers, local'[v].new # None
      PROVE  /\ \A uy \in AssetTypes, q \in AssetRow : Seen(uy, q)' => local'[v].new \notin {q.id, q.key}
             /\ \A u \in Workers \ {v} : local'[u].new # local'[v].new
  <2>1. v # w /\ local'[v].new = local[v].new /\ local[v].new # a
    BY <1>2, <1>3, <1>7
  <2>2. PICK b : b = local[v].new
    OBVIOUS
  <2>3. /\ \A uy \in AssetTypes, q \in AssetRow : Seen(uy, q) => b \notin {q.id, q.key}
        /\ \A u \in Workers \ {v} : local[u].new # b
    BY <1>7, <2>1, <2>2 DEF IdsApart
  <2>4. b \notin {r.id, r.key}
    BY <1>2, <2>1, <2>2, <2>3
  <2>5. \A u \in Workers \ {v} : local'[u].new # b
    BY <1>2, <1>7, <2>1, <2>2, <2>3
  <2>6. QED
    BY <1>4, <2>1, <2>2, <2>3, <2>4, <2>5
<1>8. QED
  BY <1>6, <1>7 DEF IdsApart

\* The object it was put for is there; the other rows and objects are as before.
LEMMA PersistsResolve ==
  ASSUME StoreInv, NewThere, RowsResolve, NEW w \in Workers, NEW s, NEW m, NEW ty \in AssetTypes, NEW r,
         Persists(w, s, m, ty, r)
  PROVE  NewThere' /\ RowsResolve'
<1>1. /\ at'[w] = s /\ s # "persist" /\ s # "dropRow" /\ at[w] = "persist" /\ objects' = objects
      /\ \A v \in Workers : Doc(v)' = Doc(v)
      /\ \A v \in Workers \ {w} : at'[v] = at[v] /\ local'[v] = local[v]
      /\ condemned \subseteq condemned' /\ faults' = faults /\ (errors' = 0 => errors = 0)
  BY OneMoves DEF Persists, Steady
<1>2. NewThere'
  <2>1. SUFFICES ASSUME NEW v \in Workers, at'[v] = "persist", Doc(v)' \notin condemned'
                 PROVE  Key(Doc(v), local'[v].new) \in objects
    BY <1>1 DEF NewThere, Key
  <2>2. v # w /\ at[v] = "persist" /\ local'[v] = local[v] /\ Doc(v) \notin condemned
    BY <1>1, <2>1
  <2>3. QED
    BY <2>2 DEF NewThere
<1>3. RowsResolve'
  <2>1. ASSUME NEW d \in Documents \ condemned', NEW uy \in AssetTypes,
               errors' = 0, faults' = 0, assets'[d][uy] # None
        PROVE  \E k : /\ k = assets'[d][uy].key
                      /\ Key(d, k) \in objects \/ \E v \in Workers : Dropping(v, d, k)'
    <3>1. CASE d = Doc(w) /\ uy = ty
      <4>1. assets'[d][uy].key = local[w].new
        BY <3>1 DEF Persists
      <4>2. Key(d, local[w].new) \in objects
        BY <1>1, <2>1, <3>1 DEF NewThere
      <4>3. QED
        BY <4>1, <4>2
    <3>2. CASE ~(d = Doc(w) /\ uy = ty)
      <4>1. assets'[d][uy] = assets[d][uy]
        BY <3>2 DEF Persists
      <4>2. PICK k : k = assets[d][uy].key
        OBVIOUS
      <4>3. Key(d, k) \in objects \/ \E v \in Workers : Dropping(v, d, k)
        BY <1>1, <2>1, <4>1, <4>2 DEF RowsResolve
      <4>4. ASSUME NEW v \in Workers, Dropping(v, d, k) PROVE Dropping(v, d, k)'
        BY <1>1, <4>4 DEF Dropping
      <4>5. QED
        BY <4>1, <4>2, <4>3, <4>4
    <3>3. QED
      BY <3>1, <3>2
  <2>2. SUFFICES ASSUME NEW d \in Documents \ condemned', NEW uy \in AssetTypes,
                        errors' = 0, faults' = 0, assets'[d][uy] # None
                 PROVE  \/ Key(d, assets'[d][uy].key) \in objects'
                        \/ \E v \in Workers : at'[v] = "dropRow" /\ Doc(v)' = d
                                             /\ local'[v].old.key = assets'[d][uy].key
    BY DEF RowsResolve, Key, Dropping
  <2>3. PICK k : /\ k = assets'[d][uy].key
                 /\ Key(d, k) \in objects \/ \E v \in Workers : Dropping(v, d, k)'
    BY <2>1, <2>2
  <2>4. QED
    BY <1>1, <2>3 DEF Dropping
<1>4. QED
  BY <1>2, <1>3

\* The document has the asset, and no document loses one.
LEMMA PersistsHas ==
  ASSUME StoreInv, NEW w \in Workers, NEW s, NEW m, NEW ty \in AssetTypes, NEW r,
         Persists(w, s, m, ty, r)
  PROVE  /\ \A d \in Documents : HasAsset(d) => HasAsset(d)'
         /\ \A d \in Documents : d = Doc(w) /\ ty = Wanted(d) => HasAsset(d)'
<1>1. /\ ty = Head(local[w].tasks) /\ r # None
      /\ \A d \in Documents, uy \in AssetTypes :
           assets'[d][uy] = IF d = Doc(w) /\ uy = ty THEN r ELSE assets[d][uy]
      /\ \A v \in Workers : Doc(v)' = Doc(v)
      /\ \A v \in Workers \ {w} : at'[v] = at[v] /\ local'[v] = local[v]
  BY OneMoves, RowsAreRows DEF Persists
<1>2. ASSUME NEW d \in Documents, d = Doc(w), ty = Wanted(d) PROVE HasAsset(d)'
  <2>1. assets'[d][ty] # None
    BY <1>1, <1>2
  <2>2. QED
    BY <1>2, <2>1 DEF HasAsset, Wanted
<1>3. ASSUME NEW d \in Documents, HasAsset(d) PROVE HasAsset(d)'
  <2>1. Wanted(d) \in AssetTypes
    BY DEF Wanted, AssetTypes
  <2>2. CASE assets[d][Wanted(d)] # None
    <3>1. assets'[d][Wanted(d)] # None
      BY <1>1, <2>1, <2>2
    <3>2. QED
      BY <3>1 DEF HasAsset, Wanted
  <2>3. ASSUME NEW v \in Workers, Making(v, d) PROVE HasAsset(d)'
    <3>1. CASE v = w
      BY <1>1, <1>2, <2>3, <3>1 DEF Making
    <3>2. CASE v # w
      <4>1. Making(v, d)'
        BY <1>1, <2>3, <3>2 DEF Making, Wanted
      <4>2. QED
        BY <4>1 DEF HasAsset
    <3>3. QED
      BY <3>1, <3>2
  <2>4. QED
    BY <1>3, <2>2, <2>3 DEF HasAsset
<1>4. QED
  BY <1>2, <1>3

\* The row of the new asset is refused: the document has gone.
LEMMA RefusedAssets ==
  ASSUME StoreInv, QueueInv, TypesInv, AssetsInv, NEW w \in Workers, PersistAsset(w), ~RowExists(Doc(w))
  PROVE  AssetsInv'
<1>1. /\ pc[w] = "handling" /\ at[w] = "persist" /\ Steady(w) /\ FinishRetry(w)
      /\ UNCHANGED <<assets, objects, docs, announcing, mime, condemned>>
  BY HandlerSteady DEF PersistAsset, Running, HandlerStep, HandlerUnchanged, requestVars
<1>2. /\ pc \in [Workers -> Stages] /\ held[w] \in Jobs /\ jobs[held[w]].status = "processing"
      /\ Doc(w) \in Documents
  BY <1>1, AtWork
<1>3. Doc(w) \in condemned
  <2>1. docs[Doc(w)] \in {"live", "trashed", "gone"}
    BY <1>2 DEF AssetsInv, DocumentsOK, Doc
  <2>2. QED
    BY <1>2, <2>1 DEF AssetsInv, DocumentsOK, RowExists
<1>4. Moves(w, "start", NoContext)
  BY <1>1, <1>2, HandlerMoves
<1>5. Remembers(w, "start", NoContext) /\ \A ty, r : Knows(NoContext, ty, r) => r = None
  BY BlankContext
<1>6. DocumentsOK'
  BY <1>1, <1>4, DocumentsStay DEF AssetsInv
<1>7. IdsApart'
  <2>1. \A d \in Documents, ty \in AssetTypes : assets'[d][ty] \in {assets[d][ty], None}
    BY <1>1
  <2>2. NoContext.new = None
    BY DEF NoContext
  <2>3. QED
    BY <1>4, <1>5, <2>1, <2>2, MoveApart DEF AssetsInv
<1>8. NewThere' /\ RowsResolve'
  <2>1. errors \in Nat
    BY DEF TypesInv, HistoryTyped
  <2>2. QED
    BY <1>1, <1>4, <2>1, QuietResolve DEF AssetsInv
<1>9. \A d : Undisturbed(d)' => d # Doc(w)
  BY <1>1, <1>3 DEF Undisturbed
<1>10. ASSUME NEW d \in Documents, Undisturbed(d)', HasAsset(d) PROVE HasAsset(d)'
  <2>1. ASSUME NEW v \in Workers, Making(v, d) PROVE Making(v, d)'
    <3>1. v # w
      BY <1>9, <1>10, <2>1 DEF Making
    <3>2. at'[v] = at[v] /\ local'[v] = local[v] /\ Doc(v)' = Doc(v)
      BY <1>4, <3>1, OneMoves
    <3>3. QED
      BY <2>1, <3>2 DEF Making, Wanted
  <2>2. QED
    BY <1>1, <1>10, <2>1 DEF HasAsset, Wanted
<1>11. QED
  BY <1>4, <1>1, <1>5, <1>6, <1>7, <1>8, <1>9, <1>10, MoveAssets

\* The row of the new asset is written: the next task, or the end.
LEMMA WrittenAssets ==
  ASSUME StoreInv, QueueInv, TypesInv, AssetsInv, NEW w \in Workers, PersistAsset(w), RowExists(Doc(w))
  PROVE  AssetsInv'
<1>1. /\ pc[w] = "handling" /\ at[w] = "persist" /\ Steady(w)
      /\ UNCHANGED <<objects, docs, announcing, mime>>
      /\ NextTask(w, [local[w] EXCEPT !.cache = None, !.old = None, !.new = None])
      /\ assets' = [assets EXCEPT ![Doc(w)] = IF Head(local[w].tasks) = Thumbnail
                       THEN PersistThumbnail(assets[Doc(w)], local[w].old, local[w].new)
                       ELSE PersistText(assets[Doc(w)], local[w].old, local[w].new)]
  BY HandlerSteady DEF PersistAsset, Running, HandlerStep, HandlerUnchanged, requestVars
<1>2. at[w] \in MakeSteps
  BY <1>1 DEF MakeSteps
<1>3. /\ pc \in [Workers -> Stages] /\ Doc(w) \in Documents /\ ContextOK(local[w]) /\ FieldsOK(local[w])
      /\ assets \in [Documents -> AssetMap] /\ local[w].new \in AssetIds
      /\ Remembers(w, at[w], local[w]) /\ at[w] \in TaskSteps /\ jobs[held[w]].type = Analyze
      /\ local[w].tasks \in Seq(TaskNames)
      /\ local[w].old # None => Seen(Head(local[w].tasks), local[w].old)
  BY <1>1, <1>2, MakingAt DEF StepHas, TypesInv
<1>4. PICK ty \in AssetTypes : ty = Head(local[w].tasks)
  BY <1>1, <1>2, MakingAt
<1>5. PICK c : c = [local[w] EXCEPT !.cache = None, !.old = None, !.new = None]
  OBVIOUS
<1>6. /\ NextTask(w, c) /\ CacheSeen(c) /\ c.cache = None /\ c.mime = local[w].mime
      /\ c.tasks = local[w].tasks
  <2>1. PICK c1 : c1 = [local[w] EXCEPT !.cache = None]
    OBVIOUS
  <2>2. ContextOK(c1) /\ FieldsOK(c1) /\ c1.mime = local[w].mime /\ c1.tasks = local[w].tasks /\ c1.cache = None
    BY <1>3, <2>1, Contexts, Fields DEF ContextOK
  <2>3. PICK c2 : c2 = [c1 EXCEPT !.old = None]
    OBVIOUS
  <2>4. /\ ContextOK(c2) /\ FieldsOK(c2) /\ c2.mime = c1.mime /\ c2.tasks = c1.tasks /\ c2.cache = None
        /\ c2.old = None
    BY <2>2, <2>3, Fields DEF ContextOK
  <2>5. PICK c3 : c3 = [c2 EXCEPT !.new = None]
    OBVIOUS
  <2>6. /\ ContextOK(c3) /\ FieldsOK(c3) /\ c3.mime = c2.mime /\ c3.tasks = c2.tasks /\ c3.cache = None
        /\ c3.old = None /\ c3.new = None
    BY <2>4, <2>5, Fields DEF ContextOK
  <2>7. c3 = c
    BY <1>5, <2>1, <2>3, <2>5
  <2>8. QED
    BY <1>1, <1>5, <2>2, <2>4, <2>6, <2>7 DEF CacheSeen
<1>7. PICK r \in AssetRow :
        /\ r.key = local[w].new
        /\ r.id = local[w].new \/ (assets[Doc(w)][ty] # None /\ r.id = assets[Doc(w)][ty].id)
        /\ \A uy \in AssetTypes : assets'[Doc(w)][uy] = IF uy = ty THEN r ELSE assets[Doc(w)][uy]
  <2>1. PICK rows \in AssetMap, old \in AssetRow \union {None}, a \in AssetIds :
          rows = assets[Doc(w)] /\ old = local[w].old /\ a = local[w].new
    BY <1>3 DEF ContextOK
  <2>2. PICK new : new = IF ty = Thumbnail THEN PersistThumbnail(rows, old, a) ELSE PersistText(rows, old, a)
    OBVIOUS
  <2>3. assets'[Doc(w)] = new
    BY <1>1, <1>3, <1>4, <2>1, <2>2
  <2>4. ASSUME ty = Text, old # None, rows[Thumbnail] # None PROVE rows[Thumbnail].id # old.id
    <3>1. Seen(Text, old) /\ Seen(Thumbnail, rows[Thumbnail])
      BY <1>3, <1>4, <2>1, <2>4 DEF Seen
    <3>2. Thumbnail \in AssetTypes /\ Text \in AssetTypes /\ Thumbnail # Text
      BY DEF AssetTypes, Thumbnail, Text
    <3>3. rows[Thumbnail] \in AssetRow /\ old \in AssetRow
      BY <2>1, <2>4, <3>2 DEF AssetMap
    <3>4. QED
      BY <3>1, <3>2, <3>3 DEF AssetsInv, IdsApart
  <2>5. \E q \in AssetRow :
          /\ q.key = a
          /\ q.id = a \/ (rows[ty] # None /\ q.id = rows[ty].id)
          /\ \A uy \in AssetTypes : new[uy] = IF uy = ty THEN q ELSE rows[uy]
    BY <2>2, <2>4, PersistRow
  <2>6. QED
    BY <2>1, <2>3, <2>5
<1>8. /\ r.id = local[w].new \/ \E q \in AssetRow : Seen(ty, q) /\ r.id = q.id
      /\ \A d \in Documents, uy \in AssetTypes :
           assets'[d][uy] = IF d = Doc(w) /\ uy = ty THEN r ELSE assets[d][uy]
  <2>1. ASSUME assets[Doc(w)][ty] # None
        PROVE  assets[Doc(w)][ty] \in AssetRow /\ Seen(ty, assets[Doc(w)][ty])
    BY <1>3, <2>1 DEF AssetMap, Seen
  <2>2. \A d \in Documents : d # Doc(w) => assets'[d] = assets[d]
    BY <1>1, <1>3
  <2>3. QED
    BY <1>7, <2>1, <2>2
<1>9. DocumentsOK'
  <2>1. jobs' = jobs
    BY HandlerIsQueue DEF HandlerStep, Handle, queueVars
  <2>2. QED
    BY <1>1, <2>1 DEF AssetsInv, DocumentsOK, Steady
<1>10. ASSUME NEW s \in {"start", "task"}, NEW m, Moves(w, s, m), m.cache = None, m.old = None, m.new = None,
              Remembers(w, s, m),
              \A d \in Documents : s = "task" /\ Passed(m, Wanted(d)) => Behind(local[w], Wanted(d)),
              s = "start" => \A d \in Documents : Behind(local[w], Wanted(d)),
              s = "task" => pc'[w] # "marking"
       PROVE  AssetsInv'
  <2>1. Persists(w, s, m, ty, r)
    BY <1>1, <1>4, <1>7, <1>8, <1>10 DEF Persists
  <2>2. IdsApart' /\ NewThere' /\ RowsResolve'
    BY <1>3, <2>1, PersistsApart, PersistsResolve DEF AssetsInv
  <2>3. /\ \A d \in Documents : HasAsset(d) => HasAsset(d)'
        /\ \A d \in Documents : d = Doc(w) /\ ty = Wanted(d) => HasAsset(d)'
    BY <2>1, PersistsHas
  <2>4. ASSUME NEW d \in Documents, Undisturbed(d)', Doc(w) = d, Behind(local[w], Wanted(d)) PROVE HasAsset(d)'
    <3>1. CASE ty = Wanted(d)
      BY <2>3, <2>4, <3>1
    <3>2. CASE ty # Wanted(d)
      <4>1. Passed(local[w], Wanted(d))
        BY <1>3, <1>4, <2>4, <3>2, HeadBehind
      <4>2. HasAsset(d)
        BY <1>1, <1>3, <2>4, <4>1, UndisturbedBefore, CachedHas
      <4>3. QED
        BY <2>3, <4>2
    <3>3. QED
      BY <3>1, <3>2
  <2>5. "start" \notin TaskSteps
    BY DEF TaskSteps, MakeSteps
  <2>6. QED
    BY <1>1, <1>9, <1>10, <2>2, <2>3, <2>4, <2>5, MoveAssets, SMTT(60)
<1>11. CASE Finish(w, Success) /\ Len(c.tasks) <= 1
  <2>1. Moves(w, "start", NoContext)
    BY <1>1, <1>3, <1>11, HandlerMoves
  <2>2. Remembers(w, "start", NoContext)
    BY BlankContext
  <2>3. NoContext.cache = None /\ NoContext.old = None /\ NoContext.new = None
    BY DEF NoContext
  <2>4. \A ty1 : Behind(local[w], ty1)
    BY <1>3, <1>6, <1>11, LenProperties DEF Behind
  <2>5. QED
    BY <1>10, <2>1, <2>2, <2>3, <2>4
<1>12. CASE Len(c.tasks) > 1 /\ Goto(w, "task", [c EXCEPT !.tasks = Tail(c.tasks)])
  <2>1. PICK n : n = [c EXCEPT !.tasks = Tail(c.tasks)]
    OBVIOUS
  <2>2. Moves(w, "task", n) /\ pc'[w] = "handling"
    BY <1>1, <1>3, <1>12, <2>1, HandlerMoves DEF Goto, queueVars
  <2>3. /\ n.cache = None /\ n.mime = local[w].mime /\ n.old = None /\ n.new = None
        /\ n.tasks = Tail(local[w].tasks)
    BY <1>6, <2>1 DEF CacheSeen, ContextOK
  <2>4. Remembers(w, "task", n)
    BY <1>3, <2>3 DEF Remembers, TaskSteps, MakeSteps
  <2>5. ASSUME NEW d \in Documents, Passed(n, Wanted(d)) PROVE Behind(local[w], Wanted(d))
    <3>1. \A i \in 1..Len(n.tasks) : n.tasks[i] # Wanted(d)
      BY <2>3, <2>5 DEF Passed
    <3>2. QED
      BY <1>3, <1>6, <1>12, <2>3, <3>1, TailPassed
  <2>6. QED
    BY <1>10, <2>2, <2>3, <2>4, <2>5
<1>13. Len(c.tasks) \in Nat
  BY <1>3, <1>6, LenProperties
<1>14. QED
  BY <1>6, <1>11, <1>12, <1>13 DEF NextTask

\* The row of the new asset.
LEMMA PersistAssets ==
  ASSUME StoreInv, QueueInv, TypesInv, AssetsInv, NEW w \in Workers, PersistAsset(w)
  PROVE  AssetsInv'
  BY RefusedAssets, WrittenAssets

-----------------------------------------------------------------------------
(* The steps of a purge, and failures.                                     *)

\* The purge reads the document in the trash.
LEMMA PreparePurgeAssets ==
  ASSUME StoreInv, QueueInv, TypesInv, AssetsInv, NEW w \in Workers, PreparePurge(w)
  PROVE  AssetsInv'
<1>1. /\ pc[w] = "handling" /\ at[w] = "start" /\ jobs[held[w]].type = Purge /\ Steady(w)
      /\ UNCHANGED <<assets, objects, docs, announcing, mime>>
  BY HandlerSteady DEF PreparePurge, Running, HandlerStep, HandlerUnchanged, requestVars, tableVars
<1>2. pc \in [Workers -> Stages]
  BY <1>1, AtWork
<1>3. DocumentsOK'
  <2>1. jobs' = jobs
    BY HandlerIsQueue DEF HandlerStep, Handle, queueVars
  <2>2. QED
    BY <1>1, <2>1 DEF AssetsInv, DocumentsOK, Steady
<1>4. CASE Finish(w, Success)
  BY <1>1, <1>3, <1>4, QuietReturn
<1>5. ASSUME NEW ks, Goto(w, "purge", [NoContext EXCEPT !.keys = ks]) PROVE AssetsInv'
  <2>1. PICK c : c = [NoContext EXCEPT !.keys = ks]
    OBVIOUS
  <2>2. Moves(w, "purge", c) /\ pc'[w] = "handling"
    BY <1>1, <1>2, <1>5, <2>1, HandlerMoves DEF Goto, queueVars
  <2>3. c.cache = None /\ c.old = None /\ c.new = None
    BY <2>1 DEF NoContext
  <2>4. Remembers(w, "purge", c) /\ "purge" \notin TaskSteps
    BY <1>1, <2>3 DEF Remembers, TaskSteps, MakeSteps
  <2>5. \A ty \in AssetTypes, r \in AssetRow : Knows(c, ty, r) /\ r # None => Seen(ty, r)
    BY <2>3 DEF Knows
  <2>6. QED
    BY <1>1, <1>3, <2>2, <2>4, <2>5, QuietAssets
<1>6. CASE docs[Doc(w)] # "trashed"
  BY <1>4, <1>6 DEF PreparePurge
<1>7. CASE docs[Doc(w)] = "trashed"
  BY <1>5, <1>7 DEF PreparePurge
<1>8. QED
  BY <1>6, <1>7

\* What a purge does to objects and rows touches its document only, which is condemned.
LEMMA PurgingAssets ==
  ASSUME StoreInv, QueueInv, TypesInv, AssetsInv, NEW w \in Workers, NEW s, NEW c, Moves(w, s, c), Steady(w),
         at[w] = "purge", Doc(w) \in condemned, s \in {"purge", "start"},
         Remembers(w, s, c), c.cache = None, c.old = None, DocumentsOK',
         objects' \subseteq objects, \A k \in objects \ objects' : k.doc = Doc(w),
         \A d \in Documents, ty \in AssetTypes :
           /\ assets'[d][ty] \in {assets[d][ty], None}
           /\ d # Doc(w) => assets'[d][ty] = assets[d][ty]
  PROVE  AssetsInv'
<1>1. /\ at'[w] = s /\ local'[w] = c /\ \A v \in Workers : Doc(v)' = Doc(v)
      /\ \A v \in Workers \ {w} : at'[v] = at[v] /\ local'[v] = local[v]
      /\ condemned \subseteq condemned' /\ faults' = faults /\ (errors' = 0 => errors = 0)
  BY OneMoves DEF Steady
<1>2. s \notin TaskSteps /\ c.new = None
  BY DEF TaskSteps, MakeSteps, Remembers
<1>3. IdsApart'
  <2>1. \A ty \in AssetTypes, r \in AssetRow : Knows(c, ty, r) /\ r # None => Seen(ty, r)
    BY DEF Knows
  <2>2. \A d \in Documents, ty \in AssetTypes : assets'[d][ty] \in {assets[d][ty], None}
    OBVIOUS
  <2>3. QED
    BY <1>2, <2>1, <2>2, MoveApart DEF AssetsInv
<1>4. \A d, a : d # Doc(w) /\ Key(d, a) \in objects => Key(d, a) \in objects'
  BY DEF Key
<1>5. NewThere'
  <2>1. SUFFICES ASSUME NEW v \in Workers, at'[v] = "persist", Doc(v)' \notin condemned'
                 PROVE  Key(Doc(v), local'[v].new) \in objects'
    BY <1>1 DEF NewThere, Key
  <2>2. v # w /\ at[v] = "persist" /\ local'[v] = local[v] /\ Doc(v) \notin condemned
    BY <1>1, <2>1
  <2>3. Key(Doc(v), local[v].new) \in objects /\ Doc(v) # Doc(w)
    BY <2>2 DEF AssetsInv, NewThere
  <2>4. QED
    BY <1>4, <2>2, <2>3
<1>6. RowsResolve'
  <2>1. ASSUME NEW d \in Documents \ condemned', NEW uy \in AssetTypes,
               errors' = 0, faults' = 0, assets'[d][uy] # None
        PROVE  \E k : /\ k = assets'[d][uy].key
                      /\ Key(d, k) \in objects' \/ \E v \in Workers : Dropping(v, d, k)'
    <3>1. d # Doc(w) /\ assets'[d][uy] = assets[d][uy]
      BY <1>1, <2>1
    <3>2. PICK k : k = assets[d][uy].key
      OBVIOUS
    <3>3. Key(d, k) \in objects \/ \E v \in Workers : Dropping(v, d, k)
      BY <1>1, <2>1, <3>1, <3>2 DEF AssetsInv, RowsResolve
    <3>4. ASSUME NEW v \in Workers, Dropping(v, d, k) PROVE Dropping(v, d, k)'
      BY <1>1, <3>1, <3>4 DEF Dropping
    <3>5. Key(d, k) \in objects' \/ \E v \in Workers : Dropping(v, d, k)'
      BY <1>4, <3>1, <3>3, <3>4
    <3>6. QED
      BY <3>1, <3>2, <3>5
  <2>2. SUFFICES ASSUME NEW d \in Documents \ condemned', NEW uy \in AssetTypes,
                        errors' = 0, faults' = 0, assets'[d][uy] # None
                 PROVE  \/ Key(d, assets'[d][uy].key) \in objects'
                        \/ \E v \in Workers : at'[v] = "dropRow" /\ Doc(v)' = d
                                             /\ local'[v].old.key = assets'[d][uy].key
    BY DEF RowsResolve, Key, Dropping
  <2>3. PICK k : /\ k = assets'[d][uy].key
                 /\ Key(d, k) \in objects' \/ \E v \in Workers : Dropping(v, d, k)'
    BY <2>1, <2>2
  <2>4. QED
    BY <2>3 DEF Dropping
<1>7. \A d : Undisturbed(d)' => d # Doc(w)
  BY <1>1 DEF Undisturbed
<1>8. ASSUME NEW d \in Documents, Undisturbed(d)', HasAsset(d) PROVE HasAsset(d)'
  <2>1. Wanted(d) \in AssetTypes /\ d # Doc(w)
    BY <1>7, <1>8 DEF Wanted, AssetTypes
  <2>2. assets'[d][Wanted(d)] = assets[d][Wanted(d)]
    BY <2>1
  <2>3. ASSUME NEW v \in Workers, Making(v, d) PROVE Making(v, d)'
    <3>1. v # w
      BY <2>1, <2>3 DEF Making
    <3>2. QED
      BY <1>1, <2>3, <3>1 DEF Making, Wanted
  <2>4. QED
    BY <1>8, <2>2, <2>3 DEF HasAsset, Wanted
<1>9. QED
  BY <1>2, <1>3, <1>5, <1>6, <1>7, <1>8, MoveAssets

\* One object of the document less.
LEMMA PurgeObjectAssets ==
  ASSUME StoreInv, QueueInv, TypesInv, AssetsInv, NEW w \in Workers, PurgeObject(w)
  PROVE  AssetsInv'
<1>1. /\ pc[w] = "handling" /\ at[w] = "purge" /\ jobs[held[w]].type = Purge /\ Steady(w)
      /\ UNCHANGED <<assets, docs, announcing, mime>>
  BY HandlerSteady DEF PurgeObject, Running, HandlerStep, HandlerUnchanged, requestVars
<1>2. /\ pc \in [Workers -> Stages] /\ ContextOK(local[w]) /\ Remembers(w, "purge", local[w])
      /\ PurgeOK(local[w], Doc(w))
  BY <1>1, AtWork, ContextAt DEF AssetsInv, StoreInv, WorkerOK
<1>3. PICK k \in local[w].keys :
        /\ objects' = objects \ {k}
        /\ Goto(w, "purge", [local[w] EXCEPT !.keys = local[w].keys \ {k}])
  BY DEF PurgeObject
<1>4. PICK c : c = [local[w] EXCEPT !.keys = local[w].keys \ {k}]
  OBVIOUS
<1>5. Moves(w, "purge", c)
  BY <1>1, <1>2, <1>3, <1>4, HandlerMoves
<1>6. c.cache = None /\ c.old = None /\ c.new = None
  BY <1>2, <1>4 DEF ContextOK, Remembers, TaskSteps, MakeSteps
<1>7. Remembers(w, "purge", c)
  BY <1>1, <1>6 DEF Remembers, TaskSteps, MakeSteps
<1>8. DocumentsOK'
  BY <1>1, <1>5, DocumentsStay DEF AssetsInv
<1>9. Doc(w) \in condemned /\ k.doc = Doc(w)
  BY <1>2 DEF PurgeOK
<1>10. objects' \subseteq objects /\ \A i \in objects \ objects' : i.doc = Doc(w)
  BY <1>3, <1>9
<1>11. QED
  BY <1>1, <1>5, <1>6, <1>7, <1>8, <1>9, <1>10, PurgingAssets

\* The rows of the document go.
LEMMA FinalizePurgeAssets ==
  ASSUME StoreInv, QueueInv, TypesInv, AssetsInv, NEW w \in Workers, FinalizePurge(w)
  PROVE  AssetsInv'
<1>1. /\ pc[w] = "handling" /\ at[w] = "purge" /\ Steady(w) /\ Finish(w, Success)
      /\ UNCHANGED <<objects, announcing, mime, condemned>>
  BY HandlerSteady DEF FinalizePurge, Running, HandlerStep, HandlerUnchanged, requestVars
<1>2. /\ pc \in [Workers -> Stages] /\ Doc(w) \in Documents /\ PurgeOK(local[w], Doc(w))
      /\ assets \in [Documents -> AssetMap] /\ docs \in [Documents -> DocStates]
  BY <1>1, AtWork DEF StoreInv, StoreTypes, WorkerOK
<1>3. Moves(w, "start", NoContext)
  BY <1>1, <1>2, HandlerMoves
<1>4. Remembers(w, "start", NoContext) /\ NoContext.cache = None /\ NoContext.old = None
  BY BlankContext DEF NoContext
<1>5. Doc(w) \in condemned
  BY <1>2 DEF PurgeOK
<1>6. \/ UNCHANGED <<docs, assets>>
      \/ /\ docs[Doc(w)] = "trashed" /\ docs' = [docs EXCEPT ![Doc(w)] = "gone"]
         /\ assets' = [assets EXCEPT ![Doc(w)] = NoAssets]
  BY DEF FinalizePurge
<1>7. \A d \in Documents, ty \in AssetTypes :
        /\ assets'[d][ty] \in {assets[d][ty], None}
        /\ d # Doc(w) => assets'[d][ty] = assets[d][ty]
  BY <1>2, <1>6 DEF NoAssets
<1>8. DocumentsOK'
  <2>1. jobs' = jobs
    BY <1>3 DEF Moves
  <2>2. \A d \in Documents : docs'[d] = docs[d] \/ (d = Doc(w) /\ docs'[d] = "gone" /\ docs[d] = "trashed")
    BY <1>2, <1>6
  <2>3. announcing \subseteq Documents /\ \A j \in Jobs : jobs[j].status # "absent" => jobs[j].doc \in Documents
    BY DEF TypesInv, RequestsTyped, QueueInv, JobsHaveDocuments
  <2>4. QED
    BY <1>1, <1>5, <2>1, <2>2, <2>3 DEF AssetsInv, DocumentsOK
<1>9. QED
  BY <1>1, <1>3, <1>4, <1>5, <1>7, <1>8, PurgingAssets

\* After a failed call nothing is claimed of objects; the contexts are as they were.
LEMMA FailureAssets ==
  ASSUME StoreInv, QueueInv, TypesInv, AssetsInv, NEW w \in Workers, CallFails(w)
  PROVE  AssetsInv'
<1>1. /\ pc[w] = "handling" /\ errors' = errors + 1
      /\ UNCHANGED <<assets, objects, docs, announcing, mime, condemned>>
  BY DEF CallFails, tableVars, requestVars, historyVars
<1>2. /\ pc \in [Workers -> Stages] /\ Remembers(w, at[w], local[w]) /\ errors \in Nat
  BY <1>1, AtWork DEF AssetsInv, TypesInv, HistoryTyped
<1>3. errors' # 0
  BY <1>1, <1>2
<1>4. Steady(w)
  <2>1. faults' = faults /\ \A v \in Workers \ {w} : result'[v] = result[v]
    BY HandlerIsQueue DEF Handle, queueVars, QueueInv, IInv, JobQueueTypeOK
  <2>2. QED
    BY <1>1, <1>3, <2>1 DEF Steady
<1>5. ASSUME NEW s, NEW c, Moves(w, s, c), s # "persist", Remembers(w, s, c),
             \A ty \in AssetTypes, r \in AssetRow : Knows(c, ty, r) /\ r # None => Seen(ty, r)
      PROVE  AssetsInv'
  <2>1. DocumentsOK'
    BY <1>1, <1>4, <1>5, DocumentsStay DEF AssetsInv
  <2>2. IdsApart'
    <3>1. \A d \in Documents, ty \in AssetTypes : assets'[d][ty] \in {assets[d][ty], None}
      BY <1>1
    <3>2. c.new = None
      BY <1>5 DEF Remembers
    <3>3. QED
      BY <1>5, <3>1, <3>2, MoveApart DEF AssetsInv
  <2>3. NewThere' /\ RowsResolve'
    BY <1>1, <1>2, <1>3, <1>4, <1>5, QuietResolve DEF AssetsInv
  <2>4. \A d : ~Undisturbed(d)'
    BY <1>3 DEF Undisturbed
  <2>5. QED
    BY <1>4, <1>5, <2>1, <2>2, <2>3, <2>4, MoveAssets
<1>6. CASE FinishRetry(w) \/ Finish(w, Failed)
  <2>1. Moves(w, "start", NoContext)
    BY <1>1, <1>2, <1>6, HandlerMoves
  <2>2. QED
    BY <1>5, <2>1, BlankContext
<1>7. ASSUME NEW s \in {"dropRow", "put"}, at[w] \in {"dropObject", "dropRow"}, Goto(w, s, local[w])
      PROVE  AssetsInv'
  <2>1. Moves(w, s, local[w])
    BY <1>1, <1>2, <1>7, HandlerMoves
  <2>2. Remembers(w, s, local[w]) /\ s # "persist"
    BY <1>2, <1>7 DEF Remembers, TaskSteps, MakeSteps
  <2>3. \A ty \in AssetTypes, r \in AssetRow : Knows(local[w], ty, r) /\ r # None => Seen(ty, r)
    BY DEF Seen
  <2>4. QED
    BY <1>5, <2>1, <2>2, <2>3
<1>8. QED
  BY <1>6, <1>7 DEF CallFails

-----------------------------------------------------------------------------
(* The steps around the handlers.                                          *)

\* A step that moves no handler: objects may come, jobs may be enqueued and end.
LEMMA AwayAssets ==
  ASSUME StoreInv, QueueInv, TypesInv, AssetsInv, UNCHANGED <<handlerVars, assets, condemned, errors, faults>>,
         objects \subseteq objects', DocumentsOK',
         \A v \in Workers : at[v] # "start" => Doc(v)' = Doc(v) /\ jobs'[held'[v]].type = jobs[held[v]].type,
         \A j \in Jobs : Succeeded(j)' => /\ Succeeded(j)
                                          /\ jobs'[j].type = jobs[j].type /\ jobs'[j].doc = jobs[j].doc
  PROVE  AssetsInv'
<1>1. at' = at /\ local' = local /\ assets' = assets /\ condemned' = condemned
      /\ errors' = errors /\ faults' = faults
  BY DEF handlerVars
<1>2. ASSUME NEW v \in Workers PROVE Remembers(v, at[v], local[v])'
  <2>1. Remembers(v, at[v], local[v])
    BY DEF AssetsInv
  <2>2. CASE at[v] = "start"
    BY <1>1, <2>1, <2>2 DEF Remembers, TaskSteps, MakeSteps
  <2>3. CASE at[v] # "start"
    BY <1>1, <2>1, <2>3 DEF Remembers, TaskSteps, MakeSteps
  <2>4. QED
    BY <2>2, <2>3
<1>3. IdsApart'
  <2>1. \A ty \in AssetTypes, r \in AssetRow : Seen(ty, r)' => Seen(ty, r)
    BY <1>1 DEF Seen, Knows
  <2>2. QED
    BY <1>1, <2>1, ApartKept DEF AssetsInv
<1>4. NewThere'
  <2>1. SUFFICES ASSUME NEW v \in Workers, at[v] = "persist", Doc(v)' \notin condemned
                 PROVE  Key(Doc(v)', local[v].new) \in objects'
    BY <1>1 DEF NewThere, Key
  <2>2. Doc(v)' = Doc(v)
    BY <2>1
  <2>3. QED
    BY <2>1, <2>2 DEF AssetsInv, NewThere
<1>5. RowsResolve'
  <2>1. SUFFICES ASSUME NEW d \in Documents \ condemned, NEW uy \in AssetTypes,
                        errors = 0, faults = 0, assets[d][uy] # None
                 PROVE  \/ Key(d, assets[d][uy].key) \in objects'
                        \/ \E v \in Workers : at[v] = "dropRow" /\ Doc(v)' = d
                                             /\ local[v].old.key = assets[d][uy].key
    BY <1>1 DEF RowsResolve, Key, Dropping
  <2>2. \/ Key(d, assets[d][uy].key) \in objects
        \/ \E v \in Workers : Dropping(v, d, assets[d][uy].key)
    BY <2>1 DEF AssetsInv, RowsResolve
  <2>3. QED
    BY <2>2 DEF Dropping
<1>6. ASSUME NEW d \in Documents, HasAsset(d) PROVE HasAsset(d)'
  <2>1. ASSUME NEW v \in Workers, Making(v, d) PROVE Making(v, d)'
    BY <1>1, <2>1 DEF Making, Wanted
  <2>2. QED
    BY <1>1, <1>6, <2>1 DEF HasAsset, Wanted
<1>7. AssetsMade'
  <2>1. SUFFICES ASSUME NEW d \in Documents, Undisturbed(d)'
                 PROVE  /\ \A v \in Workers : at[v] \in TaskSteps /\ Doc(v)' = d /\ Passed(local[v], Wanted(d))
                                               => HasAsset(d)'
                        /\ \A j \in Jobs : jobs'[j].type = Analyze /\ jobs'[j].doc = d /\ Succeeded(j)'
                                               => HasAsset(d)'
    BY <1>1 DEF AssetsMade, Wanted, Passed
  <2>2. Undisturbed(d)
    BY <1>1, <2>1 DEF Undisturbed
  <2>3. ASSUME NEW v \in Workers, at[v] \in TaskSteps, Doc(v)' = d, Passed(local[v], Wanted(d))
        PROVE  HasAsset(d)'
    <3>1. Doc(v) = d
      BY <2>3 DEF TaskSteps, MakeSteps
    <3>2. HasAsset(d)
      BY <2>2, <2>3, <3>1 DEF AssetsInv, AssetsMade
    <3>3. QED
      BY <1>6, <3>2
  <2>4. ASSUME NEW j \in Jobs, jobs'[j].type = Analyze, jobs'[j].doc = d, Succeeded(j)'
        PROVE  HasAsset(d)'
    <3>1. HasAsset(d)
      BY <2>2, <2>4 DEF AssetsInv, AssetsMade
    <3>2. QED
      BY <1>6, <3>1
  <2>5. QED
    BY <2>3, <2>4
<1>8. QED
  BY <1>2, <1>3, <1>4, <1>5, <1>7 DEF AssetsInv

\* Tables and jobs as they were, or with jobs on their way: documents are as they were.
LEMMA DocumentsRest ==
  ASSUME DocumentsOK, UNCHANGED <<docs, announcing, mime, condemned>>,
         \A j \in Jobs : jobs'[j].status # "absent" => jobs[j].status # "absent" /\ jobs'[j].doc = jobs[j].doc
  PROVE  DocumentsOK'
  BY DEF DocumentsOK

\* The steps of tick() around a handler, and time.
LEMMA PollAssets ==
  ASSUME StoreInv, QueueInv, TypesInv, AssetsInv, UNCHANGED storeVars,
         (\E w \in Workers : PollStep(w)) \/ Tick \/ UNCHANGED queueVars
  PROVE  AssetsInv'
<1>1. UNCHANGED <<docs, objects, condemned, assets, handlerVars, errors, announcing, mime>>
  BY DEF storeVars, tableVars, historyVars, handlerVars, requestVars
<1>2. /\ jobs \in [Jobs -> Row] /\ pc \in [Workers -> Stages] /\ held \in [Workers -> Jobs \union {None}]
      /\ result \in [Workers -> Results \union {None}] /\ HeldOK
  BY DEF QueueInv, IInv, JobQueueTypeOK
<1>3. /\ faults' = faults
      /\ \A j \in Jobs : /\ jobs'[j].type = jobs[j].type /\ jobs'[j].doc = jobs[j].doc
                         /\ jobs'[j].status # "absent" => jobs[j].status # "absent"
      /\ \A v \in Workers : pc[v] = "handling" => held'[v] = held[v]
      /\ \A j \in Jobs : Succeeded(j)' => Succeeded(j)
  <2>1. CASE Tick \/ UNCHANGED queueVars
    BY <2>1 DEF Tick, queueVars, Succeeded
  <2>2. ASSUME NEW w \in Workers, NEW i \in Jobs, LockJob(w, i)
        PROVE  /\ faults' = faults /\ jobs' = jobs
               /\ \A v \in Workers : pc[v] = "handling" => held'[v] = held[v]
               /\ \A j \in Jobs : Succeeded(j)' => Succeeded(j)
    BY <1>2, <2>2 DEF LockJob, Succeeded
  <2>3. ASSUME NEW w \in Workers, ReserveJob(w) \/ MarkJob(w) \/ RetryJob(w)
        PROVE  /\ faults' = faults
               /\ \A j \in Jobs : /\ jobs'[j].type = jobs[j].type /\ jobs'[j].doc = jobs[j].doc
                                  /\ jobs'[j].status # "absent" => jobs[j].status # "absent"
               /\ \A v \in Workers : pc[v] = "handling" => held'[v] = held[v]
               /\ \A j \in Jobs : Succeeded(j)' => Succeeded(j)
    <3>1. PICK h \in Jobs : h = held[w] /\ jobs[h].status # "absent"
      BY <1>2, <2>3 DEF ReserveJob, MarkJob, RetryJob, HeldOK
    <3>2. PICK st : /\ \A j \in Jobs : j # h => jobs'[j] = jobs[j]
                    /\ jobs'[h].type = jobs[h].type /\ jobs'[h].doc = jobs[h].doc /\ jobs'[h].status = st
                    /\ st = "succeeded" => pc[w] = "marking" /\ result[w] = Success
      <4>1. CASE ReserveJob(w)
        <5>1. jobs' = [jobs EXCEPT ![h].status = "processing"]
          BY <3>1, <4>1 DEF ReserveJob
        <5>2. QED
          BY <1>2, <5>1 DEF Row
      <4>2. CASE MarkJob(w)
        <5>1. jobs' = [jobs EXCEPT ![h].status = result[w].kind] /\ pc[w] = "marking"
              /\ (result[w].kind = "succeeded" => result[w] = Success)
          BY <3>1, <4>2 DEF MarkJob, Success, Failed
        <5>2. QED
          BY <1>2, <5>1 DEF Row
      <4>3. CASE RetryJob(w)
        <5>1. jobs' = [jobs EXCEPT ![h] = [jobs[h] EXCEPT !.status = "queued",
                                                       !.runAfter = clock + result[w].delay]]
          BY <1>2, <3>1, <4>3 DEF RetryJob
        <5>2. QED
          BY <1>2, <5>1 DEF Row
      <4>4. QED
        BY <2>3, <4>1, <4>2, <4>3
    <3>3. /\ faults' = faults /\ pc[w] # "handling"
          /\ \A v \in Workers \ {w} : pc'[v] = pc[v] /\ held'[v] = held[v] /\ result'[v] = result[v]
          /\ ~(pc'[w] = "marking" /\ result'[w] = Success)
      <4>1. CASE ReserveJob(w)
        BY <1>2, <4>1 DEF ReserveJob, Success, Failed
      <4>2. CASE MarkJob(w) \/ RetryJob(w)
        BY <1>2, <4>2 DEF MarkJob, RetryJob, Release
      <4>3. QED
        BY <2>3, <4>1, <4>2
    <3>4. ASSUME NEW j \in Jobs, Succeeded(j)' PROVE Succeeded(j)
      <4>1. CASE jobs'[j].status = "succeeded"
        BY <3>1, <3>2, <4>1 DEF Succeeded
      <4>2. CASE \E v \in Workers : pc'[v] = "marking" /\ held'[v] = j /\ result'[v] = Success
        BY <3>3, <4>2 DEF Succeeded
      <4>3. QED
        BY <3>4, <4>1, <4>2 DEF Succeeded
    <3>5. QED
      BY <3>1, <3>2, <3>3, <3>4
  <2>4. QED
    BY <2>1, <2>2, <2>3 DEF PollStep, queueVars, Tick
<1>4. DocumentsOK'
  BY <1>1, <1>3, DocumentsRest DEF AssetsInv
<1>5. ASSUME NEW v \in Workers, at[v] # "start"
      PROVE  Doc(v)' = Doc(v) /\ jobs'[held'[v]].type = jobs[held[v]].type
  <2>1. pc[v] = "handling"
    BY <1>5 DEF StoreInv, WorkerOK
  <2>2. held[v] \in Jobs /\ held'[v] = held[v]
    BY <1>3, <2>1, AtWork
  <2>3. QED
    BY <1>3, <2>2 DEF Doc
<1>6. QED
  BY <1>1, <1>3, <1>4, <1>5, AwayAssets

\* After the loss of a worker nothing is claimed of objects; the others go on.
LEMMA LossAssets ==
  ASSUME StoreInv, QueueInv, TypesInv, AssetsInv, NEW w \in Workers, LoseHandler(w)
  PROVE  AssetsInv'
<1>1. /\ UNCHANGED <<docs, objects, condemned, assets, jobs, announcing, mime>>
      /\ faults' = faults + 1 /\ faults \in Nat
  BY DEF LoseHandler, LoseWorker, tableVars, historyVars, requestVars, QueueInv, IInv, JobQueueTypeOK
<1>2. /\ at' = [at EXCEPT ![w] = "start"] /\ local' = [local EXCEPT ![w] = NoContext]
      /\ \A v \in Workers \ {w} : held'[v] = held[v]
  BY DEF LoseHandler, LoseWorker, Release, Forget, QueueInv, IInv, JobQueueTypeOK
<1>3. /\ at'[w] = "start" /\ local'[w] = NoContext
      /\ \A v \in Workers \ {w} : at'[v] = at[v] /\ local'[v] = local[v] /\ Doc(v)' = Doc(v)
  BY <1>1, <1>2 DEF StoreInv, StoreTypes, Doc
<1>4. faults' # 0
  BY <1>1
<1>5. ASSUME NEW v \in Workers PROVE Remembers(v, at[v], local[v])'
  <2>1. CASE v = w
    BY <1>3, <2>1 DEF Remembers, NoContext, TaskSteps, MakeSteps
  <2>2. CASE v # w
    <3>1. Remembers(v, at[v], local[v])
      BY DEF AssetsInv
    <3>2. QED
      BY <1>1, <1>2, <1>3, <2>2, <3>1 DEF Remembers
  <2>3. QED
    BY <2>1, <2>2
<1>6. DocumentsOK'
  BY <1>1, DocumentsRest DEF AssetsInv
<1>7. IdsApart'
  <2>1. ASSUME NEW ty \in AssetTypes, NEW r \in AssetRow, Seen(ty, r)' PROVE Seen(ty, r)
    <3>1. ASSUME NEW v \in Workers, Knows(local'[v], ty, r) PROVE Knows(local[v], ty, r)
      <4>1. v # w
        BY <1>3, <2>1, <3>1 DEF Seen, Knows, NoContext
      <4>2. QED
        BY <1>3, <3>1, <4>1
    <3>2. QED
      BY <1>1, <2>1, <3>1 DEF Seen, Knows
  <2>2. \A v \in Workers : local'[v].new = local[v].new \/ local'[v].new = None
    BY <1>3 DEF NoContext
  <2>3. QED
    BY <2>1, <2>2, ApartKept DEF AssetsInv
<1>8. NewThere'
  <2>1. SUFFICES ASSUME NEW v \in Workers, at'[v] = "persist", Doc(v)' \notin condemned
                 PROVE  Key(Doc(v)', local'[v].new) \in objects
    BY <1>1 DEF NewThere, Key
  <2>2. v # w
    BY <1>3, <2>1
  <2>3. QED
    BY <1>3, <2>1, <2>2 DEF AssetsInv, NewThere
<1>9. RowsResolve' /\ AssetsMade'
  BY <1>4 DEF RowsResolve, AssetsMade, Undisturbed
<1>10. QED
  BY <1>5, <1>6, <1>7, <1>8, <1>9 DEF AssetsInv

\* What requests do to documents and jobs.
LEMMA RequestsDo ==
  ASSUME StoreInv, QueueInv, TypesInv, AssetsInv, Requests
  PROVE  /\ UNCHANGED <<handlerVars, pc, held, result, assets, condemned, errors, faults>>
         /\ objects \subseteq objects' /\ DocumentsOK'
         /\ \/ jobs' = jobs
            \/ \E j \in Jobs : /\ jobs[j].status = "absent" /\ jobs'[j].status = "queued"
                               /\ \A i \in Jobs \ {j} : jobs'[i] = jobs[i]
<1>1. UNCHANGED <<handlerVars, pc, held, result, assets, condemned, errors, faults>>
  <2>1. UNCHANGED <<pc, held, result, faults>>
    BY DEF Requests, StoreUpload, InsertUpload, RejectUpload, AnnounceUpload, RequestAnalysis,
           DeleteDocument, AnnounceFails, TrashDocument, BeginUndelete, CompleteUndelete,
           RefuseUndelete, EditIssuedAt, EnqueueJob, EnqueueJobIfNotExists, queueVars
  <2>2. UNCHANGED <<handlerVars, assets, condemned, errors>>
    BY DEF Requests, StoreUpload, InsertUpload, RejectUpload, AnnounceUpload, RequestAnalysis,
           DeleteDocument, AnnounceFails, TrashDocument, BeginUndelete, CompleteUndelete,
           RefuseUndelete, EditIssuedAt, tableVars, historyVars
  <2>3. QED
    BY <2>1, <2>2
<1>2. PICK d \in Documents :
        \/ \E m \in Claims : StoreUpload(d, m)
        \/ InsertUpload(d) \/ RejectUpload(d)
        \/ \E t \in Tenants, j \in Jobs :
             \/ AnnounceUpload(d, t, j)
             \/ \E force \in BOOLEAN : RequestAnalysis(d, t, j, force)
             \/ DeleteDocument(d, t, j)
        \/ AnnounceFails(d) \/ TrashDocument(d) \/ BeginUndelete(d)
        \/ CompleteUndelete(d) \/ RefuseUndelete(d) \/ EditIssuedAt(d)
  BY DEF Requests
<1>3. /\ docs \in [Documents -> DocStates] /\ mime \in [Documents -> Mimes] /\ announcing \subseteq Documents
      /\ jobs \in [Jobs -> Row]
      /\ \A j \in Jobs : jobs[j].status # "absent" => jobs[j].doc \in Documents
  BY DEF StoreInv, StoreTypes, TypesInv, TablesOK, RequestsTyped, QueueInv, IInv, JobQueueTypeOK, JobsHaveDocuments
<1>4. DocumentsOK
  BY DEF AssetsInv
<1> DEFINE Goal == /\ objects \subseteq objects' /\ DocumentsOK'
                   /\ \/ jobs' = jobs
                      \/ \E j \in Jobs : /\ jobs[j].status = "absent" /\ jobs'[j].status = "queued"
                                         /\ \A i \in Jobs \ {j} : jobs'[i] = jobs[i]
<1> SUFFICES Goal
  BY <1>1
<1>5. ASSUME UNCHANGED <<docs, mime, jobs, objects>>, announcing' \subseteq announcing PROVE Goal
  BY <1>1, <1>4, <1>5 DEF DocumentsOK
<1>6. ASSUME NEW m \in Claims, StoreUpload(d, m) PROVE Goal
  <2>1. /\ docs[d] = "absent" /\ docs' = [docs EXCEPT ![d] = "stored"] /\ mime' = [mime EXCEPT ![d] = m]
        /\ objects' = objects \union {Original(d)} /\ UNCHANGED <<jobs, announcing>>
    BY <1>6 DEF StoreUpload, queueVars, requestVars
  <2>2. DocumentsOK'
    BY <1>1, <1>3, <1>4, <2>1 DEF DocumentsOK
  <2>3. QED
    BY <2>1, <2>2
<1>7. ASSUME \A e \in Documents \ {d} : docs'[e] = docs[e],
             \/ docs[d] = "stored" /\ docs'[d] \in {"live", "rejected"}
             \/ docs[d] \in {"live", "trashed"} /\ docs'[d] \in {"live", "trashed"},
             announcing' \subseteq announcing \/ (docs'[d] = "live" /\ announcing' = announcing \union {d}),
             UNCHANGED <<mime, objects, jobs>>
      PROVE  Goal
  <2>1. DocumentsOK'
    BY <1>1, <1>3, <1>4, <1>7 DEF DocumentsOK
  <2>2. QED
    BY <1>7, <2>1
<1>8. ASSUME NEW j \in Jobs, NEW ty, NEW t, InsertJob(j, ty, t, d), docs[d] \in {"live", "trashed", "gone"},
              UNCHANGED <<docs, mime, objects>>, announcing' \subseteq announcing
       PROVE  Goal
  <2>1. /\ jobs[j].status = "absent" /\ jobs'[j].status = "queued" /\ jobs'[j].doc = d
        /\ \A i \in Jobs \ {j} : jobs'[i] = jobs[i]
    BY <1>3, <1>8 DEF InsertJob
  <2>2. DocumentsOK'
    BY <1>1, <1>4, <1>8, <2>1 DEF DocumentsOK
  <2>3. QED
    BY <1>8, <2>1, <2>2
<1> HIDE DEF Goal
<1>9. CASE InsertUpload(d) \/ RejectUpload(d) \/ TrashDocument(d)
  <2>1. CASE InsertUpload(d)
    BY <1>3, <1>7, <2>1 DEF InsertUpload, queueVars
  <2>2. CASE RejectUpload(d)
    BY <1>3, <1>7, <2>2 DEF RejectUpload, queueVars, requestVars
  <2>3. CASE TrashDocument(d)
    BY <1>3, <1>7, <2>3 DEF TrashDocument, queueVars, requestVars
  <2>4. QED
    BY <1>9, <2>1, <2>2, <2>3
<1>10. CASE CompleteUndelete(d)
  <2>1. /\ docs' = [docs EXCEPT ![d] = IF RowExists(d) THEN "live" ELSE docs[d]]
        /\ UNCHANGED <<mime, objects, jobs, announcing>>
    BY <1>10 DEF CompleteUndelete, queueVars
  <2>2. CASE RowExists(d)
    BY <1>3, <1>7, <2>1, <2>2 DEF RowExists
  <2>3. CASE ~RowExists(d)
    <3>1. docs' = docs
      BY <1>3, <2>1, <2>3
    <3>2. QED
      BY <1>5, <2>1, <3>1
  <2>4. QED
    BY <2>2, <2>3
<1>11. CASE AnnounceFails(d) \/ BeginUndelete(d) \/ RefuseUndelete(d) \/ EditIssuedAt(d)
  <2>1. UNCHANGED <<docs, mime, jobs, objects>> /\ announcing' \subseteq announcing
    BY <1>11 DEF AnnounceFails, BeginUndelete, RefuseUndelete, EditIssuedAt, tableVars, queueVars
  <2>2. QED
    BY <1>5, <2>1
<1>12. ASSUME NEW t \in Tenants, NEW j \in Jobs, AnnounceUpload(d, t, j) PROVE Goal
  <2>1. /\ d \in announcing /\ InsertJob(j, Analyze, t, d) /\ UNCHANGED <<docs, mime, objects>>
        /\ announcing' \subseteq announcing
    BY <1>12 DEF AnnounceUpload, EnqueueJob, tableVars
  <2>2. docs[d] \in {"live", "trashed", "gone"}
    BY <1>4, <2>1 DEF DocumentsOK
  <2>3. QED
    BY <1>8, <2>1, <2>2
<1>13. ASSUME NEW t \in Tenants, NEW j \in Jobs, NEW force \in BOOLEAN, RequestAnalysis(d, t, j, force) PROVE Goal
  <2>1. /\ docs[d] = "live" /\ InsertJob(j, Analyze, t, d) /\ UNCHANGED <<docs, mime, objects>>
        /\ announcing' \subseteq announcing
    BY <1>13 DEF RequestAnalysis, EnqueueJob, tableVars
  <2>2. QED
    BY <1>8, <2>1
<1>14. ASSUME NEW t \in Tenants, NEW j \in Jobs, DeleteDocument(d, t, j) PROVE Goal
  <2>1. /\ docs[d] = "trashed" /\ UNCHANGED <<docs, mime, objects, announcing>>
        /\ InsertJob(j, Purge, t, d) \/ jobs' = jobs
    BY <1>14 DEF DeleteDocument, EnqueueJobIfNotExists, tableVars, requestVars, queueVars
  <2>2. CASE InsertJob(j, Purge, t, d)
    BY <1>8, <2>1, <2>2
  <2>3. CASE jobs' = jobs
    BY <1>5, <2>1, <2>3
  <2>4. QED
    BY <2>1, <2>2, <2>3
<1>15. QED
  BY <1>2, <1>6, <1>9, <1>10, <1>11, <1>12, <1>13, <1>14

\* A request moves no handler, and the jobs it enqueues have not begun.
LEMMA RequestsAssets ==
  ASSUME StoreInv, QueueInv, TypesInv, AssetsInv, Requests
  PROVE  AssetsInv'
<1>1. /\ UNCHANGED <<handlerVars, assets, condemned, errors, faults>>
      /\ UNCHANGED <<pc, held, result>> /\ objects \subseteq objects' /\ DocumentsOK'
  BY RequestsDo
<1>2. \/ jobs' = jobs
      \/ \E j \in Jobs : /\ jobs[j].status = "absent" /\ jobs'[j].status = "queued"
                         /\ \A i \in Jobs \ {j} : jobs'[i] = jobs[i]
  BY RequestsDo
<1>3. \A i \in Jobs : jobs[i].status # "absent" => jobs'[i] = jobs[i]
  BY <1>2
<1>4. ASSUME NEW v \in Workers, at[v] # "start"
      PROVE  Doc(v)' = Doc(v) /\ jobs'[held'[v]].type = jobs[held[v]].type
  <2>1. pc[v] = "handling"
    BY <1>4 DEF StoreInv, WorkerOK
  <2>2. held[v] \in Jobs /\ jobs[held[v]].status = "processing" /\ held'[v] = held[v]
    BY <1>1, <2>1, AtWork
  <2>3. QED
    BY <1>3, <2>2 DEF Doc
<1>5. ASSUME NEW j \in Jobs, Succeeded(j)'
      PROVE  Succeeded(j) /\ jobs'[j].type = jobs[j].type /\ jobs'[j].doc = jobs[j].doc
  <2>1. CASE jobs'[j].status = "succeeded"
    <3>1. jobs'[j] = jobs[j]
      BY <1>2, <2>1
    <3>2. QED
      BY <2>1, <3>1 DEF Succeeded
  <2>2. CASE \E v \in Workers : pc[v] = "marking" /\ held[v] = j /\ result[v] = Success
    <3>1. jobs[j].status = "processing"
      BY <2>2 DEF QueueInv, IInv, HeldOK
    <3>2. QED
      BY <1>3, <2>2, <3>1 DEF Succeeded
  <2>3. QED
    BY <1>1, <1>5, <2>1, <2>2 DEF Succeeded
<1>6. QED
  BY <1>1, <1>4, <1>5, AwayAssets

-----------------------------------------------------------------------------
(* The theorem on assets.                                                  *)

\* No asset at first.
LEMMA AssetsInit == StoreInit => AssetsInv
<1>1. SUFFICES ASSUME StoreInit PROVE AssetsInv
  OBVIOUS
<1>2. /\ \A w \in Workers : at[w] = "start" /\ local[w] = NoContext /\ pc[w] = "idle"
      /\ \A d \in Documents : docs[d] = "absent" /\ \A ty \in AssetTypes : assets[d][ty] = None
      /\ announcing = {} /\ \A j \in Jobs : jobs[j].status = "absent"
  BY <1>1 DEF StoreInit, QueueInit, NoAssets, NoRow
<1>3. \A w \in Workers : Remembers(w, at[w], local[w])
  BY <1>2 DEF Remembers, NoContext, TaskSteps, MakeSteps
<1>4. DocumentsOK
  BY <1>2 DEF DocumentsOK
<1>5. \A ty \in AssetTypes : \A r : ~Seen(ty, r)
  BY <1>2 DEF Seen, Knows, NoContext
<1>6. IdsApart
  BY <1>2, <1>5 DEF IdsApart, NoContext
<1>7. NewThere /\ RowsResolve
  BY <1>2 DEF NewThere, RowsResolve
<1>8. AssetsMade
  BY <1>2 DEF AssetsMade, TaskSteps, MakeSteps, Succeeded
<1>9. QED
  BY <1>3, <1>4, <1>6, <1>7, <1>8 DEF AssetsInv

\* Every step keeps the invariant of the assets.
LEMMA AssetsKept == Inv /\ TypesInv /\ AssetsInv /\ [StoreNext]_allVars => AssetsInv'
<1>1. SUFFICES ASSUME Inv, TypesInv, AssetsInv, [StoreNext]_allVars PROVE AssetsInv'
  OBVIOUS
<1>2. StoreInv /\ QueueInv
  BY <1>1 DEF Inv
<1>3. CASE Requests
  BY <1>1, <1>2, <1>3, RequestsAssets
<1>4. ASSUME NEW w \in Workers, HandlerStep(w) PROVE AssetsInv'
  <2>1. CASE \/ LoadDocument(w) \/ PlanTasks(w) \/ EnsureMime(w) \/ MakeAsset(w)
             \/ DetermineIssuedAt(w) \/ IndexText(w) \/ \E ty \in AssetTypes : CheckAsset(w, ty)
    BY <1>1, <1>2, <2>1, LoadAssets, PlanAssets, MimeAssets, CheckAssets, MakeAssets, LaterAssets
  <2>2. CASE DropObject(w) \/ DropRow(w) \/ PersistAsset(w) \/ \E a \in AssetIds : PutAsset(w, a)
    BY <1>1, <1>2, <2>2, DropObjectAssets, DropRowAssets, PutAssets, PersistAssets
  <2>3. CASE PreparePurge(w) \/ PurgeObject(w) \/ FinalizePurge(w)
    BY <1>1, <1>2, <2>3, PreparePurgeAssets, PurgeObjectAssets, FinalizePurgeAssets
  <2>4. QED
    BY <1>4, <2>1, <2>2, <2>3 DEF HandlerStep
<1>5. ASSUME NEW w \in Workers, PollStep(w) PROVE AssetsInv'
  <2>1. UNCHANGED storeVars
    BY <1>5 DEF PollStep
  <2>2. QED
    BY <1>1, <1>2, <1>5, <2>1, PollAssets
<1>6. ASSUME NEW w \in Workers, CallFails(w) \/ LoseHandler(w) PROVE AssetsInv'
  BY <1>1, <1>2, <1>6, FailureAssets, LossAssets
<1>7. CASE Tick /\ UNCHANGED storeVars
  BY <1>1, <1>2, <1>7, PollAssets
<1>8. CASE UNCHANGED allVars
  BY <1>1, <1>2, <1>8, PollAssets DEF allVars
<1>9. QED
  BY <1>1, <1>3, <1>4, <1>5, <1>6, <1>7, <1>8 DEF StoreNext

\* What every reachable state satisfies.
LEMMA AssetsInvariant == StoreSpec => []AssetsInv
  BY AssetsInit, AssetsKept, StoreInvariant, TypedInvariant, PTL DEF StoreSpec

\* A handler among its steps has a job that is running; at the steps that make an asset
\* it is an analysis.
LEMMA AnalysisPends ==
  ASSUME Inv, AssetsInv, NEW w \in Workers, at[w] \in MakeSteps
  PROVE  /\ pc[w] = "handling" /\ jobs[held[w]].type = Analyze
         /\ PendingAnalysis(Doc(w))
<1>1. pc[w] = "handling"
  BY DEF Inv, StoreInv, WorkerOK, MakeSteps
<1>2. held[w] \in Jobs /\ jobs[held[w]].status = "processing"
  BY <1>1, AtWork DEF Inv
<1>3. jobs[held[w]].type = Analyze
  BY DEF AssetsInv, Remembers, TaskSteps
<1>4. QED
  BY <1>1, <1>2, <1>3 DEF PendingAnalysis, Doc

\* The rows of assets point at objects that are there, unless a worker is replacing just
\* that asset; and when analyses of a document overlap, in any order and with any number
\* of workers, and all have ended, the document is left with the asset one of them made.
THEOREM AssetsSound == StoreSpec => []AssetsAreSound
<1>1. ASSUME Inv, AssetsInv PROVE AssetsResolve
  <2>1. SUFFICES ASSUME NEW d \in Documents \ condemned, NEW ty \in AssetTypes,
                        assets[d][ty] # None, errors = 0, faults = 0
                 PROVE  \/ Key(d, assets[d][ty].key) \in objects
                        \/ \E w \in Workers : Replacing(w, d, assets[d][ty])
    BY DEF AssetsResolve
  <2>2. ASSUME NEW w \in Workers, Dropping(w, d, assets[d][ty].key) PROVE Replacing(w, d, assets[d][ty])
    <3>1. at[w] \in MakeSteps /\ at[w] = "dropRow"
      BY <2>2 DEF Dropping, MakeSteps
    <3>2. pc[w] = "handling" /\ jobs[held[w]].type = Analyze
      BY <1>1, <3>1, AnalysisPends
    <3>3. local[w].old # None
      BY <1>1, <3>1, RowsAreRows DEF Inv, StoreInv, WorkerOK, StepHas
    <3>4. QED
      BY <2>2, <3>2, <3>3 DEF Replacing, Running, Dropping
  <2>3. QED
    BY <1>1, <2>1, <2>2 DEF AssetsInv, RowsResolve
<1>2. ASSUME Inv, AssetsInv PROVE AnalysisLeavesAssets
  <2>1. SUFFICES ASSUME NEW d \in Documents, NEW j \in Jobs,
                        jobs[j].type = Analyze, jobs[j].doc = d, jobs[j].status = "succeeded",
                        Claims = {Content[d]}, Content[d] # "other", ~PendingAnalysis(d),
                        d \notin condemned, errors = 0, faults = 0
                 PROVE  assets[d][Wanted(d)] # None /\ Key(d, assets[d][Wanted(d)].key) \in objects
    BY DEF AnalysisLeavesAssets, Wanted
  <2>2. HasAsset(d)
    BY <1>2, <2>1 DEF AssetsInv, AssetsMade, Undisturbed, Succeeded
  <2>3. \A w \in Workers : at[w] \in MakeSteps => Doc(w) # d
    BY <1>2, <2>1, AnalysisPends
  <2>4. assets[d][Wanted(d)] # None /\ Wanted(d) \in AssetTypes
    BY <2>2, <2>3 DEF HasAsset, Making, MakeSteps, Wanted, AssetTypes
  <2>5. QED
    BY <1>2, <2>1, <2>3, <2>4 DEF AssetsInv, RowsResolve, Dropping, MakeSteps
<1>3. QED
  BY <1>1, <1>2, StoreInvariant, AssetsInvariant, PTL DEF AssetsAreSound

-----------------------------------------------------------------------------
(* With one worker a purge leaves nothing behind.                          *)

\* The worker died while it analysed d, or before it recorded that it had: the job is
\* processing for ever.
Stuck(w, d) ==
  \E j \in Jobs \ {held[w]} :
    jobs[j].type = Analyze /\ jobs[j].doc = d /\ jobs[j].status = "processing"

\* What accounts for an object: it is the original, or a row points at it, or its row
\* is next; and its document's row is still there, or not there yet.
Accounted(w, k) ==
  LET d == k.doc IN
  /\ docs[d] # "gone"
  /\ \/ k = Original(d)
     \/ \E ty \in AssetTypes : assets[d][ty] # None /\ k = Key(d, assets[d][ty].key)
     \/ at[w] = "persist" /\ Doc(w) = d /\ k = Key(d, local[w].new)

\* What a handler at step s with context c, alone at work, knows of its document d:
\* nobody else has changed its assets since the context read them, and a purge has
\* all its objects on its list.
Abreast(w, s, c, d) ==
  /\ s \in {"plan"} \union TaskSteps => RowExists(d)
  /\ s \in {"task", "make"} => c.cache \in {None, assets[d]}
  /\ s \in {"make", "dropObject", "dropRow"} => c.old = assets[d][Head(c.tasks)]
  /\ s = "dropRow" => Key(d, c.old.key) \notin objects
  /\ s \in {"put", "persist"} =>
       /\ assets[d][Head(c.tasks)] = None
       /\ \A ty \in AssetTypes : c.old # None /\ assets[d][ty] # None => assets[d][ty].id # c.old.id
  /\ s = "purge" => Stuck(w, d) \/ \A k \in objects : k.doc = d => k \in c.keys

PurgeInv(w) ==
  errors = 0 =>
    /\ \A k \in objects : Stuck(w, k.doc) \/ Accounted(w, k)
    /\ Abreast(w, at[w], local[w], Doc(w))

\* A handler's steps leave the jobs of a dead one where they are.
LEMMA StuckStays ==
  ASSUME StoreInv, NEW w \in Workers, NEW s, NEW c, Moves(w, s, c)
  PROVE  \A d : Stuck(w, d)' <=> Stuck(w, d)
  BY OneMoves DEF Stuck

\* A step of the handler that leaves documents, assets and objects alone.
LEMMA QuietPurge ==
  ASSUME StoreInv, NEW w \in Workers, PurgeInv(w), NEW s, NEW c, Moves(w, s, c), Steady(w), errors' = errors,
         UNCHANGED <<docs, assets, objects>>, at[w] # "persist",
         errors = 0 => Abreast(w, s, c, Doc(w))
  PROVE  PurgeInv(w)'
<1>1. SUFFICES ASSUME errors = 0 PROVE PurgeInv(w)'
  BY DEF PurgeInv, Steady
<1>2. at'[w] = s /\ local'[w] = c /\ Doc(w)' = Doc(w)
  BY OneMoves
<1>3. ASSUME NEW k \in objects', ~Stuck(w, k.doc) PROVE Accounted(w, k)'
  <2>1. Accounted(w, k)
    BY <1>1, <1>3 DEF PurgeInv
  <2>2. QED
    BY <2>1 DEF Accounted, Original, Key
<1>4. Abreast(w, at[w], local[w], Doc(w))'
  <2>1. PICK x, y, d : x = at'[w] /\ y = local'[w] /\ d = Doc(w)' /\ Abreast(w, x, y, d)
    BY <1>1, <1>2
  <2>2. Stuck(w, d)' <=> Stuck(w, d)
    BY StuckStays
  <2>3. Abreast(w, x, y, d)'
    BY <2>1, <2>2 DEF Abreast, RowExists, Key
  <2>4. QED
    BY <2>1, <2>3 DEF Abreast
<1>5. QED
  BY <1>3, <1>4, StuckStays DEF PurgeInv

\* A handler that has returned knows nothing.
LEMMA ReturnedAbreast == \A w, c, d : Abreast(w, "start", c, d)
  BY DEF Abreast, TaskSteps, MakeSteps

\* The handler returns, or goes on to its next task with the assets as they are.
LEMMA ReturnPurge ==
  ASSUME StoreInv, QueueInv, NEW w \in Workers, PurgeInv(w), Steady(w), errors' = errors,
         pc[w] = "handling", UNCHANGED <<docs, assets, objects>>, at[w] # "persist",
         \/ FinishRetry(w) \/ \E r : Finish(w, r)
         \/ \E c : /\ ContextOK(c) /\ NextTask(w, c)
                   /\ errors = 0 => RowExists(Doc(w)) /\ c.cache \in {None, assets[Doc(w)]}
  PROVE  PurgeInv(w)'
<1>1. pc \in [Workers -> Stages]
  BY AtWork
<1>2. CASE Moves(w, "start", NoContext)
  BY <1>2, ReturnedAbreast, QuietPurge
<1>3. ASSUME NEW c, ContextOK(c), Moves(w, "task", [c EXCEPT !.tasks = Tail(@)]),
             errors = 0 => RowExists(Doc(w)) /\ c.cache \in {None, assets[Doc(w)]}
      PROVE  PurgeInv(w)'
  <2>1. PICK n : n = [c EXCEPT !.tasks = Tail(@)]
    OBVIOUS
  <2>2. n.cache = c.cache
    BY <1>3, <2>1 DEF ContextOK
  <2>3. errors = 0 => Abreast(w, "task", n, Doc(w))
    BY <1>3, <2>2 DEF Abreast
  <2>4. Moves(w, "task", n)
    BY <1>3, <2>1
  <2>5. QED
    BY <2>3, <2>4, QuietPurge
<1>4. QED
  BY <1>1, <1>2, <1>3, HandlerMoves

\* An analysis reads what is there, and keeps it in mind while nobody else changes it.
LEMMA ReadingPurge ==
  ASSUME StoreInv, QueueInv, TypesInv, AssetsInv, NEW w \in Workers, PurgeInv(w),
         \/ LoadDocument(w) \/ PlanTasks(w) \/ EnsureMime(w) \/ MakeAsset(w)
         \/ DetermineIssuedAt(w) \/ IndexText(w) \/ \E ty \in AssetTypes : CheckAsset(w, ty)
  PROVE  PurgeInv(w)'
<1>1. /\ pc[w] = "handling" /\ UNCHANGED <<docs, assets, objects>> /\ errors' = errors
      /\ at[w] \in {"start", "plan", "task", "make"}
  BY DEF LoadDocument, PlanTasks, EnsureMime, MakeAsset, DetermineIssuedAt, IndexText, CheckAsset,
         Running, AtTask, tableVars, HandlerUnchanged
<1>2. Steady(w)
  BY HandlerSteady DEF HandlerStep
<1>3. pc \in [Workers -> Stages] /\ Doc(w) \in Documents /\ ContextOK(local[w])
  BY <1>1, AtWork, ContextAt
<1>4. errors = 0 => Abreast(w, at[w], local[w], Doc(w))
  BY DEF PurgeInv
<1>5. ASSUME NEW s, NEW c, Goto(w, s, c), errors = 0 => Abreast(w, s, c, Doc(w))
      PROVE  PurgeInv(w)'
  BY <1>1, <1>2, <1>3, <1>5, HandlerMoves, QuietPurge
<1>6. ASSUME \/ FinishRetry(w) \/ \E r : Finish(w, r)
             \/ \E c : /\ ContextOK(c) /\ NextTask(w, c)
                       /\ errors = 0 => RowExists(Doc(w)) /\ c.cache \in {None, assets[Doc(w)]}
      PROVE  PurgeInv(w)'
  BY <1>1, <1>2, <1>6, ReturnPurge
<1>7. ASSUME at[w] = "task", errors = 0
      PROVE  RowExists(Doc(w)) /\ local[w].cache \in {None, assets[Doc(w)]} /\ Cached(w) = assets[Doc(w)]
  BY <1>4, <1>7 DEF Abreast, TaskSteps, Cached
<1>8. CASE LoadDocument(w)
  <2>1. PICK m : m = [NoContext EXCEPT !.mime = mime[Doc(w)], !.dated = issued[Doc(w)] # "unset"]
    OBVIOUS
  <2>2. (RowExists(Doc(w)) /\ Goto(w, "plan", m)) \/ Finish(w, Failed)
    BY <1>8, <2>1 DEF LoadDocument
  <2>3. RowExists(Doc(w)) => Abreast(w, "plan", m, Doc(w))
    BY DEF Abreast
  <2>4. QED
    BY <2>2, <2>3, <1>5, <1>6
<1>9. CASE PlanTasks(w)
  <2>1. PICK ts : Goto(w, "task", [local[w] EXCEPT !.cache = assets[Doc(w)], !.tasks = ts])
    BY <1>9 DEF PlanTasks
  <2>2. PICK c : c = [local[w] EXCEPT !.cache = assets[Doc(w)], !.tasks = ts]
    OBVIOUS
  <2>3. c.cache = assets[Doc(w)]
    BY <1>3, <2>2 DEF ContextOK
  <2>4. at[w] = "plan"
    BY <1>9 DEF PlanTasks, Running
  <2>5. errors = 0 => Abreast(w, "task", c, Doc(w))
    BY <1>4, <2>3, <2>4 DEF Abreast
  <2>6. QED
    BY <1>5, <2>1, <2>2, <2>5
<1>10. CASE EnsureMime(w)
  <2>1. PICK c : c = [local[w] EXCEPT !.mime = Content[Doc(w)]]
    OBVIOUS
  <2>2. ContextOK(c) /\ c.cache = local[w].cache
    BY <1>3, <2>1 DEF ContextOK
  <2>3. at[w] = "task" /\ (FinishRetry(w) \/ Finish(w, Failed) \/ NextTask(w, c))
    BY <1>10, <2>1 DEF EnsureMime, AtTask, Running
  <2>4. QED
    BY <1>6, <1>7, <2>2, <2>3
<1>11. CASE MakeAsset(w)
  <2>1. PICK c : c = [local[w] EXCEPT !.bytes = TRUE]
    OBVIOUS
  <2>2. c.old = local[w].old /\ c.tasks = local[w].tasks
    BY <1>3, <2>1 DEF ContextOK
  <2>3. /\ at[w] = "make"
        /\ FinishRetry(w) \/ Finish(w, Failed) \/ Goto(w, IF local[w].old = None THEN "put" ELSE "dropObject", c)
    BY <1>11, <2>1 DEF MakeAsset, Running
  <2>4. ASSUME errors = 0
        PROVE  RowExists(Doc(w)) /\ local[w].old = assets[Doc(w)][Head(local[w].tasks)]
    BY <1>4, <2>3, <2>4 DEF Abreast, TaskSteps, MakeSteps
  <2>5. CASE local[w].old = None /\ Goto(w, "put", c)
    <3>1. errors = 0 => Abreast(w, "put", c, Doc(w))
      BY <2>2, <2>4, <2>5 DEF Abreast
    <3>2. QED
      BY <1>5, <2>5, <3>1
  <2>6. CASE local[w].old # None /\ Goto(w, "dropObject", c)
    <3>1. errors = 0 => Abreast(w, "dropObject", c, Doc(w))
      BY <2>2, <2>4, <2>6 DEF Abreast
    <3>2. QED
      BY <1>5, <2>6, <3>1
  <2>7. QED
    BY <1>6, <2>3, <2>5, <2>6
<1>12. CASE DetermineIssuedAt(w)
  <2>1. PICK x : /\ x = IF local[w].cache = None /\ ~local[w].dated THEN assets[Doc(w)] ELSE local[w].cache
                 /\ NextTask(w, [local[w] EXCEPT !.cache = x])
    BY <1>12 DEF DetermineIssuedAt
  <2>2. PICK c : c = [local[w] EXCEPT !.cache = x]
    OBVIOUS
  <2>3. x \in AssetMap \union {None}
    BY <1>3, <2>1, ContextAt DEF ContextOK
  <2>4. ContextOK(c)
    BY <1>3, <2>2, <2>3, Contexts
  <2>5. c.cache = x
    BY <1>3, <2>2 DEF ContextOK
  <2>6. at[w] = "task"
    BY <1>12 DEF DetermineIssuedAt, AtTask, Running
  <2>7. QED
    BY <1>6, <1>7, <2>1, <2>2, <2>4, <2>5, <2>6
<1>13. CASE IndexText(w)
  <2>1. at[w] = "task" /\ (FinishRetry(w) \/ Finish(w, Failed) \/ NextTask(w, local[w]))
    BY <1>13 DEF IndexText, AtTask, Running
  <2>2. QED
    BY <1>3, <1>6, <1>7, <2>1
<1>14. ASSUME NEW ty \in AssetTypes, CheckAsset(w, ty) PROVE PurgeInv(w)'
  <2>1. PICK x : x = [local[w] EXCEPT !.cache = Cached(w)]
    OBVIOUS
  <2>2. PICK y : y = [x EXCEPT !.old = Cached(w)[ty]]
    OBVIOUS
  <2>3. at[w] = "task" /\ Head(local[w].tasks) = ty /\ (NextTask(w, x) \/ Goto(w, "make", y))
    BY <1>14, <2>1, <2>2 DEF CheckAsset, AtTask, Running
  <2>4. Cached(w) \in AssetMap
    BY <1>1, CachedSeen
  <2>5. ContextOK(x)
    BY <1>3, <2>1, <2>4, Contexts
  <2>6. x.cache = Cached(w) /\ x.tasks = local[w].tasks
    BY <1>3, <2>1 DEF ContextOK
  <2>7. y.cache = Cached(w) /\ y.old = Cached(w)[ty] /\ y.tasks = local[w].tasks
    BY <2>2, <2>5, <2>6 DEF ContextOK
  <2>8. errors = 0 => Abreast(w, "make", y, Doc(w))
    BY <1>7, <2>3, <2>7 DEF Abreast
  <2>9. QED
    BY <1>5, <1>6, <1>7, <2>3, <2>5, <2>6, <2>8
<1>15. QED
  BY <1>8, <1>9, <1>10, <1>11, <1>12, <1>13, <1>14

\* The old asset's object goes.
LEMMA DropObjectPurge ==
  ASSUME StoreInv, QueueInv, TypesInv, AssetsInv, NEW w \in Workers, PurgeInv(w), DropObject(w)
  PROVE  PurgeInv(w)'
<1>1. /\ pc[w] = "handling" /\ at[w] = "dropObject" /\ Steady(w) /\ Goto(w, "dropRow", local[w])
      /\ UNCHANGED <<assets, docs, errors>> /\ objects' = objects \ {Key(Doc(w), local[w].old.key)}
  BY HandlerSteady DEF DropObject, Running, HandlerStep, HandlerUnchanged
<1>2. SUFFICES ASSUME errors = 0 PROVE PurgeInv(w)'
  BY <1>1 DEF PurgeInv, Steady
<1>3. at'[w] = "dropRow" /\ local'[w] = local[w] /\ Doc(w)' = Doc(w)
  BY <1>1, AtWork, HandlerMoves, OneMoves
<1>4. ASSUME NEW k \in objects', ~Stuck(w, k.doc) PROVE Accounted(w, k)'
  <2>1. Accounted(w, k)
    BY <1>1, <1>2, <1>4 DEF PurgeInv
  <2>2. QED
    BY <1>1, <2>1 DEF Accounted, Original, Key
<1>5. RowExists(Doc(w)) /\ local[w].old = assets[Doc(w)][Head(local[w].tasks)]
  BY <1>1, <1>2 DEF PurgeInv, Abreast, TaskSteps, MakeSteps
<1>6. Abreast(w, "dropRow", local[w], Doc(w))'
  BY <1>1, <1>3, <1>5 DEF Abreast, RowExists, Key
<1>7. Abreast(w, at[w], local[w], Doc(w))'
  BY <1>3, <1>6 DEF Abreast
<1>8. \A d : Stuck(w, d)' <=> Stuck(w, d)
  BY <1>1, AtWork, HandlerMoves, StuckStays
<1>9. QED
  BY <1>4, <1>7, <1>8 DEF PurgeInv

\* Then its row, and no other row of the document has its id.
LEMMA DropRowPurge ==
  ASSUME StoreInv, QueueInv, TypesInv, AssetsInv, NEW w \in Workers, PurgeInv(w), DropRow(w)
  PROVE  PurgeInv(w)'
<1>1. /\ pc[w] = "handling" /\ at[w] = "dropRow" /\ Steady(w) /\ Goto(w, "put", local[w])
      /\ UNCHANGED <<objects, docs, errors>>
      /\ assets' = [assets EXCEPT ![Doc(w)] = WithoutRow(assets[Doc(w)], local[w].old.id)]
  BY HandlerSteady DEF DropRow, Running, HandlerStep, HandlerUnchanged
<1>2. SUFFICES ASSUME errors = 0 PROVE PurgeInv(w)'
  BY <1>1 DEF PurgeInv, Steady
<1>3. at[w] \in MakeSteps
  BY <1>1 DEF MakeSteps
<1>4. /\ Doc(w) \in Documents /\ StepHas(at[w], local[w]) /\ assets \in [Documents -> AssetMap]
      /\ Head(local[w].tasks) \in AssetTypes
      /\ local[w].old # None => Seen(Head(local[w].tasks), local[w].old)
  BY <1>1, <1>3, MakingAt
<1>5. at'[w] = "put" /\ local'[w] = local[w] /\ Doc(w)' = Doc(w)
  BY <1>1, AtWork, HandlerMoves, OneMoves
<1>6. /\ local[w].old \in AssetRow /\ Seen(Head(local[w].tasks), local[w].old)
      /\ RowExists(Doc(w)) /\ local[w].old = assets[Doc(w)][Head(local[w].tasks)]
      /\ Key(Doc(w), local[w].old.key) \notin objects
  BY <1>1, <1>2, <1>4, RowsAreRows DEF StepHas, PurgeInv, Abreast, TaskSteps, MakeSteps
<1>7. \A d \in Documents, ty \in AssetTypes :
        /\ assets'[d][ty] # assets[d][ty] => d = Doc(w) /\ assets[d][ty].id = local[w].old.id
        /\ d = Doc(w) /\ assets[d][ty] # None /\ assets[d][ty].id = local[w].old.id => assets'[d][ty] = None
  BY <1>1, <1>4 DEF WithoutRow, AssetMap
<1>8. ASSUME NEW ty \in AssetTypes, assets[Doc(w)][ty] # None, assets[Doc(w)][ty].id = local[w].old.id
      PROVE  ty = Head(local[w].tasks)
  <2>1. assets[Doc(w)][ty] \in AssetRow /\ Seen(ty, assets[Doc(w)][ty])
    BY <1>4, <1>8 DEF AssetMap, Seen
  <2>2. QED
    BY <1>4, <1>6, <1>8, <2>1 DEF AssetsInv, IdsApart
<1>9. ASSUME NEW k \in objects', ~Stuck(w, k.doc) PROVE Accounted(w, k)'
  <2>1. Accounted(w, k) /\ k.doc \in Documents /\ k \in objects
    BY <1>1, <1>2, <1>9 DEF PurgeInv, TypesInv, TablesOK, Keys
  <2>2. CASE k = Original(k.doc)
    BY <1>1, <2>1, <2>2 DEF Accounted, Original, Key
  <2>3. ASSUME NEW ty \in AssetTypes, assets[k.doc][ty] # None, k = Key(k.doc, assets[k.doc][ty].key)
        PROVE  Accounted(w, k)'
    <3>1. assets'[k.doc][ty] = assets[k.doc][ty]
      <4>1. SUFFICES ASSUME assets'[k.doc][ty] # assets[k.doc][ty] PROVE FALSE
        OBVIOUS
      <4>2. k.doc = Doc(w) /\ assets[Doc(w)][ty].id = local[w].old.id
        BY <1>7, <2>1, <4>1
      <4>3. ty = Head(local[w].tasks)
        BY SMTT(60), <1>8, <2>3, <4>2
      <4>4. k = Key(Doc(w), local[w].old.key)
        BY <1>6, <2>3, <4>2, <4>3
      <4>5. QED
        BY <1>6, <2>1, <4>4
    <3>2. QED
      BY SMTT(60), <1>1, <2>1, <2>3, <3>1 DEF Accounted, Original, Key
  <2>4. QED
    BY <1>1, <2>1, <2>2, <2>3 DEF Accounted
<1>10. /\ assets'[Doc(w)][Head(local[w].tasks)] = None
       /\ \A ty \in AssetTypes : assets'[Doc(w)][ty] # None => assets'[Doc(w)][ty].id # local[w].old.id
  <2>1. assets'[Doc(w)][Head(local[w].tasks)] = None
    BY <1>4, <1>6, <1>7, RowsAreRows
  <2>2. ASSUME NEW ty \in AssetTypes, assets'[Doc(w)][ty] # None
        PROVE  assets'[Doc(w)][ty].id # local[w].old.id
    <3>1. ty # Head(local[w].tasks)
      BY <2>1, <2>2
    <3>2. CASE assets'[Doc(w)][ty] = assets[Doc(w)][ty]
      <4>1. assets[Doc(w)][ty].id # local[w].old.id
        BY <1>8, <2>2, <3>1, <3>2
      <4>2. QED
        BY <3>2, <4>1
    <3>3. CASE assets'[Doc(w)][ty] # assets[Doc(w)][ty]
      <4>1. assets[Doc(w)][ty].id = local[w].old.id
        BY <1>4, <1>7, <3>3
      <4>2. assets[Doc(w)][ty] = None
        BY <1>8, <3>1, <4>1
      <4>3. assets'[Doc(w)][ty] = None
        BY SMTT(60), <1>1, <1>4, <4>2 DEF WithoutRow
      <4>4. QED
        BY <2>2, <4>3
    <3>4. QED
      BY <3>2, <3>3
  <2>3. QED
    BY <2>1, <2>2
<1>11. Abreast(w, "put", local[w], Doc(w))'
  BY <1>1, <1>5, <1>6, <1>10 DEF Abreast, RowExists
<1>12. Abreast(w, at[w], local[w], Doc(w))'
  BY <1>5, <1>11 DEF Abreast
<1>13. \A d : Stuck(w, d)' <=> Stuck(w, d)
  BY <1>1, AtWork, HandlerMoves, StuckStays
<1>14. QED
  BY <1>9, <1>12, <1>13 DEF PurgeInv

\* The new object is accounted for by the row to come.
LEMMA PutPurge ==
  ASSUME StoreInv, QueueInv, TypesInv, AssetsInv, NEW w \in Workers, PurgeInv(w),
         NEW a \in AssetIds, PutAsset(w, a)
  PROVE  PurgeInv(w)'
<1>1. /\ pc[w] = "handling" /\ at[w] = "put" /\ Steady(w)
      /\ Goto(w, "persist", [local[w] EXCEPT !.new = a])
      /\ UNCHANGED <<assets, docs, errors>> /\ objects' = objects \union {Key(Doc(w), a)}
  BY HandlerSteady DEF PutAsset, Running, HandlerStep, HandlerUnchanged
<1>2. SUFFICES ASSUME errors = 0 PROVE PurgeInv(w)'
  BY <1>1 DEF PurgeInv, Steady
<1>3. PICK c : c = [local[w] EXCEPT !.new = a]
  OBVIOUS
<1>4. c.new = a /\ c.old = local[w].old /\ c.tasks = local[w].tasks
  BY <1>3, ContextAt DEF ContextOK
<1>5. at'[w] = "persist" /\ local'[w] = c /\ Doc(w)' = Doc(w)
  BY <1>1, <1>3, AtWork, HandlerMoves, OneMoves
<1>6. /\ RowExists(Doc(w)) /\ assets[Doc(w)][Head(local[w].tasks)] = None
      /\ \A ty \in AssetTypes : local[w].old # None /\ assets[Doc(w)][ty] # None
                                => assets[Doc(w)][ty].id # local[w].old.id
  BY <1>1, <1>2 DEF PurgeInv, Abreast, TaskSteps, MakeSteps
<1>7. ASSUME NEW k \in objects', ~Stuck(w, k.doc) PROVE Accounted(w, k)'
  <2>1. CASE k \in objects
    <3>1. Accounted(w, k)
      BY <1>2, <1>7, <2>1 DEF PurgeInv
    <3>2. QED
      BY <1>1, <3>1 DEF Accounted, Original, Key
  <2>2. CASE k = Key(Doc(w), a)
    <3>1. k.doc = Doc(w) /\ docs'[Doc(w)] # "gone"
      BY <1>1, <1>6, <2>2 DEF Key, RowExists
    <3>2. QED
      BY <1>4, <1>5, <2>2, <3>1 DEF Accounted, Key
  <2>3. QED
    BY <1>1, <1>7, <2>1, <2>2
<1>8. Abreast(w, "persist", c, Doc(w))'
  BY <1>1, <1>4, <1>5, <1>6 DEF Abreast, RowExists
<1>9. Abreast(w, at[w], local[w], Doc(w))'
  <2>1. \E y : y = local'[w] /\ Abreast(w, "persist", y, Doc(w))'
    BY <1>5, <1>8
  <2>2. QED
    BY <1>5, <2>1 DEF Abreast
<1>10. \A d : Stuck(w, d)' <=> Stuck(w, d)
  BY <1>1, AtWork, HandlerMoves, StuckStays
<1>11. QED
  BY <1>7, <1>9, <1>10 DEF PurgeInv

\* The row of the new asset takes over from the context.
LEMMA PersistPurge ==
  ASSUME StoreInv, QueueInv, TypesInv, AssetsInv, NEW w \in Workers, PurgeInv(w), PersistAsset(w)
  PROVE  PurgeInv(w)'
<1>1. /\ pc[w] = "handling" /\ at[w] = "persist" /\ Steady(w) /\ UNCHANGED <<objects, docs, errors>>
  BY HandlerSteady DEF PersistAsset, Running, HandlerStep, HandlerUnchanged
<1>2. SUFFICES ASSUME errors = 0 PROVE PurgeInv(w)'
  BY <1>1 DEF PurgeInv, Steady
<1>3. at[w] \in MakeSteps
  BY <1>1 DEF MakeSteps
<1>4. /\ pc \in [Workers -> Stages] /\ Doc(w) \in Documents /\ StepHas(at[w], local[w])
      /\ assets \in [Documents -> AssetMap] /\ Head(local[w].tasks) \in AssetTypes
  BY <1>1, <1>3, MakingAt
<1>5. /\ RowExists(Doc(w)) /\ assets[Doc(w)][Head(local[w].tasks)] = None
      /\ \A ty \in AssetTypes : local[w].old # None /\ assets[Doc(w)][ty] # None
                                => assets[Doc(w)][ty].id # local[w].old.id
  BY <1>1, <1>2 DEF PurgeInv, Abreast, TaskSteps, MakeSteps
<1>6. PICK ty \in AssetTypes : ty = Head(local[w].tasks)
  BY <1>4
<1>7. PICK new : new = IF ty = Thumbnail THEN PersistThumbnail(assets[Doc(w)], local[w].old, local[w].new)
                                         ELSE PersistText(assets[Doc(w)], local[w].old, local[w].new)
  OBVIOUS
<1>8. PICK m : m = [local[w] EXCEPT !.cache = None, !.old = None, !.new = None]
  OBVIOUS
<1>9. NextTask(w, m) /\ assets' = [assets EXCEPT ![Doc(w)] = new]
  BY <1>5, <1>6, <1>7, <1>8 DEF PersistAsset
<1>10. m.cache = None /\ ContextOK(m)
  BY <1>4, <1>8 DEF ContextOK, StepHas
<1>11. PICK r \in AssetRow : /\ r.key = local[w].new
                             /\ \A uy \in AssetTypes : new[uy] = IF uy = ty THEN r ELSE assets[Doc(w)][uy]
  <2>1. PICK rows, old, a : rows = assets[Doc(w)] /\ old = local[w].old /\ a = local[w].new
    OBVIOUS
  <2>2. rows \in AssetMap /\ old \in AssetRow \union {None} /\ a \in AssetIds
    BY <1>1, <1>4, <2>1 DEF StepHas, ContextOK
  <2>3. ty = Text /\ old # None /\ rows[Thumbnail] # None => rows[Thumbnail].id # old.id
    BY <1>5, <2>1 DEF AssetTypes
  <2>4. new = IF ty = Thumbnail THEN PersistThumbnail(rows, old, a) ELSE PersistText(rows, old, a)
    BY <1>7, <2>1
  <2>5. \E q \in AssetRow : q.key = a /\ \A uy \in AssetTypes : new[uy] = IF uy = ty THEN q ELSE rows[uy]
    BY <2>2, <2>3, <2>4, PersistRow
  <2>6. QED
    BY <2>1, <2>5
<1>12. \A d \in Documents, uy \in AssetTypes :
         assets'[d][uy] = IF d = Doc(w) /\ uy = ty THEN r ELSE assets[d][uy]
  BY <1>4, <1>9, <1>11
<1>13. r # None
  BY RowsAreRows
<1>14. ASSUME NEW k \in objects', ~Stuck(w, k.doc) PROVE Accounted(w, k)'
  <2>1. Accounted(w, k) /\ k.doc \in Documents
    BY <1>1, <1>2, <1>14 DEF PurgeInv, TypesInv, TablesOK, Keys
  <2>2. CASE k = Original(k.doc)
    BY <1>1, <2>1, <2>2 DEF Accounted, Original, Key
  <2>3. ASSUME NEW uy \in AssetTypes, assets[k.doc][uy] # None, k = Key(k.doc, assets[k.doc][uy].key)
        PROVE  Accounted(w, k)'
    <3>1. ~(k.doc = Doc(w) /\ uy = ty)
      BY <1>5, <1>6, <2>3
    <3>2. assets'[k.doc][uy] = assets[k.doc][uy]
      BY <1>12, <2>1, <3>1
    <3>3. QED
      BY <1>1, <2>1, <2>3, <3>2 DEF Accounted, Original, Key
  <2>4. CASE Doc(w) = k.doc /\ k = Key(k.doc, local[w].new)
    <3>1. assets'[k.doc][ty] = r
      BY <1>12, <2>1, <2>4
    <3>2. k = Key(k.doc, assets'[k.doc][ty].key)
      BY <1>11, <2>4, <3>1
    <3>3. QED
      BY <1>1, <1>13, <2>1, <3>1, <3>2 DEF Accounted, Original, Key
  <2>5. QED
    BY <2>1, <2>2, <2>3, <2>4 DEF Accounted
<1>15. Abreast(w, at[w], local[w], Doc(w))'
  <2>1. CASE Moves(w, "start", NoContext)
    <3>1. at'[w] = "start"
      BY <2>1, OneMoves
    <3>2. QED
      BY <3>1 DEF Abreast, TaskSteps, MakeSteps
  <2>2. CASE Moves(w, "task", [m EXCEPT !.tasks = Tail(@)])
    <3>1. PICK n : n = [m EXCEPT !.tasks = Tail(@)]
      OBVIOUS
    <3>2. n.cache = None
      BY <1>10, <3>1 DEF ContextOK
    <3>3. at'[w] = "task" /\ local'[w] = n /\ Doc(w)' = Doc(w)
      BY <2>2, <3>1, OneMoves
    <3>4. QED
      BY <1>1, <1>5, <3>2, <3>3 DEF Abreast, RowExists
  <2>3. QED
    BY <1>1, <1>4, <1>9, <2>1, <2>2, HandlerMoves
<1>16. \A d : Stuck(w, d)' <=> Stuck(w, d)
  BY <1>1, <1>4, <1>9, HandlerMoves, StuckStays
<1>17. QED
  BY <1>14, <1>15, <1>16 DEF PurgeInv

\* A purge lists all the objects there are of the document, deletes those on its list,
\* and removes the row when none is left.
LEMMA PurgingPurge ==
  ASSUME StoreInv, QueueInv, TypesInv, AssetsInv, NEW w \in Workers, PurgeInv(w),
         PreparePurge(w) \/ PurgeObject(w) \/ FinalizePurge(w)
  PROVE  PurgeInv(w)'
<1>1. pc[w] = "handling" /\ errors' = errors /\ at[w] \in {"start", "purge"}
  BY DEF PreparePurge, PurgeObject, FinalizePurge, Running, HandlerUnchanged
<1>2. Steady(w)
  BY HandlerSteady DEF HandlerStep
<1>3. pc \in [Workers -> Stages] /\ Doc(w) \in Documents /\ ContextOK(local[w])
      /\ assets \in [Documents -> AssetMap] /\ docs \in [Documents -> DocStates]
  BY <1>1, AtWork, ContextAt DEF StoreInv, StoreTypes
<1>4. SUFFICES ASSUME errors = 0 PROVE PurgeInv(w)'
  BY <1>1, <1>2 DEF PurgeInv, Steady
<1>5. \A k \in objects : (Stuck(w, k.doc) \/ Accounted(w, k)) /\ k.doc \in Documents
  BY <1>4 DEF PurgeInv, TypesInv, TablesOK, Keys
<1>6. CASE PreparePurge(w)
  <2>1. PICK ks : ks = {Original(Doc(w))}
                    \union {Key(Doc(w), r.key) : r \in {assets[Doc(w)][ty] : ty \in AssetTypes} \ {None}}
    OBVIOUS
  <2>2. PICK c : c = [NoContext EXCEPT !.keys = ks]
    OBVIOUS
  <2>3. /\ at[w] = "start" /\ UNCHANGED <<docs, assets, objects>>
        /\ Finish(w, Success) \/ Goto(w, "purge", c)
    BY <1>6, <2>1, <2>2 DEF PreparePurge, Running, tableVars
  <2>4. c.keys = ks
    BY <2>2, Contexts
  <2>5. ASSUME NEW k \in objects, k.doc = Doc(w), ~Stuck(w, Doc(w)) PROVE k \in ks
    <3>1. Accounted(w, k)
      BY <1>5, <2>5
    <3>2. CASE k = Original(k.doc)
      BY <2>1, <2>5, <3>2
    <3>3. ASSUME NEW ty \in AssetTypes, assets[k.doc][ty] # None, k = Key(k.doc, assets[k.doc][ty].key)
          PROVE  k \in ks
      BY <2>1, <2>5, <3>3
    <3>4. QED
      BY <2>3, <3>1, <3>2, <3>3 DEF Accounted
  <2>6. Abreast(w, "purge", c, Doc(w))
    BY <2>4, <2>5 DEF Abreast, TaskSteps, MakeSteps
  <2>7. CASE Goto(w, "purge", c)
    <3>1. Moves(w, "purge", c)
      BY <1>1, <1>3, <2>7, HandlerMoves
    <3>2. QED
      BY <1>1, <1>2, <2>3, <2>6, <3>1, QuietPurge
  <2>8. CASE Finish(w, Success)
    BY <1>1, <1>2, <2>3, <2>8, ReturnPurge
  <2>9. QED
    BY <2>3, <2>7, <2>8
<1>7. CASE PurgeObject(w)
  <2>1. PICK k \in local[w].keys : /\ objects' = objects \ {k}
                                   /\ Goto(w, "purge", [local[w] EXCEPT !.keys = @ \ {k}])
    BY <1>7 DEF PurgeObject
  <2>2. at[w] = "purge" /\ UNCHANGED <<docs, assets>>
    BY <1>7 DEF PurgeObject, Running
  <2>3. PICK c : c = [local[w] EXCEPT !.keys = local[w].keys \ {k}]
    OBVIOUS
  <2>4. c.keys = local[w].keys \ {k}
    BY <1>3, <2>3, Contexts
  <2>5. at'[w] = "purge" /\ local'[w] = c /\ Doc(w)' = Doc(w)
    BY <1>1, <1>3, <2>1, <2>3, HandlerMoves, OneMoves
  <2>6. Stuck(w, Doc(w)) \/ \A q \in objects : q.doc = Doc(w) => q \in local[w].keys
    BY <1>4, <2>2 DEF PurgeInv, Abreast
  <2>7. ASSUME NEW q \in objects', ~Stuck(w, q.doc) PROVE Accounted(w, q)'
    <3>1. Accounted(w, q)
      BY <1>5, <2>1, <2>7
    <3>2. QED
      BY <2>2, <3>1 DEF Accounted, Original, Key
  <2>8. Stuck(w, Doc(w)) \/ \A q \in objects' : q.doc = Doc(w)' => q \in local'[w].keys
    BY <2>1, <2>4, <2>5, <2>6
  <2>9. \A d : Stuck(w, d)' <=> Stuck(w, d)
    BY <1>1, <1>3, <2>1, HandlerMoves, StuckStays
  <2>10. PICK d : d = Doc(w) /\ d = Doc(w)'
    BY <2>5
  <2>11. Stuck(w, d)' \/ \A q \in objects' : q.doc = d => q \in local'[w].keys
    BY <2>8, <2>9, <2>10
  <2>12. Abreast(w, at[w], local[w], d)'
    BY <2>5, <2>11 DEF Abreast, TaskSteps, MakeSteps
  <2>13. Abreast(w, at[w], local[w], Doc(w))'
    BY <2>10, <2>12 DEF Abreast, Stuck
  <2>14. QED
    BY <2>7, <2>9, <2>13 DEF PurgeInv
<1>8. CASE FinalizePurge(w)
  <2>1. /\ at[w] = "purge" /\ local[w].keys = {} /\ Finish(w, Success) /\ objects' = objects
        /\ \/ UNCHANGED <<docs, assets>>
           \/ /\ docs' = [docs EXCEPT ![Doc(w)] = "gone"]
              /\ assets' = [assets EXCEPT ![Doc(w)] = NoAssets]
    BY <1>8 DEF FinalizePurge, Running
  <2>2. at'[w] = "start"
    BY <1>1, <1>3, <2>1, HandlerMoves, OneMoves
  <2>3. Stuck(w, Doc(w)) \/ \A k \in objects : k.doc # Doc(w)
    BY <1>4, <2>1 DEF PurgeInv, Abreast
  <2>4. ASSUME NEW k \in objects', ~Stuck(w, k.doc) PROVE Accounted(w, k)'
    <3>1. Accounted(w, k) /\ k.doc \in Documents /\ k.doc # Doc(w)
      BY <1>5, <2>1, <2>3, <2>4
    <3>2. docs'[k.doc] = docs[k.doc] /\ assets'[k.doc] = assets[k.doc]
      BY <1>3, <2>1, <3>1
    <3>3. QED
      BY <2>1, <3>1, <3>2 DEF Accounted, Original, Key
  <2>5. Abreast(w, at[w], local[w], Doc(w))'
    BY <2>2 DEF Abreast, TaskSteps, MakeSteps
  <2>6. \A d : Stuck(w, d)' <=> Stuck(w, d)
    BY <1>1, <1>3, <2>1, HandlerMoves, StuckStays
  <2>7. QED
    BY <2>4, <2>5, <2>6 DEF PurgeInv
<1>9. QED
  BY <1>6, <1>7, <1>8

\* Requests, the tick around a handler and time: new objects are the originals of documents
\* that were not there, no row goes, and the handler goes on where it was.
LEMMA AwayPurge ==
  ASSUME StoreInv, QueueInv, TypesInv, NEW w \in Workers, PurgeInv(w),
         UNCHANGED <<handlerVars, assets, errors>>, at[w] # "start" => Doc(w)' = Doc(w),
         \A d : Stuck(w, d) => Stuck(w, d)',
         \A d \in Documents : (docs'[d] = "gone" => docs[d] = "gone") /\ (RowExists(d) => RowExists(d)'),
         \A k \in objects' : k \in objects \/ \E d \in Documents : /\ k = Original(d) /\ docs[d] = "absent"
                                                                  /\ docs'[d] # "gone"
  PROVE  PurgeInv(w)'
<1>1. at' = at /\ local' = local /\ assets' = assets
  BY DEF handlerVars
<1>2. SUFFICES ASSUME errors = 0 PROVE PurgeInv(w)'
  BY DEF PurgeInv
<1>3. ASSUME NEW k \in objects', ~Stuck(w, k.doc) PROVE Accounted(w, k)'
  <2>1. CASE k \in objects
    <3>1. Accounted(w, k) /\ k.doc \in Documents
      BY <1>2, <1>3, <2>1 DEF PurgeInv, TypesInv, TablesOK, Keys
    <3>2. docs'[k.doc] # "gone"
      BY <3>1 DEF Accounted
    <3>3. at[w] = "persist" => Doc(w)' = Doc(w)
      OBVIOUS
    <3>4. QED
      BY <1>1, <3>1, <3>2, <3>3 DEF Accounted, Original, Key
  <2>2. ASSUME NEW d \in Documents, k = Original(d), docs'[d] # "gone" PROVE Accounted(w, k)'
    BY <2>2, OriginalOf DEF Accounted, Original, Key
  <2>3. QED
    BY <1>3, <2>1, <2>2
<1>4. CASE at[w] = "start"
  <2>1. Abreast(w, at[w], local[w], Doc(w))'
    BY <1>1, <1>4 DEF Abreast, TaskSteps, MakeSteps
  <2>2. QED
    BY <1>3, <2>1 DEF PurgeInv
<1>5. CASE at[w] # "start"
  <2>1. Doc(w)' = Doc(w) /\ Doc(w) \in Documents /\ WorkerOK(w)
    BY <1>5, AtWork DEF StoreInv, WorkerOK
  <2>2. Abreast(w, at[w], local[w], Doc(w))
    BY <1>2 DEF PurgeInv
  <2>3. RowExists(Doc(w)) => RowExists(Doc(w))'
    <3>1. PICK d \in Documents : d = Doc(w)
      BY <2>1
    <3>2. RowExists(d) => RowExists(d)'
      OBVIOUS
    <3>3. QED
      BY <2>1, <3>1, <3>2 DEF RowExists
  <2>4. at[w] = "dropRow" => Key(Doc(w), local[w].old.key) \notin objects'
    <3>1. SUFFICES ASSUME at[w] = "dropRow" PROVE Key(Doc(w), local[w].old.key) \notin objects'
      OBVIOUS
    <3>2. Key(Doc(w), local[w].old.key) \notin objects
      BY <2>2, <3>1 DEF Abreast
    <3>3. local[w].old.key \in AssetIds
      BY <2>1, <3>1 DEF WorkerOK, StepHas, AssetRow
    <3>4. QED
      BY <3>2, <3>3, OriginalIsNoAsset
  <2>5. at[w] = "purge" => Stuck(w, Doc(w)) \/ \A k \in objects' : k.doc = Doc(w) => k \in local[w].keys
    <3>1. SUFFICES ASSUME at[w] = "purge", ~Stuck(w, Doc(w)), NEW k \in objects', k.doc = Doc(w)
                   PROVE  k \in local[w].keys
      OBVIOUS
    <3>2. docs[Doc(w)] # "absent"
      BY <2>1, <3>1 DEF WorkerOK, PurgeOK
    <3>3. k \in objects
      BY <3>1, <3>2, OriginalOf
    <3>4. QED
      BY <2>2, <3>1, <3>3 DEF Abreast
  <2>6. Abreast(w, at[w], local[w], Doc(w))'
    <3>1. PICK d : d = Doc(w) /\ d = Doc(w)'
      BY <2>1
    <3>2. Stuck(w, d) => Stuck(w, d)'
      OBVIOUS
    <3>3. Abreast(w, at[w], local[w], d)'
      BY <1>1, <2>2, <2>3, <2>4, <2>5, <3>1, <3>2 DEF Abreast, RowExists, Key
    <3>4. QED
      BY <3>1, <3>3 DEF Abreast, RowExists, Key, Stuck
  <2>7. QED
    BY <1>3, <2>6 DEF PurgeInv
<1>6. QED
  BY <1>4, <1>5

\* The tick around a handler leaves the jobs of a dead one where they are.
LEMMA PollStuck ==
  ASSUME QueueInv, NEW w \in Workers, PollStep(w) \/ Tick \/ UNCHANGED queueVars, NEW d, Stuck(w, d)
  PROVE  Stuck(w, d)'
<1>1. PICK j \in Jobs \ {held[w]} : jobs[j].type = Analyze /\ jobs[j].doc = d /\ jobs[j].status = "processing"
  BY DEF Stuck
<1>2. /\ jobs \in [Jobs -> Row] /\ held \in [Workers -> Jobs \union {None}] /\ None \notin Jobs
      /\ pc[w] # "idle" => held[w] \in Jobs
  BY JobQueueAssumption DEF QueueInv, IInv, JobQueueTypeOK, HeldOK
<1>3. jobs'[j] = jobs[j] /\ held'[w] # j
  <2>1. CASE Tick \/ UNCHANGED queueVars
    BY <1>1, <2>1 DEF Tick, queueVars
  <2>2. ASSUME NEW i \in Jobs, LockJob(w, i) PROVE jobs'[j] = jobs[j] /\ held'[w] # j
    BY <1>1, <1>2, <2>2 DEF LockJob, Reservable, Due
  <2>3. CASE ReserveJob(w)
    BY <1>1, <1>2, <2>3 DEF ReserveJob
  <2>4. CASE MarkJob(w) \/ RetryJob(w)
    BY <1>1, <1>2, <2>4 DEF MarkJob, RetryJob, Release
  <2>5. QED
    BY <2>1, <2>2, <2>3, <2>4 DEF PollStep
<1>4. QED
  BY <1>1, <1>3 DEF Stuck

\* What a lost analysis leaves unaccounted for is an object of a document whose
\* analysis never ends.
LEMMA LossPurge ==
  ASSUME StoreInv, QueueInv, AssetsInv, NEW w \in Workers, PurgeInv(w), LoseHandler(w)
  PROVE  PurgeInv(w)'
<1>1. /\ UNCHANGED <<docs, assets, objects, errors, jobs>>
      /\ at' = [at EXCEPT ![w] = "start"] /\ held' = [held EXCEPT ![w] = None]
  BY DEF LoseHandler, LoseWorker, Release, Forget, tableVars
<1>2. at'[w] = "start" /\ held'[w] = None /\ None \notin Jobs
  BY <1>1, JobQueueAssumption DEF StoreInv, StoreTypes, QueueInv, IInv, JobQueueTypeOK
<1>3. \A d : Stuck(w, d) => Stuck(w, d)'
  BY <1>1, <1>2 DEF Stuck
<1>4. SUFFICES ASSUME errors = 0 PROVE PurgeInv(w)'
  BY <1>1 DEF PurgeInv
<1>5. ASSUME NEW k \in objects' PROVE Stuck(w, k.doc)' \/ Accounted(w, k)'
  <2>1. Stuck(w, k.doc) \/ Accounted(w, k)
    BY <1>1, <1>4, <1>5 DEF PurgeInv
  <2>2. CASE at[w] = "persist" /\ Doc(w) = k.doc
    <3>1. pc[w] = "handling" /\ jobs[held[w]].type = Analyze
      BY <2>2 DEF StoreInv, WorkerOK, AssetsInv, Remembers, TaskSteps, MakeSteps
    <3>2. held[w] \in Jobs /\ jobs[held[w]].status = "processing" /\ jobs[held[w]].doc = k.doc
      BY <2>2, <3>1, AtWork DEF Doc
    <3>3. Stuck(w, k.doc)'
      BY <1>1, <1>2, <3>1, <3>2 DEF Stuck
    <3>4. QED
      BY <3>3
  <2>3. CASE Accounted(w, k) /\ ~(at[w] = "persist" /\ Doc(w) = k.doc)
    BY <1>1, <2>3 DEF Accounted, Original, Key
  <2>4. QED
    BY <1>3, <2>1, <2>2, <2>3
<1>6. Abreast(w, at[w], local[w], Doc(w))'
  BY <1>2 DEF Abreast, TaskSteps, MakeSteps
<1>7. QED
  BY <1>5, <1>6 DEF PurgeInv

\* With one worker, every step keeps the invariant of the purges.
LEMMA PurgeKept ==
  ASSUME NEW w, Workers = {w}
  PROVE  Inv /\ TypesInv /\ AssetsInv /\ PurgeInv(w) /\ [StoreNext]_allVars => PurgeInv(w)'
<1>1. SUFFICES ASSUME Inv, TypesInv, AssetsInv, PurgeInv(w), [StoreNext]_allVars PROVE PurgeInv(w)'
  OBVIOUS
<1>2. StoreInv /\ QueueInv /\ w \in Workers
  BY <1>1 DEF Inv
<1>3. CASE Requests
  <2>1. /\ UNCHANGED <<handlerVars, assets, errors, held>>
        /\ at[w] # "start" => Doc(w)' = Doc(w)
        /\ \/ jobs' = jobs
           \/ \E j \in Jobs : jobs[j].status = "absent" /\ \A i \in Jobs \ {j} : jobs'[i] = jobs[i]
    BY <1>1, <1>2, <1>3, RequestsWrite, RequestsDo
  <2>2. \/ UNCHANGED <<docs, objects>>
        \/ \E d \in Documents :
             \/ docs[d] = "absent" /\ docs' = [docs EXCEPT ![d] = "stored"] /\ objects' = objects \union {Original(d)}
             \/ docs[d] = "stored" /\ docs' = [docs EXCEPT ![d] = "live"] /\ objects' = objects
             \/ docs[d] = "stored" /\ docs' = [docs EXCEPT ![d] = "rejected"] /\ objects' = objects
             \/ docs[d] = "live" /\ docs' = [docs EXCEPT ![d] = "trashed"] /\ objects' = objects
             \/ docs[d] \in {"live", "trashed"} /\ docs' = [docs EXCEPT ![d] = "live"] /\ objects' = objects
    BY <1>2, <1>3, RequestsWrite
  <2>3. docs \in [Documents -> DocStates]
    BY <1>2 DEF StoreInv, StoreTypes
  <2>4. \A d \in Documents : (docs'[d] = "gone" => docs[d] = "gone") /\ (RowExists(d) => RowExists(d)')
    BY <2>2, <2>3 DEF RowExists
  <2>5. \A k \in objects' : k \in objects \/ \E d \in Documents : /\ k = Original(d) /\ docs[d] = "absent"
                                                                  /\ docs'[d] # "gone"
    BY <2>2, <2>3
  <2>6. \A d : Stuck(w, d) => Stuck(w, d)'
    BY <2>1 DEF Stuck
  <2>7. QED
    BY <1>1, <1>2, <2>1, <2>4, <2>5, <2>6, AwayPurge
<1>4. ASSUME UNCHANGED storeVars, PollStep(w) \/ Tick \/ UNCHANGED queueVars PROVE PurgeInv(w)'
  <2>1. UNCHANGED <<handlerVars, assets, errors, docs, objects>>
    BY <1>4 DEF storeVars, tableVars
  <2>2. \A d : Stuck(w, d) => Stuck(w, d)'
    BY <1>2, <1>4, PollStuck
  <2>3. at[w] # "start" => Doc(w)' = Doc(w)
    BY <1>2, <1>4, PollStays
  <2>4. \A d \in Documents : (docs'[d] = "gone" => docs[d] = "gone") /\ (RowExists(d) => RowExists(d)')
    BY <2>1 DEF RowExists
  <2>5. QED
    BY <1>1, <1>2, <2>1, <2>2, <2>3, <2>4, AwayPurge
<1>5. CASE HandlerStep(w)
  <2>1. CASE \/ LoadDocument(w) \/ PlanTasks(w) \/ EnsureMime(w) \/ MakeAsset(w)
             \/ DetermineIssuedAt(w) \/ IndexText(w) \/ \E ty \in AssetTypes : CheckAsset(w, ty)
    BY <1>1, <1>2, <2>1, ReadingPurge
  <2>2. CASE DropObject(w) \/ DropRow(w) \/ PersistAsset(w) \/ \E a \in AssetIds : PutAsset(w, a)
    BY <1>1, <1>2, <2>2, DropObjectPurge, DropRowPurge, PutPurge, PersistPurge
  <2>3. CASE PreparePurge(w) \/ PurgeObject(w) \/ FinalizePurge(w)
    BY <1>1, <1>2, <2>3, PurgingPurge
  <2>4. QED
    BY <1>5, <2>1, <2>2, <2>3 DEF HandlerStep
<1>6. CASE CallFails(w)
  <2>1. errors \in Nat /\ errors' = errors + 1
    BY <1>1, <1>6 DEF CallFails, TypesInv, HistoryTyped
  <2>2. QED
    BY <2>1 DEF PurgeInv
<1>7. CASE LoseHandler(w)
  BY <1>1, <1>2, <1>7, LossPurge
<1>8. CASE UNCHANGED allVars
  BY <1>4, <1>8 DEF allVars
<1>9. QED
  BY <1>1, <1>2, <1>3, <1>4, <1>5, <1>6, <1>7, <1>8 DEF StoreNext, PollStep

\* While no call fails, one worker alone purges completely, however often it dies: when the
\* row of a document has gone and no analysis of it is left, none of its objects is,
\* whatever analyses ran before and however often the document was trashed and restored.
\* The run PurgeOrphans shows that two workers leave objects behind; so does a failed
\* deletion of an old asset's object, which is only logged.
THEOREM PurgeLeavesNothing ==
  ASSUME NEW w, Workers = {w}
  PROVE  StoreSpec => [](errors = 0 => PurgeRemovesEverything)
<1>1. StoreInit => PurgeInv(w)
  BY DEF StoreInit, PurgeInv, Abreast, TaskSteps, MakeSteps
<1>2. Inv /\ TypesInv /\ AssetsInv /\ PurgeInv(w) /\ [StoreNext]_allVars => PurgeInv(w)'
  BY PurgeKept
<1>3. PurgeInv(w) => (errors = 0 => PurgeRemovesEverything)
  <2>1. ASSUME NEW d \in Documents, Stuck(w, d) PROVE PendingAnalysis(d)
    BY <2>1 DEF Stuck, PendingAnalysis
  <2>2. QED
    BY <2>1 DEF PurgeInv, Accounted, PurgeRemovesEverything
<1>4. QED
  BY <1>1, <1>2, <1>3, StoreInvariant, TypedInvariant, AssetsInvariant, PTL DEF StoreSpec
=============================================================================
