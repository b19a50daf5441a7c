# Papercrate: specification and verification

TLA+ models of papercrate, the TLC runs that check them, and the theorems about
them that TLAPS proves. Paths are relative to the root of the repository; the
definition-by-definition correspondence is the `map` of `PROJECT.json`.

    tlc -workers 2 -config JobQueue.cfg JobQueue           # any run below
    tlapm JobQueueProofs.tla                               # any proof module

## 1. The system

Papercrate is a multi-tenant document archive: a Rust API server, Rust worker
processes, PostgreSQL, an S3 object store, a Quickwit index, and a React client.
Everything that takes long is a row of the `jobs` table; what the user sees is
what the client has been told so far, in whatever order the answers came.

| component | state | operations | interacts with |
| --- | --- | --- | --- |
| job queue, worker loop (`backend/src/jobs.rs`, `workers/mod.rs`) | `jobs` rows: type, tenant, payload, status, `run_after` | `enqueue_job`, `enqueue_job_if_not_exists`, `reserve_job`, `mark_job_*`, `retry_job_after`, `Worker::tick` | every other component enqueues; workers call the handlers |
| documents and storage (`services/documents.rs`) | `documents`, `document_versions`, `document_assets` rows; S3 objects | upload, update, move, trash, delete, restore, reuse of equal contents | shares no transaction with S3; enqueues analyses and purges |
| analyze-document (`workers/analyze.rs`, `thumbnails.rs`, `ocr.rs`, `issued_at.rs`, `index.rs`) | a task context that caches rows | five tasks in order, each retried by retrying the job | reads and writes document rows, assets, S3, Quickwit |
| purge-document (`workers/purge.rs`) | the keys it has collected | prepare (row lock), delete objects, finalize (row lock) | races with restore and analyze |
| tenant lifecycle (`workers/tenants.rs`, `tenants.rs`, `bin/admin.rs`) | `tenants.status`, all rows of the tenant | create, provision, delete, reset | its jobs change rows other jobs depend on |
| folder tree (`services/folders.rs`) | `folders` rows: `parent_id`, `name` | create, ensure a path, move and rename, delete when empty; list with descendants | documents are in folders: upload, move, restore |
| sessions (`services/auth.rs`, `auth/`) | `user_sessions`, `magic_tokens`, pending passkey challenges | sign up, sign in, refresh, select tenant, log out | every request |
| capability sets (`auth/capability_sets.rs`, `services/capability_sets.rs`) | sets and their version | create, update, delete, assign | tokens carry the version |
| tags, correspondents | rows and assignments | CRUD, assign, replace | documents |
| row-level security (`db.rs`, `tenants.rs`) | the tenant id set on a pooled connection | scope, clear on drop | every query |
| client: session (`lib/store/appState.tsx`, `lib/api/apiClient.ts`, `app/LoginRoute.tsx`) | token, tenant, parked requests | sign in, refresh once for many requests, switch, log out | every request; other tabs by the cookie |
| client: documents (`documents/DocumentsManager.ts`, `lib/context/FolderContext.tsx`, `app/useDocumentsSearch.ts`) | cache, listing, search | list, search, move, trash, restore, purge | selection and panels read the cache |
| client: folders (`documents/FoldersManager.ts`, `documents/features/folders/`) | `byId`, the tree | create, rename, move by dragging, delete | selected folder |
| client: desk (`desktop/`) | cards, drag groups, stacking order, layouts in IndexedDB | drag with several fingers, resize, arrow keys, save and load | listing |
| client: uploads (`documents/features/upload/`) | queue, path cache | drop on the window or a folder, clear, dismiss | folders, marks of new documents |
| client: details (`viewer/components/`, `lib/assets/AssetManager.ts`) | tabs, text, forms | load, abort, edit | documents |
| client: shell (`app/PanelManagerContext.tsx`, `app/DocumentsRoute.tsx`) | viewer, address, panels, toasts | open, close, navigate, resize | all views |
| client: selection (`app/useDocumentSelection.ts`, `documents/features/selection/`) | picked rows, anchor, focus | click, range, arrows, drag | listings, searches, moves |
| client: tags, correspondents (`tags/`, `correspondents/`, `documents/interactions/`) | entries, assignments, filters | CRUD, assign to many, drag a tag | documents |
| client: settings (`settings/`) | lists, editors, busy flags | tokens, sets, members, passkeys | REST routes |
| client: PDF viewer (`viewer/PdfViewer.tsx`) | loading task, render queue | open, password, scroll | |

What is hard here is not any one function but what happens between two of its
database transactions or storage requests: several workers, several API
servers, workers that die, calls that fail and jobs that are run again. In the
client it is what happens between two turns of the event loop: handlers that
await an answer and then use what they read before, effects that start and abort
each other, answers out of order, and requests of which some are refused. The
list, with the line where each one bites, is `hazards` in `PROJECT.json`.

Correctness, component by component:

* queue: a job is executed by one worker at a time, ends once, is not starved by
  jobs that are retried, and a document has one pending purge;
* documents: a document outside the trash keeps its contents and its row; an
  asset row points at an object; what is purged leaves nothing in storage;
* tenants: a tenant that is being deleted does not come back, nothing of a
  deleted tenant stays;
* folders: parents form a forest, a folder is deleted only when it is empty,
  parents and places refer to folders that exist;
* sessions: one refresh token is valid at a time, a one-time token is used once;
* client: token, tenant and the requests made with them belong together; what is
  shown answers the question asked last, and an effect, form, slot or button
  never waits for an answer that will not come; what the client changes agrees
  with the server once all is answered.

## 2. Modules

| module | models | state ↔ code |
| --- | --- | --- |
| `JobLifecycle` | abstract: what the queue promises its callers | `status`, `claims` (who executes what) |
| `JobQueue` | `jobs.rs` and the loop of `workers/mod.rs` | `jobs`: the table; `pc`, `held`, `scope`, `result`: the locals of `tick`; `clock`; `behind` is a history variable of the retry order |
| `JobQueueProofs` | theorems on `JobQueue` | |
| `DocumentStore` | `services/documents.rs` and the analyze and purge handlers, on top of `JobQueue` | `docs`, `mime`, `issued`, `assets`: rows; `objects`: keys in S3; `indexed`: Quickwit; `at`, `local`: where a handler is and its context; `announcing`, `undeleting`: requests between two transactions; `accepted`, `restored`, `condemned`: history |
| `DocumentStoreProofs` | theorems on `DocumentStore` | |
| `DocumentAssetsProofs` | theorems on the assets, the types and the purges of `DocumentStore` | |
| `MCDocumentStore` | contents and symmetry for TLC | |
| `FolderTree` | `services/folders.rs`, and upload, move, trash and restore of `services/documents.rs` as far as folders go | `parent`, `name`: `folders` rows; `place`, `trashed`: `documents.folder_id`, `deleted_at`; `step`, `req`: the statement a session is at and what it has read |
| `MCFolderTree` | file names for TLC | |
| `FolderTreeProofs` | theorems on `FolderTree` | |

**JobQueue.** A tick is four steps, cut where another session can get in
between: `LockJob` (the `SELECT ... FOR UPDATE SKIP LOCKED`), `ReserveJob` (the
update and commit; a job without a tenant goes straight to its failure),
`Handle` (the handler returned) and `MarkJob`/`RetryJob` (the outcome). The mark
is an update by id without a look at the status, as in the code. `LoseWorker`
is a process that dies or has no connection for the outcome; the row stays
`processing` and nothing reclaims it. Callers enqueue at any time;
`EnqueueJobIfNotExists` is refused by the partial unique index over queued and
processing purges. `DetachJobs` is what `delete-tenant` does to other jobs.
Priorities, payload wording, `result` and `last_error` are left out: the code
never reads them back.

**DocumentStore.** `EXTENDS JobQueue` and splits `Handle` into the handler's
own steps, one per database transaction or storage request; each last step of a
handler is a `Handle` with its outcome, so every behaviour is one of `JobQueue`
(run `document_overlap`, property `ImplementsQueue`). A handler works on a
context it loaded earlier (`local`), which is where the races are. Requests are
split as the code splits them: `restore_document` reads, then updates by id;
`upload_document` puts the object, inserts, enqueues.

In `DocumentStore` the tags and dates that a reused upload also sets, and the
reuse of a document that is not in the trash, are left out.

Data abstraction: contents are one of three types (PDF, image, other); an OCR,
thumbnail or date algorithm is the set of its outcomes; an object key is its
document and the asset id it was made from; ids are fresh values.

**FolderTree.** PostgreSQL runs these requests at READ COMMITTED: `update_folder`
and `delete_folder` are transactions, but each of their SELECTs sees what others
have committed by then, and nothing they read is locked. So a request is a
sequence of statements (`step`), the last of which writes; what the request has
read is in `req`. `update_folder` reads the folder (`BeginUpdate`), finds the
target (`CheckTarget`), queries the children of one folder after another
(`GatherChildren`), refuses a descendant (`CheckDescendants`) and a name that is
taken (`CheckName`), and writes parent and name together (`UpdateFolder`), a
parent it was not asked to change as it read it. `delete_folder` looks for
children, then for documents, then deletes. Requests whose reads decide nothing
that a constraint does not decide again in their write (`CreateFolder`,
`AddDocument`, `MoveDocuments`) are one step. The unique indexes, foreign keys
and ON DELETE SET NULL are conditions and effects of the writes. Each segment of
`ensure_folder_path` is a `CreateFolder`: the rollback of a path that fails
half-way is left out, as are listings, which change nothing, and the removal of
rows by a purge (`DocumentStore`).

**The client's modules.** JavaScript runs a handler from one `await` to the next
without interruption, and React runs the effects of a dispatch before the next
event. So a step of these modules is a handler up to its next `await`, with its
effects; a handler under way is a record (of `reqs`, `calls`, `asks`, `tasks`,
`errands`, `loads`, `batches`) that is sent, served and settled, and records
settle in any order. The server is what it holds and what it accepts or refuses;
where its code decides something the client relies on, the definition is
translated from `backend/src`.

| module | models | state ↔ code |
| --- | --- | --- |
| `ClientSession` | reducer and effects of `appState.tsx`, interceptor of `apiClient.ts`, `LoginRoute.tsx`, tenant switching, refresh and selection in `services/auth.rs` | `app`, `header`, `login`: the tab; `reqs`: requests; `refresh`: the shared refresh; `sessions`, `cookie`: rows and the browser's cookie |
| `ClientDocuments` | `DocumentsManager`, `FolderContext`, `useDocumentsSearch`, moves and trash | `cache`, `screen`, `search`, `calls`, of an operation with the ids it will remove (`leaves`), fixed before it awaits; `stored`: the server, and `accepted`, what it has carried out |
| `ClientFolders` | `FoldersManager`, `useFolderTreeActions`, `FolderTreeContext` | `byId`, `tree`, `chosen`, `asks`; `dirs`: the server; `raced`: another change met this one |
| `ClientDesktop` | `LayoutSystem`, `CardPhysics`, `CardDragLogic`, `useCardPointer`, `DesktopWorkspace`, `db.ts` | `cards`, `counter`, `layout`, `pointers`; `kept`, `requests`: IndexedDB; `puts`: where the user put what |
| `ClientUploads` | `useDocumentUploads`, `useFileDrop`, the overlay | `queue`, `batches`, `paths`; `aimed`: what each file was dropped on |
| `ClientInfoPanel` | `DocumentInfoPanel`, `DocumentSummarySection`, `AssetManager` | `assets`, `text`, `pulls`, `edits`, `saves` |
| `ClientShell` | `PanelManagerContext`, `DocumentsRoute`, `useDocumentViewer`, preview, toasts | `viewing`, `address`, `mainStack`, widths, `timers` |
| `ClientSelection` | `useDocumentSelection`, `useDocumentsSelection`, `useWorkspaceSelectionSync`, drags | `picked`, `order`, `anchor`, `carried` |
| `ClientCatalog` | tags, correspondents, their panels, assignments, drags | `listed`, `held`, `panel`, `tasks`; `names`, `links`: the server |
| `ClientSettings` | the sections of the settings and their hooks | `shown`, `editing`, `busy`, `errands`; `stored`: the server |
| `ClientPdfViewer` | `PdfViewer.tsx` | `loads`; `status`: the loading state, with the load whose password prompt it holds; `stack`, `active`, `runs`: the render queue |
| `MCClientWorkspace`, `MCClientViewer`, `MCClientManagement`, `MCClientUploads` | compositions, and instances for TLC | `part`: which component moves |
| `ClientRequestsProofs` | theorems on `ClientSession`, `ClientDocuments` and `ClientFolders` | |
| `ClientWorkspaceProofs` | theorems on `ClientDesktop` and `MCClientWorkspace` | |
| `ClientManagementProofs` | theorems on `ClientCatalog`, `ClientSettings`, `ClientPdfViewer` and `MCClientManagement` | |
| `ClientViewerProofs` | theorems on `ClientInfoPanel`, `ClientUploads`, `ClientShell`, `ClientSelection` and `MCClientViewer` | |

The client's components share little: a tab's listings do not change how its
upload queue behaves. Where one acts on another (a listing replaces the rows a
selection refers to, a refresh swaps the token a request carries, a document
leaves the listing of the desk) that action is in the module concerned. So an
`MCClient` module runs several of them in one run, in each behaviour only one
(`part`, chosen at the start) with the others at rest; the properties of all
are checked in every state. Parts whose product with themselves is large are
looked at in groups that share no state the properties relate: the desk's
layouts and its fingers, the sections of the settings, the fields of the
details, the effects of the shell.

Left out of the client, besides presentation: in `ClientDesktop` documents held
by a pointer do not leave the listing, and places are on one line; in
`ClientSelection` the desk's selection, which has no order; in `ClientSession`
`useAuthManager`'s refresh at start, which cannot be reached.

Assumed of pdf.js, which is not in the repository: `destroy()` takes effect later than
the call, so a load that was cancelled may still call `onPassword` once, for a
request its worker had sent; the promise of a destroyed task does not resolve
any more, and a load's prompt is answered through its own callback only.

## 3. Runs

| run | question | bounds |
| --- | --- | --- |
| `queue` | safety of the queue; implements `JobLifecycle`; every queued job is taken; executions end | 2 jobs, 2 workers, 1 retry delay, `MaxClock` 2, 1 fault |
| `document_overlap` | overlapping analyses and purges with trash and restore, a worker that dies | 3 jobs, 2 workers, 3 asset ids, images, 1 fault |
| `document_sequential` | one worker; PDFs, wrong content type claims, edits | 3 jobs |
| `document_liveness` | a pending purge removes the row and the contents, whichever call fails | 2 jobs, 2 workers, 1 error |
| `folder_serial` | forest, references, deletion of empty folders only, every request answers | 3 folders, 2 names, 2 documents, requests one at a time |
| `client_workspace` | session, documents, folders, desk | 2 tenants, 3 sessions, 2 requests; 2 documents, 2 places, 2 queries, 2 calls; 2 folders; 2 cards, 2 views, 2 fingers, 2 places, 2 desks |
| `client_viewer` | shell, details, selection, uploads | 2 documents, 3 window widths, one narrow enough for the sidebar to stand alone and one where it does so only at the width the widest allows, 4 acts; 2 documents, 3 asset calls, 2 loads; listings of up to 3 rows, 2 picks, 3 listings; 2 batches of up to 2 files |
| `client_management` | tags, correspondents, settings, PDF pages | 2 documents, 1 tag, 1 correspondent, 2 tasks; 1 item of each list, 2 errands; 2 pages, 1 slot, 2 opens, 2 scrolls |
| `purge_orphans`, `folder_cycle`, `text_load`, `dropped_files` | expected violations, section 4 | small |

`WorkspaceTypeOK`, `ViewerTypeOK` and `ManagementTypeOK` are the type invariants
of the components together. The other properties of the client's runs are
conjunctions of named parts, each with its comment in its module; they say:

* `SessionIsConsistent`: the tenant shown is the token's; the first try of a
  request is made in the tenant it is for, unless a late sign-in has mounted the
  workspace that makes it (section 4); a choice of tenants is only offered without
  a token.
* `SearchResultsAreCurrent`, `WorkspaceStepsAreSound`: listings and results answer
  the question in force, and no document leaves the cache before the server has
  carried out, for that call, what removes it. Where the document then is, the
  property does not say: section 4.
* `ClientTreeIsSound`: the tree is a forest, agrees with the server when all is
  answered, has the folder shown, and lets only acceptable drops through.
* `GroupsAreSound`, `LayoutsAreSound`: cards follow one leader; the stacking order
  is strict, cards are on the desk, and a layout says where cards were put.
* `ShellIsInStep`, `PanelIsOfViewed`: viewer, address, panels and timers follow each
  other; everything in the details is of the document shown.
* `UploadsAreAccounted`, `ViewerStepsAreSound`: files are where their batch was
  aimed; a selection is of listed rows and keeps its pivot, also across moves.
* `CatalogIsConsistent`, `SettingsAreConsistent`: client and server agree once all
  is answered, but for entries two requests met over, and buttons come back.
* `SlotsAreSound`, `SourceIsLatest`: drawing slots are neither idle with pages
  waiting nor held by nobody; the loading state, the pages and the open document
  are the latest source's. The password prompt may not be (section 4).
* `WorkspaceSettles`, `ViewerSettles`, `ManagementSettles`: every request, sign-in,
  search, upload, effect and page comes to an end.

Why the bounds suffice: every hazard listed for these components takes two
workers, or one worker and a request, and at most three jobs (two analyses and a
purge, or one job retried while another is due). Two workers
cover mutual exclusion, three asset ids cover two analyses that each replace
what a third has made. `MaxClock` bounds retries, not time: the clock goes on
until the last retry is due. Deadlock is not checked, since job identifiers,
errors and clock are finite and the model stops when they are used up, and so
do the acts of the client's users (`MaxActs` and its like).
For the client two of everything is the least with which answers cross: two
requests under way, two documents or tenants they are about, two fingers, two
batches; a third act puts the user's next choice between them.
Symmetry is used in safety runs only. Three folders are the least with which a
move can go below a grandchild, so that a search that stops at the children is
caught; the theorems of section 5 hold for any number of folders.

Fairness. `FairQueueSpec` and `FairStoreSpec` assume that time passes (weakly
fair `Tick`) and that each worker's loop goes on (weakly fair worker step):
`Worker::run` is an endless loop whose database calls return or fail. Nothing
is assumed of callers or of failures. `FairFolderSpec` assumes that the
statements of a request that has begun answer, and nothing of when requests
begin. In the client the server's answers come and the handlers awaiting them go on
(weakly fair serve and settle steps), effects that are due run, an IndexedDB
transaction ends and a page is drawn or fails; nothing is assumed of the user,
except that a passkey prompt is answered or cancelled, as the browser's own
timeout does. A PDF may wait for its password for ever. `QueueProgresses` rests on the order of
`reserve_job` by `run_after` and on a bounded number of enqueued jobs.

Every property of a passing run has a mutant: a change to one mapped definition,
in the module next to it, with which TLC finds the property violated.

## 4. What the code does otherwise

* **`PurgeRemovesEverything`** with two workers (`purge_orphans`): an analysis in
  flight stores an asset after the purge collected its keys
  (`workers/purge.rs:197`), and the object outlives the document. With one worker
  the property holds (`document_sequential`), and is proved for any number of jobs
  and of worker deaths (`PurgeLeavesNothing`) as long as no call fails: when the
  object of an asset being replaced cannot be deleted, that is only logged
  (`workers/thumbnails.rs:165`), the row goes, and no purge will know of the object.
* **`Forest`** with overlapping requests (`folder_cycle`): two moves, each checked
  against the tree it read, put two folders under each other
  (`services/folders.rs:538`); a rename that writes back the parent it read does
  the same. The folders vanish from `list_folder_tree`, and
  `gather_descendant_folder_ids`, which keeps no set of visited folders, does not
  end on them.
* **`TextLoadEnds`** (`text_load`): opening the Content tab of a document whose text
  has no address yet asks for it; the answer changes the document, the panel's
  effect restarts and its cleanup aborts the load under way
  (`DocumentInfoPanel.tsx:416`). The status stays `loading`, for which the restarted
  effect does not load again.
* **`DroppedFilesLand`** (`dropped_files`): files dropped on a folder of the tree are
  also dropped on the window, whose native listener comes first
  (`useFileDrop.ts:54`): they go to the folder on the screen, and the folder they
  were dropped on answers 409.

Six more configurations show the same way what a comment or document promises, or
a reader would expect, and the code does not do; they are not among the runs of
`PROJECT.json`:

* `DetachedJobs.cfg` (of `JobQueue`): `docs/jobs.md:38` says `delete-tenant` removes
  the tenant's queued jobs; `workers/tenants.rs:356` clears their tenant, and
  workers take and fail them one by one.
* `PurgeLost.cfg` (`MCDocumentStore`): restore, trash and DELETE while the purge of
  an earlier DELETE is finishing without having done anything: the second DELETE
  is accepted (202) and absorbed by that job (`services/documents.rs:1153`).
* `RestoreRace.cfg` (`MCDocumentStore`): restore answers 204 although a purge has
  deleted the contents, or the row, in between (`services/documents.rs:1262`).
  `LiveIsNeverRemoved` does hold: the purge looks at the row again before it deletes
  it, so such a document keeps its row and loses its object.
* `FolderLoss.cfg` (`MCFolderTree`): what is put into a folder after `delete_folder`
  has looked goes to the root (`services/folders.rs:432`).
* `LateSignIn.cfg` (`ClientSession`): `LoginRoute` dispatches `LOGIN_SUCCESS` and leaves
  the default header to the effect of `AppStateProvider` (`appState.tsx:190`), which
  runs after those of its children. From the login page that is early enough:
  the page is still shown when the header is set. But a sign-up left behind by a
  refresh that signed the user in, and answered with another tenant, remounts the
  workspace on the screen (`index.tsx:120`), and the new one asks for its data with
  the earlier tenant's token. `useTenantManager.ts:57` sets the header first, for
  this reason. In the model such a request is an `orphan`, like the sign-in that
  caused it, and `RequestsCarryTheirTenant` leaves it out.
* `LatePrompt.cfg` (`ClientPdfViewer`): `onPassword` (`PdfViewer.tsx:367`) does not ask
  whether its load was cancelled. A prompt under way when another source is opened
  covers the loading or the error message of that source, or replaces its prompt,
  and the password typed into it reaches a task that is gone: a protected source
  whose own prompt was replaced stays as it is until it is opened again.

Met while reading, in single steps that no run needs: `handleTagDelete`'s
`stripTagFromDoc` strips nothing (`useTags.ts:109`); removing one correspondent from
a selection removes all of them (`useDocumentMutations.ts:370`);
the selection's menu passes folder ids to `moveDocumentsToFolder`
(`SelectionActions.tsx:355`); `docs/desktopworkspace.md` describes clicks that open
details, expand a selection to the stack and replace it, where the code
deselects, and adds the stack.

What the client does not defend itself against is a note of its hazard. The
ones a reader may stumble over: a refresh answered after a logout signs in
again, and one answered after a switch goes back to the earlier tenant
(`appState.tsx:155`); a request parked over a switch is retried with the new
tenant's token (`apiClient.ts:337`), which is why `RequestsCarryTheirTenant` speaks
of first tries only; a manual refresh of a listing may replace a newer one in
another order (`FolderContext.tsx:187`); the ids an operation removes are fixed before
its requests (`useDocumentMoveMutations.ts:99`), so a document that was trashed by a
drop leaves also the listing of the trash, if that arrived in between and shows it
there; a desk whose layout cannot be read is laid
out anew, and that is saved over the layout kept (`db.ts:116`).

## 5. Proofs

`JobQueueProofs` proves, for every set of jobs, workers, tenants, documents and
for every bound, from `JobQueueAssumption` only:

| theorem | property |
| --- | --- |
| `TypeCorrect` | `JobQueueTypeOK` |
| `Exclusion` | `ExclusiveExecution` |
| `PurgeUniqueness` | `OnePendingPurge` |
| `Finality` | `TerminalIsFinal` |
| `NoOvertakingByRetries` | `RetryYields` |
| `QueueRefinesLifecycle` | `ImplementsLifecycle` |

The inductive invariant `IInv`. `ExclusiveExecution` alone is not inductive:
nothing in it stops a worker that is between its `SELECT` and its commit from
holding a job that another one executes. `HeldOK` adds what a worker knows at
each stage of a tick (while `reserving` the job it holds is queued, while
executing it is processing, and in `marking` there is an outcome); `HeldOnce`
says that no two workers hold one job at any stage, which is the row lock and
the status filter together. `BehindOK` carries the retry order: whoever was put
back while `i` was due is due later than `i` (retry delays are positive and the
clock never goes back). `NextIInv` combines one lemma per conjunct, each with
one step per action. `Finality`, `NoOvertakingByRetries` and the refinement are
step lemmas under `IInv`: a mark changes the one row the worker holds, and that
row is processing.

`FolderTreeProofs` proves, for any folders, names and documents, from
`FolderTreeAssumption`:

| theorem | property | requests |
| --- | --- | --- |
| `FolderTypes` | `FolderTypeOK` | overlapping, any number |
| `References` | `ReferencesResolve` | overlapping, any number |
| `SerialForest` | `Forest` | one at a time (`Serial`) |
| `SerialDeletion` | `EmptyBeforeDeletion` | one at a time (`Serial`) |

`Serial` is an assumption of the last two theorems, not of the specification:
`folder_cycle` and `FolderLoss.cfg` show that both fail without it, so what is
proved is that the checks of a single request are enough by themselves. The
invariant is `SerialInv`. Its part `ReadOK` says that what a request has read is
still so, and that the folders seen so far contain every child of a folder that
has left the queue. When the queue is empty they are a closed set: nothing
outside has a parent inside. A target outside such a set is safe (`SafeMove`): if
the move made a set of folders whose parents are all in it, the part of that set
outside the closed one would have been such a set before, against `Forest`
(`UpdateForest`). Types and references need no such thing: foreign keys are
looked at in the writing step itself.

`DocumentStoreProofs` proves, for any documents, assets, jobs and workers, and
any number of failed calls and lost workers, from `JobQueueAssumption` and
`DocumentStoreAssumption`:

| theorem | property |
| --- | --- |
| `HandlersImplementQueue` | `ImplementsQueue` |
| `HandlersExclude` | `ExclusiveExecution`, `OnePendingPurge`, of `StoreSpec` |
| `ContentsAreKept` | `ContentKept` |
| `PurgesDeleteContents` | `PurgedContentIsGone` |
| `LiveIsKept` | `LiveIsNeverRemoved` |

The refinement needs no invariant: each step of a handler is `Handle` with an
outcome, or leaves the queue alone. It lets the queue's `IInv` be used here: a
handler at work holds a job that is processing, so no one inserts that row anew
and its document stays the same (`RowsKeepDocuments`). The invariant of the
contents is `StoreInv`. `ContentKept` by itself is not inductive: nothing in it
says which objects a purge may delete or that an upload's object is there before
its row. `PurgeOK` says of a purge under way that all its keys are of its own
document, which it has seen in the trash, and that the original is among them or
already deleted; `ContentsThere` begins with the put. `StepHas` says what a
replacement of an asset knows (an old row before it deletes, a new id before it
persists), so that no object it deletes is an original. `MoveKeeps` and
`NobodyMoves` do the part common to all steps: what others do does not disturb
what a handler knows.

`ClientRequestsProofs` proves of the documents, for any documents, folders and
queries and any number of handlers awaiting the server, from `DocumentConstants`:

| theorem | property |
| --- | --- |
| `DocumentsTyped` | `DocumentsTypeOK` |
| `SearchIsCurrent` | `SearchResultsAreCurrent` |
| `LoadingAwaitsAnswer` | `LoadingIsAwaited`, stated with the proof |
| `ListingFollowsSelection` | `ListingIsOfSelectedFolder` |
| `AutomaticListingFollows` | `AutomaticListingIsCurrent` |
| `RemovalIsAccepted` | `RemovedOnlyOnceAccepted` |

`DocumentInv` adds to the results on the screen what is under way: a search, or
an automatic listing, that is still live asks what is in force (`SearchesAsk`,
`ListingsAsk`), because every effect that changes the question first takes the
liveness from the earlier ones; and a search shown as loading has such a handler.
For `RemovedOnlyOnceAccepted` it says of an operation that what it will remove was
accepted or is still to be asked for (`leaves` is within `accepted`, `todo` and
`bulk`), unless it has failed; so when nothing is left to ask, all of it was.
The last three are the parts of `ListingsAreCurrent`.

`DocumentAssetsProofs` goes on from there, under the same assumptions:

| theorem | property |
| --- | --- |
| `StoreTyped` | `DocumentStoreTypeOK` |
| `AssetsSound` | `AssetsAreSound` |
| `PurgeLeavesNothing` | `PurgeRemovesEverything`, if there is one worker and no call fails |

`AssetsResolve` needs to know of each worker what it has read and how far it is
(`Remembers`): a row whose object is missing has a worker that deleted the object
and is about to delete that row, and no one else can be about to persist under
its id, because ids are fresh (`IdsApart`) and an object is put before its row
(`NewThere`). That overlapping analyses leave the asset one of them made
(`AssetsMade`) follows the tasks of a handler: past a task, the document has the
asset the task is for, and each replacement deletes only after it has seen the
row it replaces. The list of tasks is a closed form (`PlanTasks`) rather than a
filter, so that the prover can reason about it.

`PurgeLeavesNothing` rests on `PurgeInv`. Every object is accounted for
(`Accounted`): it is the original of its document, or a row points at it, or it
was put a moment ago and the one worker is about to write its row. That is so
because a handler alone at work is abreast of the rows (`Abreast`): what its
context cached is what is there, the old asset it names is the document's, its
row goes only after its object. So a purge, which lists originals and rows, lists
every object of its document, and what it has deleted nobody puts again before it
finalizes. A worker that dies in the middle of an analysis may leave an object
without a row, but its job is `processing` for ever (`Stuck`), and the property
excepts documents with an analysis pending: what `lost` jobs leave is not counted
as purged. Both hypotheses are needed, as section 4 says.

The four proof modules of the client prove, from the assumptions on the constants
of each module:

| theorem | property | for any |
| --- | --- | --- |
| `SessionTyped` | `SessionTypeOK` | tenants, sessions, requests |
| `SessionConsistent` | `SessionIsConsistent` | tenants, sessions, requests |
| `FoldersSound` | `ClientTreeIsSound` | folders, requests |
| `FolderNodesStay` | `NodesStay` (a part of `WorkspaceStepsAreSound`) | folders, requests |
| `GroupsSound` | `GroupsAreSound` | documents, desks, fingers, places |
| `LayoutsSound` | `LayoutsAreSound` | documents, desks, fingers, places |
| `CatalogTypes` | `CatalogTypeOK` | entries, documents, handlers |
| `CatalogConsistent` | `CatalogIsConsistent` | entries, documents, handlers |
| `SettingsTypes` | `SettingsTypeOK` | items, errands |
| `SettingsConsistent` | `SettingsAreConsistent` | items, errands |
| `PdfTyped` | `PdfTypeOK` | pages, slots, loads, runs |
| `SlotsSound` | `SlotsAreSound` | pages, slots, loads, runs |
| `LatestSource` | `SourceIsLatest` | pages, slots, loads, runs |
| `PanelTyped` | `PanelTypeOK` | documents, folders, calls |
| `PanelOfViewed` | `PanelIsOfViewed` | documents, folders, calls |
| `UploadsTyped` | `UploadsTypeOK` | files, batches, folders |
| `UploadsAccounted` | `UploadsAreAccounted` | files, batches, folders |
| `QueueKeepsCleared` | `ClearedItemsStayOut` (a part of `ViewerStepsAreSound`) | files, batches, folders |
| `ShellTyped` | `ShellTypeOK` | documents, folders, widths, notices |
| `ShellFollows` | `ShellIsInStep` | documents, folders, widths, notices |
| `SelectionTyped` | `SelectionTypeOK` | rows, listings of any length |
| `SelectionSound` | `SelectionIsSound` (a part of `ViewerStepsAreSound`) | rows, listings of any length |
| `WorkspaceTyped`, `WorkspaceSound`, `WorkspaceStepsSound` | every safety property of `client_workspace`, of the composition | |
| `ManagementTyped`, `ManagementSound` | every safety property of `client_management`, of the composition | |
| `ViewerTyped`, `ViewerSound`, `ViewerStepsSound` | every safety property of `client_viewer`, of the composition | |

* *Session* (`SessionIInv`). The token shown, the token of the header and the one
  in the cookie are of sessions the server issued, and each request and the
  shared refresh carry what was in force when they were sent. So what a late
  answer installs is consistent in itself, whichever tab state it meets. A request
  made by a workspace that mounts carries the token just installed, except one that
  a late sign-in mounts (`CommitBy`): of that one only the issue of its token is known.
* *Folders* (`FoldersIInv`). Client and server each hang together: every folder that
  is there is reached from the root (`HangsTogether`, `Reached`), which is stated
  as the least set closed under children (`Within`) and needs no path. What an
  answer under way may still do to the tree is known from its request: as long as
  no two requests met (`raced`), the server's folders are the client's, changed by
  exactly the requests that were served and not yet settled (`UnracedInv`). A drop
  the client accepted is one the server accepts when it is served, because until
  then the subtrees concerned are the same on both sides (`AcceptedIn`).
* *Desk* (`DeskIInv`). Of the groups: a card that follows has a leader that has it
  among its followers, a leader's document is in the listing, and unless a finger was
  lifted off a card that it drags still, a follower has no finger of its own and
  is no leader (`GroupInv`). Of the layouts: a read under way is the last request
  and nothing was placed since (`LoadInv`); each place kept, on its way to be kept,
  or shown is one where the user put that document (`PlaceInv`); and no two
  documents of a view have one height, wherever the height is written
  (`HeightInv`): a card raised is above all that `counter` has seen, and `counter` is
  reset only with the cards, and raised above every layout that is loaded.
* *Tags and correspondents, settings* (`CatalogIInv`, `SettingsIInv`). While
  handlers wait, client and server differ. `EntriesInv`, `LinksInv` and `ListsInv`
  say by how much: what an answer still to be applied says of an item is so at
  the server, and an item no such answer is about is already what the list
  shows; items two requests met over are exempt (`dirty`, `muddled`), and
  `MeetingsAreDirty`, `CrossingsAreMuddled` say that any two handlers under way
  over one item have made it so. A button that is off has a handler that frees
  it (`ButtonsWait`, `FlagsWait`).
* *PDF viewer* (`PdfIInv`). Every load but the last is cancelled, and only the last
  is open (`LatestOnly`). A step of a cancelled load leaves kind and load of the
  loading state alone: it may only bring up its prompt (`StageKeepsLoads`). Requests for slots, pages with a slot and pages that
  asked are apart, and a page with a slot has exactly one run, which owns its
  canvas (`Slots`, `Owned`): this makes the count of slots inductive. Serving the
  queue is a closed form (`Served`), equal to the loop of the code: the last
  requests are served, as many as there are slots.
* *Details* (`PanelIInv`). A key of the `AssetManager` is of a call for that
  document (`AssetsOK`); the load of text that is heard is the one `running`, and
  it is of the document on display; the lookup of a folder's name that is heard
  is of its folder; a form that is saving has its request.
* *Uploads* (`UploadsIInv`). Of a batch: what it sends goes where its current file
  belongs, and only files it is past have landed (`BatchOK`). The cache maps a
  key to the place below that key's folder or to nothing (`PathsInv`), so it may
  be cleared by another batch at any time. Batches start in order, so a drop on
  a node finds the next one idle.
* *Selection* (`SelectionIInv`). What is picked is in the order of picking,
  and neither holds a row twice; folders come before documents in a listing; while
  results are shown, no folder is picked unless the effect that clears it is due. The
  filters of the code are a closed form here (`Among`, `Deduped`: the n-th row kept
  is the one with n kept rows up to it), for which `AmongFacts` gives range, order
  and absence of repetition.
* *Shell* (`ShellIInv`). The stack is the one of the document viewed when its
  effect last ran; the folder last routed to is the selected one, unless an
  effect is due or the address was just made to follow (`RouteInv`); what the
  overlay does not yet show has the timer that corrects it; notices are in the
  order they came, so pushing out the first never takes another's timer.

What the proofs found about the models. `SidebarGivesWay`, as it was stated first,
held in the run's widths and is false beyond them: `handlePanelLayoutChange`
compares the widths from before `clampPanelsWithinViewport` fits the panels
(`PanelManagerContext.tsx:138`). If a window was narrowed until the sidebar
stood alone in it, and with that the preferred width went back to the default,
opening the details takes the sidebar away although the fitted panels leave the
list its quarter. The property now speaks of widths that were not refitted since
the room was looked at, the run has widths at which this happens, and the case
is a hazard. `PanelAfter` of `ClientCatalog` had two arms of a CASE that overlap,
which TLC never evaluates together. `UploadConstants` needed that the mark of an
absent item is none of the statuses, `ShellConstants` that null is no panel.

The client's folders: with ids the server may give out again, a folder deleted and
created again, below a node that the client still has below the earlier one, closes
a circle in the client's tree. That takes three folders, so the run never met it.
The server's ids are fresh UUIDs, hence the history variable `given` and the guard
of `CreateFolder`.

The desk: `GroupsAreSound`, as it was stated first, held in the run only because its
users act twice. A card has one pointer state, and a second finger that presses a
card being dragged sets it back to `click` (`useCardPointer.ts:20`); when the first
finger is lifted the code sees a click, and the drag is not ended. The card keeps a
finger that is gone, its loop never rests, and with the finger's identifier in use
again it may join another card's group while it counts as dragged. The history
variable `lifted` says that this has happened on a desk, and the last conjunct of
the property speaks of desks where it has not.

The session and the PDF viewer: as they were modelled first, a sign-in set the header
before it dispatched and a cancelled load asked for no password, and the properties
held for all requests and all prompts. Neither is in the code; the properties now
name their exceptions, and section 4 has the two configurations that show them.

What needs induction over data was put in a form that does not: closed forms
instead of folds for the followers that join a drag, the subtree of a folder (the
least set closed under children), the rows a filter keeps and the pages a turn of
the render queue serves. Where an argument by induction remains it is one about a
least element, which every set of naturals has (`LeastExists`).

These are about `DocumentsSpec`, `StoreSpec`, `SessionSpec` and so on themselves,
and about the compositions; the runs check the same definitions on the instances
of section 3. A composition's invariant is the conjunction of its parts': a step is
a step of one part and leaves the variables of the others alone (`WorkspaceSteps`,
`ManagementSteps`, `ViewerSteps`).

Model-checked only: the liveness properties (`QueueProgresses`, `PurgeHappens`,
`WorkspaceSettles` and the others under fairness), since fairness and ENABLED are
outside the prover's reach. Every safety property that a passing run checks has
a theorem.

## 6. Not modelled

* Tenant lifecycle on the server: provisioning decides on a status it read
  before its transaction, deletion has no transaction over storage, index and
  rows. Next: `TenantLifecycle`, on top of the queue.
* Use counts of magic tokens, passkey challenges, versions of capability sets,
  the tenant setting of a pooled connection: next, `ServerSessions` and
  `ScopedConnections`.
* Two uploads of equal contents, the rollback of `ensure_folder_path`,
  reassignment of tags and correspondents on the server.
* In the client: paging, zoom and text layers of the PDF viewer, menus, styling,
  breadcrumbs, icons and colours, which keep no state beyond an event.
* OpenAPI and routes (shapes only), WebDAV (maps verbs to the services above),
  date recognition and thumbnail rendering (pure computation on text and
  pixels), deployment files.

Worth having next: `TenantLifecycle` with the proof that a deleted tenant stays
deleted once its jobs are done, and `ServerSessions`, whose counts of uses are
decided by a single statement, so that uniqueness should be inductive as it
stands. For the liveness properties the steps of a measure could be proved
(each fair step brings an outcome nearer), though not that they add up.
