--------------------------- MODULE ClientDocuments ---------------------------
(***************************************************************************)
(* The documents a tab of the web client shows: the cache of               *)
(* documents/DocumentsManager.ts, the folder listing of FolderContext, the *)
(* search of useDocumentsSearch, and the operations that move, trash,      *)
(* restore and purge documents, against what the server holds.             *)
(*                                                                         *)
(* A handler that awaits the server is a record of calls.  A listing is    *)
(* served once; an operation on several documents is one request for each  *)
(* (Promise.all), then for a move one more for those not in the trash.     *)
(***************************************************************************)
EXTENDS Integers, FiniteSets

CONSTANTS
    Docs,       \* documents
    Places,     \* folders, Root among them
    Root,
    Trash,      \* the node of the trash in the folder tree
    Queries,    \* search queries (text, tags, correspondents)
    None,       \* null, no query, no call
    MaxCalls,   \* bound: handlers awaiting the server at once
    MaxDocActs  \* bound: what the user does

\* What a handler that awaits the server may be doing.
DocumentOps == {"list", "refresh", "search", "trash", "delete", "restore", "purge", "move", "moveToTrash"}

ASSUME DocumentConstants ==
    /\ Root \in Places /\ Trash \notin Places /\ None \notin Queries \cup DocumentOps
    /\ MaxCalls \in Nat \ {0} /\ MaxDocActs \in Nat

VARIABLES
    stored,     \* the server: folder and state of every document
    cache,      \* DocumentsManager.byId
    screen,     \* selectedFolder, sort direction, documentIds, selection
    search,     \* query, searchResultIds, searchLoading
    calls,      \* handlers awaiting the server
    docActs     \* user actions so far

documentVars == <<stored, cache, screen, search, calls, docActs>>

-----------------------------------------------------------------------------
Nodes == Places \cup {Trash}
Orders == {"asc", "desc"}
Slot == 1..MaxCalls
NoDoc == [folder |-> Root, trashed |-> FALSE, known |-> FALSE]
Nothing == [d \in Docs |-> NoDoc]

\* What an answer tells of a document.
Told(d) == [folder |-> stored[d].folder, trashed |-> stored[d].state # "live", known |-> TRUE]

\* listFolderContents: the trash is the list of deleted documents.
Listing(f) == {d \in Docs : IF f = Trash THEN stored[d].state \in {"trashed", "purging"}
                            ELSE stored[d] = [folder |-> f, state |-> "live"]}

\* A search without a folder, or with descendants: every live document may match.
Matching == {d \in Docs : stored[d].state = "live"}

Free == [op |-> None, key |-> <<>>, docs |-> {}, todo |-> {}, bulk |-> {},
         leaves |-> {}, accepted |-> {}, to |-> None, stage |-> "free", live |-> TRUE, failed |-> FALSE,
         told |-> Nothing]
FreeCalls(cs) == {c \in Slot : cs[c].op = None}
Call(cs, q) == [cs EXCEPT ![CHOOSE c \in FreeCalls(cs) : TRUE] = q]
Done(c) == [calls EXCEPT ![c] = Free]

\* Ingesting merges what was told into the cache, document by document.
Ingest(told) == [d \in Docs |-> IF told[d].known THEN told[d] ELSE cache[d]]
Remove(ds) == [d \in Docs |-> IF d \in ds THEN NoDoc ELSE cache[d]]

\* What the panel shows: search results when there are some, else the folder.
Showing == search.results # None
ViewDocs == {d \in (IF Showing THEN search.results ELSE screen.ids) : cache[d].known}

Acts == docActs < MaxDocActs /\ docActs' = docActs + 1

-----------------------------------------------------------------------------
\* The workspace mounts at the root and asks for its contents.
ListKey(scr) == <<scr.folder, scr.order>>
NewList(op, scr) == [Free EXCEPT !.op = op, !.key = ListKey(scr), !.stage = "sent"]

DocumentsInit ==
    /\ stored \in [Docs -> {[folder |-> f, state |-> s] : f \in Places, s \in {"live", "trashed"}}]
    /\ cache = Nothing
    /\ screen = [folder |-> Root, order |-> "asc", ids |-> {}, of |-> None, sel |-> {}]
    /\ search = [query |-> None, results |-> None, of |-> None, loading |-> FALSE]
    /\ calls = Call([c \in Slot |-> Free], NewList("list", screen))
    /\ docActs = 0

\* --- effects ---------------------------------------------------------------
\* The cleanup of an effect: its listing goes stale, its search is cancelled,
\* or never sent when still in the debounce.
Stale(cs, op) ==
    [c \in Slot |-> IF cs[c].op # op THEN cs[c]
                    ELSE IF cs[c].stage = "timer" THEN Free
                    ELSE [cs[c] EXCEPT !.live = FALSE]]

SearchKey(q, scr) == <<q, scr.folder, scr.order>>

\* The search effect for the query q on the screen scr, after its cleanup.
SearchEffect(q, scr, cs) ==
    LET cancelled == Stale(cs, "search")
    IN  IF q = None
        THEN /\ search' = [query |-> None, results |-> None, of |-> None, loading |-> FALSE]
             /\ calls' = cancelled
        ELSE /\ FreeCalls(cancelled) # {}
             /\ search' = [search EXCEPT !.query = q, !.loading = TRUE]
             /\ calls' = Call(cancelled, [Free EXCEPT !.op = "search", !.key = SearchKey(q, scr),
                                                      !.stage = "timer"])

\* Selecting a folder or turning the order runs the listing effect and, after
\* it, the search effect.
Look(scr) ==
    LET listed == Stale(calls, "list")
    IN  /\ FreeCalls(listed) # {}
        /\ screen' = scr
        /\ SearchEffect(search.query, scr, Call(listed, NewList("list", scr)))

SelectFolder(f) ==
    /\ Acts /\ f # screen.folder
    /\ Look([screen EXCEPT !.folder = f])
    /\ UNCHANGED <<stored, cache>>

ToggleOrder ==
    /\ Acts
    /\ Look([screen EXCEPT !.order = IF @ = "asc" THEN "desc" ELSE "asc"])
    /\ UNCHANGED <<stored, cache>>

SetQuery(q) ==
    /\ Acts /\ q # search.query
    /\ SearchEffect(q, screen, calls)
    /\ UNCHANGED <<stored, cache, screen>>

RefetchSearch ==
    /\ Acts /\ search.query # None
    /\ SearchEffect(search.query, screen, calls)
    /\ UNCHANGED <<stored, cache, screen>>

ManualRefresh ==
    /\ Acts /\ FreeCalls(calls) # {}
    /\ calls' = Call(calls, NewList("refresh", screen))
    /\ UNCHANGED <<stored, cache, screen, search>>

DebounceElapses(c) ==
    /\ calls[c].stage = "timer"
    /\ calls' = [calls EXCEPT ![c].stage = "sent"]
    /\ UNCHANGED <<stored, cache, screen, search, docActs>>

\* --- the server answers a listing or a search --------------------------------
ServeList(c) ==
    /\ calls[c].stage = "sent" /\ calls[c].op \in {"list", "refresh", "search"}
    /\ \/ LET found == IF calls[c].op = "search" THEN Matching ELSE Listing(calls[c].key[1])
          IN calls' = [calls EXCEPT ![c].stage = "answered",
                         ![c].told = [d \in Docs |-> IF d \in found THEN Told(d) ELSE NoDoc]]
       \/ calls' = [calls EXCEPT ![c].stage = "answered", ![c].failed = TRUE]
    /\ UNCHANGED <<stored, cache, screen, search, docActs>>

FoundBy(c) == {d \in Docs : calls[c].told[d].known}

\* updateViewState: only for the folder that is selected now.
Shows(c) == calls[c].key[1] = screen.folder

\* A stale automatic answer is dropped; a manual one only by updateViewState.
Accepted(c) == ~calls[c].failed /\ (calls[c].op = "refresh" \/ calls[c].live)

SettleList(c) ==
    /\ calls[c].stage = "answered" /\ calls[c].op \in {"list", "refresh"}
    /\ IF Accepted(c) /\ Shows(c)
       THEN /\ screen' = [screen EXCEPT !.ids = FoundBy(c), !.of = calls[c].key, !.sel = @ \cap FoundBy(c)]
            /\ cache' = Ingest(calls[c].told)
       ELSE UNCHANGED <<screen, cache>>
    /\ calls' = Done(c)
    /\ UNCHANGED <<stored, search, docActs>>

\* The answer is ingested in any case; a cancelled search stops there.  The
\* first results clear the selection (useWorkspaceSelectionSync).
\* Slip: no cancelled flag.
ResultsOfAny(c) ==
    [search EXCEPT !.results = IF calls[c].failed THEN None ELSE FoundBy(c),
                   !.of = IF calls[c].failed THEN None ELSE calls[c].key, !.loading = FALSE]
Results(c) ==
    IF ~calls[c].live THEN search
    ELSE [search EXCEPT !.results = IF calls[c].failed THEN None ELSE FoundBy(c),
                        !.of = IF calls[c].failed THEN None ELSE calls[c].key,
                        !.loading = FALSE]

SettleSearch(c) ==
    /\ calls[c].stage = "answered" /\ calls[c].op = "search"
    /\ cache' = IF calls[c].failed THEN cache ELSE Ingest(calls[c].told)
    /\ search' = Results(c)
    /\ screen' = IF ~Showing /\ search'.results # None THEN [screen EXCEPT !.sel = {}] ELSE screen
    /\ calls' = Done(c)
    /\ UNCHANGED <<stored, docActs>>

SelectDocs(ds) ==
    /\ Acts /\ ds \subseteq ViewDocs /\ ds # screen.sel
    /\ screen' = [screen EXCEPT !.sel = ds]
    /\ UNCHANGED <<stored, cache, search, calls>>

\* --- operations on documents ---------------------------------------------------
\* What is asked of the server, what leaves the cache when all of it succeeds and
\* the folders a restore names are read from the cache before the first await;
\* accepted is history: the documents whose request the server has carried out.
Begin(op, ds, todo, bulk, to) ==
    /\ Acts /\ ds # {} /\ FreeCalls(calls) # {}
    /\ calls' = Call(calls, [Free EXCEPT !.op = op, !.docs = ds, !.todo = todo, !.bulk = bulk,
                                         !.leaves = todo \cup bulk, !.to = to, !.stage = "sent",
                                         !.told = IF op = "restore" THEN cache ELSE @])
    /\ UNCHANGED <<stored, cache, screen, search>>

InTrash(ds) == {d \in ds : cache[d].trashed}

TrashDocuments(ds) == ds \subseteq ViewDocs \ InTrash(Docs) /\ Begin("trash", ds, ds, {}, None)
DeleteSelection == Begin("delete", screen.sel, screen.sel, {}, None)
RestoreDocuments(ds) == ds \subseteq ViewDocs \cap InTrash(Docs) /\ Begin("restore", ds, ds, {}, None)
PurgeDocuments(ds) == ds \subseteq ViewDocs \cap InTrash(Docs) /\ Begin("purge", ds, ds, {}, None)

\* Dropped on a node of the folder tree: trashed documents are restored there,
\* the others moved; on the trash, the others are trashed.
MoveDocuments(ds, f) ==
    /\ ds \subseteq ViewDocs /\ f # screen.folder
    /\ IF f = Trash
       THEN Begin("moveToTrash", ds, ds \ InTrash(ds), {}, None)
       ELSE Begin("move", ds, InTrash(ds), ds \ InTrash(ds), f)

\* A restore names the folder dropped on or else the one the cache showed; null,
\* for the root too, leaves the choice to the server: the document's own.
RestoredTo(c, d) ==
    LET asked == IF calls[c].op = "move" THEN calls[c].to ELSE calls[c].told[d].folder
    IN  IF asked = Root THEN stored[d].folder ELSE asked

\* One request of Promise.all: it succeeds or the whole call fails.
Effect(c, d) ==
    IF calls[c].op \in {"restore", "move"}
    THEN [stored EXCEPT ![d] = [folder |-> RestoredTo(c, d), state |-> "live"]]
    ELSE [stored EXCEPT ![d].state = IF calls[c].op = "purge" THEN "purging" ELSE "trashed"]

Allowed(c, d) ==
    \/ calls[c].op \in {"restore", "move"} /\ stored[d].state # "gone"
    \/ calls[c].op = "purge" /\ stored[d].state \in {"trashed", "purging"}
    \/ calls[c].op \in {"trash", "delete", "moveToTrash"} /\ stored[d].state = "live"

ServeOne(c, d) ==
    /\ calls[c].stage = "sent" /\ d \in calls[c].todo
    /\ \/ /\ Allowed(c, d)
          /\ stored' = IF stored[d].state = "live" /\ calls[c].op \in {"restore", "move"}
                       THEN stored ELSE Effect(c, d)
          /\ calls' = [calls EXCEPT ![c].todo = @ \ {d}, ![c].accepted = @ \cup {d}]
       \/ /\ calls' = [calls EXCEPT ![c].todo = @ \ {d}, ![c].failed = TRUE]
          /\ UNCHANGED stored
    /\ UNCHANGED <<cache, screen, search, docActs>>

\* After the restores: one document moves as it is, several only if all are live.
ServeBulk(c) ==
    /\ calls[c].stage = "sent" /\ calls[c].todo = {} /\ calls[c].bulk # {} /\ ~calls[c].failed
    /\ \/ /\ Cardinality(calls[c].bulk) > 1 => \A d \in calls[c].bulk : stored[d].state = "live"
          /\ stored' = [d \in Docs |-> IF d \in calls[c].bulk THEN [stored[d] EXCEPT !.folder = calls[c].to]
                                       ELSE stored[d]]
          /\ calls' = [calls EXCEPT ![c].bulk = {}, ![c].accepted = @ \cup calls[c].bulk]
       \/ /\ calls' = [calls EXCEPT ![c].bulk = {}, ![c].failed = TRUE]
          /\ UNCHANGED stored
    /\ UNCHANGED <<cache, screen, search, docActs>>

\* The documents asked about leave the cache when every request succeeded; a move
\* also takes all that were dropped out of the selection, a deletion of the
\* selection clears it.
\* Slip: the documents leave also when a request was refused.
RemovedAnyway(c) == calls[c].leaves
Removed(c) == IF calls[c].failed THEN {} ELSE calls[c].leaves

SettleOperation(c) ==
    /\ calls[c].stage = "sent" /\ calls[c].todo = {} /\ (calls[c].bulk = {} \/ calls[c].failed)
    /\ calls[c].op \notin {"list", "refresh", "search"}
    /\ cache' = Remove(Removed(c))
    /\ screen' = IF calls[c].failed THEN screen
                 ELSE IF calls[c].op = "delete" THEN [screen EXCEPT !.sel = {}]
                 ELSE IF calls[c].op \in {"move", "moveToTrash"} THEN [screen EXCEPT !.sel = @ \ calls[c].docs]
                 ELSE screen
    /\ calls' = Done(c)
    /\ UNCHANGED <<stored, search, docActs>>

\* The purge job deletes a document that is still in the trash.
WorkerPurges(d) ==
    /\ stored[d].state = "purging"
    /\ stored' = [stored EXCEPT ![d].state = "gone"]
    /\ UNCHANGED <<cache, screen, search, calls, docActs>>

-----------------------------------------------------------------------------
DocumentsNext ==
    \/ \E f \in Nodes : SelectFolder(f)
    \/ ToggleOrder \/ RefetchSearch \/ ManualRefresh \/ DeleteSelection
    \/ \E q \in Queries \cup {None} : SetQuery(q)
    \/ \E ds \in SUBSET Docs : \/ SelectDocs(ds) \/ TrashDocuments(ds) \/ RestoreDocuments(ds)
                               \/ PurgeDocuments(ds) \/ \E f \in Nodes : MoveDocuments(ds, f)
    \/ \E c \in Slot : \/ DebounceElapses(c) \/ ServeList(c) \/ SettleList(c) \/ SettleSearch(c)
                       \/ ServeBulk(c) \/ SettleOperation(c) \/ \E d \in Docs : ServeOne(c, d)
    \/ \E d \in Docs : WorkerPurges(d)

\* Timers fire, the server answers or fails, and answers are handled.
DocumentStep(c) ==
    \/ DebounceElapses(c) \/ ServeList(c) \/ SettleList(c) \/ SettleSearch(c) \/ ServeBulk(c) \/ SettleOperation(c)
    \/ \E d \in Docs : ServeOne(c, d)
DocumentsFairness == \A c \in Slot : WF_documentVars(DocumentStep(c))

DocumentsSpec == DocumentsInit /\ [][DocumentsNext]_documentVars /\ DocumentsFairness

-----------------------------------------------------------------------------
\* The shape of the state; a selection and a listing only hold documents.
DocumentsTypeOK ==
    /\ stored \in [Docs -> [folder: Places, state: {"live", "trashed", "purging", "gone"}]]
    /\ cache \in [Docs -> [folder: Places, trashed: BOOLEAN, known: BOOLEAN]]
    /\ screen.folder \in Nodes /\ screen.ids \subseteq Docs /\ screen.sel \subseteq Docs
    /\ search.query \in Queries \cup {None}
    /\ search.results = None \/ search.results \subseteq Docs

\* However quickly the user moves between folders, with a manual refresh on the
\* way, the listing on the screen is of the folder selected, or the answer for
\* that folder is still awaited, or was refused (FolderContext.tsx:123-185).
ListingIsOfSelectedFolder ==
    [][screen'.of # screen.of => screen'.of[1] = screen'.folder]_documentVars

\* FolderContext.tsx:165-167: an automatic answer is for the folder and the
\* order in force when it is shown, so an earlier one never replaces it.
AutomaticListingIsCurrent ==
    [][\A c \in Slot : calls[c].op = "list" /\ calls'[c].op = None /\ screen'.of # screen.of
         => screen'.of = ListKey(screen')]_documentVars

\* Search results are of the query, folder and order in force once loading is
\* over: answers of earlier keystrokes are ignored (useDocumentsSearch.ts:169-235).
SearchResultsAreCurrent ==
    search.results # None /\ ~search.loading => search.of = SearchKey(search.query, screen)

\* No document leaves the cache before the server has moved, trashed, restored or
\* purged it for the call that removes it, however listings that arrive while it
\* waits change what the cache tells of it, and none does when one of several
\* requests fails (useTrashMutations.ts, useDocumentMoveMutations.ts:97-125,
\* useDocumentMutations.ts).
RemovedOnlyOnceAccepted ==
    [][\A d \in Docs : cache[d].known /\ ~cache'[d].known
         => \E c \in Slot : /\ d \in calls[c].accepted /\ ~calls[c].failed
                            /\ calls'[c].op = None]_documentVars

\* A search that started loading stops: answered, refused or replaced.
SearchEnds == search.loading ~> ~search.loading

\* What a step may never do to the documents shown: bring an answer to an earlier
\* question, or lose a document the server has not accepted to move or remove.
ListingsAreCurrent == ListingIsOfSelectedFolder /\ AutomaticListingIsCurrent /\ RemovedOnlyOnceAccepted
=============================================================================
