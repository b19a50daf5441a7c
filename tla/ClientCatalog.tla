---------------------------- MODULE ClientCatalog ----------------------------
(***************************************************************************)
(* Tags and correspondents in the web client: TagManager and               *)
(* CorrespondentManager, their panels, and the operations that assign them *)
(* to documents (one by one, by name, from the selection's menu, by        *)
(* dragging a tag), against the entries and links the server holds.        *)
(*                                                                         *)
(* A handler is a task: its request, and the requests it still makes when  *)
(* that one is answered.                                                   *)
(***************************************************************************)
EXTENDS Integers, Sequences, FiniteSets

CONSTANTS
    Papers,         \* documents, all in the cache
    Tags,
    Correspondents,
    Nobody,         \* no entry, no panel
    MaxTasks,       \* bound: handlers awaiting the server at once
    MaxCatalogActs  \* bound: user actions

ASSUME CatalogConstants ==
    /\ Tags \cap Correspondents = {} /\ Nobody \notin Tags \cup Correspondents
    /\ MaxTasks \in Nat \ {0} /\ MaxCatalogActs \in Nat

VARIABLES
    names,      \* the server's entries: none yet, their first name, another, deleted
    links,      \* the server's assignments
    listed,     \* byId of both managers
    held,       \* tags and correspondents of the cached documents
    filters,    \* activeTagFilters
    tasks,      \* handlers awaiting the server
    panel,      \* the management modal
    drops,      \* tagTransfer: pendingActions and actionResults
    dirty,      \* history: entries and assignments two calls met over
    catalogActs

catalogVars == <<names, links, listed, held, filters, tasks, panel, drops, dirty, catalogActs>>

-----------------------------------------------------------------------------
Entries == Tags \cup Correspondents
Kind(i) == IF i \in Tags THEN Tags ELSE Correspondents
TaskIds == 1..MaxTasks
Existing(n) == {i \in Entries : n[i] \in {"old", "new"}}
\* The entry of a listing: one that was deleted is not in it.
Seen(n) == [i \in Entries |-> IF n[i] = "gone" THEN "none" ELSE n[i]]
Pairs(ds, is) == ds \X is
LinksOf(l, d) == {i \in Entries : <<d, i>> \in l}

NothingTold == [names |-> [i \in Entries |-> "none"], links |-> {}]
Resting == [op |-> "none", items |-> {}, docs |-> {}, stage |-> "free", ok |-> TRUE, told |-> NothingTold,
            then |-> <<>>, via |-> "document", edited |-> Nobody]
Task(op, is, ds) == [Resting EXCEPT !.op = op, !.items = is, !.docs = ds, !.stage = "sent"]
FreeTasks == {c \in TaskIds : tasks[c].op = "none"}
NextFree == CHOOSE c \in FreeTasks : \A e \in FreeTasks : c <= e

\* What an answer writes in the client, and what a request changes on the server.
WritesEntries(q) == IF q.op = "title" THEN Entries
                    ELSE IF q.op \in {"list", "create", "rename", "delete"} THEN q.items ELSE {}
ChangesEntries(q) == IF q.op \in {"create", "rename", "delete"} THEN q.items ELSE {}
WritesLinks(q) == IF q.op = "title" THEN Pairs(q.docs, Entries)
                  ELSE IF q.op = "delete" THEN Pairs(Papers, q.items)
                  ELSE IF q.op \in {"link", "unlink"} THEN Pairs(q.docs, q.items) ELSE {}
ChangesLinks(q) == IF q.op = "title" THEN {} ELSE WritesLinks(q)

Met(q, e) ==
    (WritesEntries(q) \cap ChangesEntries(e)) \cup (WritesEntries(e) \cap ChangesEntries(q))
      \cup (WritesLinks(q) \cap ChangesLinks(e)) \cup (WritesLinks(e) \cap ChangesLinks(q))
Dirtied(q, others) == dirty \cup UNION {Met(q, tasks[e]) : e \in others}

Start(q) ==
    /\ FreeTasks # {} /\ catalogActs < MaxCatalogActs
    /\ catalogActs' = catalogActs + 1
    /\ tasks' = [tasks EXCEPT ![NextFree] = q]
    /\ dirty' = Dirtied(q, TaskIds)

Act == catalogActs < MaxCatalogActs /\ catalogActs' = catalogActs + 1

-----------------------------------------------------------------------------
ClosedPanel == [open |-> "none", editing |-> Nobody, saving |-> FALSE, creating |-> FALSE, deleting |-> Nobody]
EditOver(p) == [p EXCEPT !.editing = Nobody, !.saving = FALSE]

CatalogInit ==
    /\ names \in [Entries -> {"none", "old"}]
    /\ links \in SUBSET Pairs(Papers, Existing(names))
    /\ listed = names /\ held = links
    /\ filters \in SUBSET (Tags \cap Existing(names))
    /\ tasks = [c \in TaskIds |-> Resting]
    /\ \E which \in {"none", "tags", "correspondents"} : panel = [ClosedPanel EXCEPT !.open = which]
    /\ drops = [pending |-> 0, results |-> {}]
    /\ dirty = {} /\ catalogActs = 0

\* --- the panels -------------------------------------------------------------------
PanelKind == IF panel.open = "tags" THEN Tags ELSE IF panel.open = "correspondents" THEN Correspondents ELSE {}
Rows == PanelKind \cap Existing(listed)
FromPanel(q) == [q EXCEPT !.via = "panel", !.edited = panel.editing]

OpenPanel(which) ==
    /\ Act /\ panel.open = "none"
    /\ panel' = [ClosedPanel EXCEPT !.open = which]
    /\ UNCHANGED <<names, links, listed, held, filters, tasks, drops, dirty>>

\* Closing, also by Escape or a navigation, unmounts the panel: its handlers
\* set no state any more.
ClosePanel ==
    /\ Act /\ panel.open # "none"
    /\ panel' = ClosedPanel
    /\ tasks' = [c \in TaskIds |-> IF tasks[c].via = "panel" THEN [tasks[c] EXCEPT !.via = "document"] ELSE tasks[c]]
    /\ UNCHANGED <<names, links, listed, held, filters, drops, dirty>>

StartEdit(i) ==
    /\ i \in Rows /\ panel.editing # i /\ panel.deleting # i
    /\ panel' = [panel EXCEPT !.editing = i]
    /\ UNCHANGED <<names, links, listed, held, filters, tasks, drops, dirty, catalogActs>>

CancelEdit ==
    /\ panel.editing # Nobody /\ ~panel.saving
    /\ panel' = EditOver(panel)
    /\ UNCHANGED <<names, links, listed, held, filters, tasks, drops, dirty, catalogActs>>

\* handleSave; the correspondents' editor is not held back by a deletion.
SaveEdit ==
    /\ panel.editing \in Rows /\ ~panel.saving
    /\ panel.editing \in Tags => panel.deleting # panel.editing
    /\ Start(FromPanel(Task("rename", {panel.editing}, {})))
    /\ panel' = [panel EXCEPT !.saving = TRUE]
    /\ UNCHANGED <<names, links, listed, held, filters, drops>>

\* handleDelete: tags can be deleted while they are edited.
DeleteEntry(i) ==
    /\ i \in Rows /\ panel.deleting # i
    /\ i \in Correspondents => panel.editing # i
    /\ Start(FromPanel(Task("delete", {i}, {})))
    /\ panel' = [panel EXCEPT !.deleting = i]
    /\ UNCHANGED <<names, links, listed, held, filters, drops>>

CreateEntry(i) ==
    /\ i \in PanelKind \ Existing(listed) /\ names[i] = "none" /\ ~panel.creating
    /\ Start(FromPanel(Task("create", {i}, {})))
    /\ panel' = [panel EXCEPT !.creating = TRUE]
    /\ UNCHANGED <<names, links, listed, held, filters, drops>>

Refresh(kind) ==
    /\ Start(Task("list", kind, {}))
    /\ UNCHANGED <<names, links, listed, held, filters, panel, drops>>
RefreshTags == Refresh(Tags)
RefreshCorrespondents == Refresh(Correspondents)

FilterByTag(i) ==
    /\ Act /\ i \in Tags \cap Existing(listed)
    /\ filters' = (filters \ {i}) \cup ({i} \ filters)
    /\ UNCHANGED <<names, links, listed, held, tasks, panel, drops, dirty>>

\* --- documents ----------------------------------------------------------------------
Quietly == UNCHANGED <<names, links, listed, held, filters, panel, drops>>

\* By name: a known tag is assigned; another is created, the tags are listed
\* again, and then it is assigned.
AddTag(d, i) ==
    /\ i \in Tags
    /\ IF i \in Existing(listed) THEN Start(Task("link", {i}, {d}))
       ELSE /\ names[i] = "none"
            /\ Start([Task("create", {i}, {}) EXCEPT !.then = <<Task("list", Tags, {}), Task("link", {i}, {d})>>])
    /\ Quietly
AddCorrespondent(d, i) ==
    /\ i \in Correspondents
    /\ IF i \in Existing(listed) THEN Start(Task("link", {i}, {d}))
       ELSE /\ names[i] = "none"
            /\ Start([Task("create", {i}, {}) EXCEPT !.then = <<Task("link", {i}, {d})>>])
    /\ Quietly
DetachTag(d, i) ==
    i \in Tags /\ <<d, i>> \in held /\ Start(Task("unlink", {i}, {d})) /\ Quietly
DetachCorrespondent(d, i) ==
    i \in Correspondents /\ <<d, i>> \in held /\ Start(Task("unlink", {i}, {d})) /\ Quietly

\* updateFields: the answer is the whole document.
UpdateFields(d) == Start(Task("title", {}, {d})) /\ Quietly

\* The selection's menu: an entry all documents have is taken from them, any
\* other is added to all.
OnAll(ds, i) == \A d \in ds : <<d, i>> \in held
ToggleTag(ds, i) ==
    /\ ds # {} /\ i \in Tags \cap Existing(listed)
    /\ Start(Task(IF OnAll(ds, i) THEN "unlink" ELSE "link", {i}, ds))
    /\ Quietly
\* Taking away one correspondent takes away all those of the documents.
CorrespondentsOf(ds) == {i \in Correspondents : \E d \in ds : <<d, i>> \in held}
ToggleCorrespondent(ds, i) ==
    /\ ds # {} /\ i \in Correspondents \cap Existing(listed)
    /\ Start(IF OnAll(ds, i) THEN Task("unlink", CorrespondentsOf(ds), ds) ELSE Task("link", {i}, ds))
    /\ Quietly

\* --- dragging a tag -------------------------------------------------------------------
ByDrag(q) == [q EXCEPT !.via = "drag"]

\* From a document to another without it: two handlers start, one to assign
\* it there and one to take it away here.
MoveTag(d, e, i) ==
    /\ i \in Tags /\ <<d, i>> \in held /\ <<e, i>> \notin held /\ Cardinality(FreeTasks) > 1
    /\ LET c == NextFree
           b == CHOOSE f \in FreeTasks \ {c} : TRUE
           attach == ByDrag(Task("link", {i}, {e}))
           detach == ByDrag(Task("unlink", {i}, {d}))
       IN  /\ tasks' = [tasks EXCEPT ![c] = attach, ![b] = detach]
           /\ dirty' = Dirtied(attach, TaskIds) \cup Dirtied(detach, TaskIds)
    /\ Act
    /\ drops' = [drops EXCEPT !.pending = @ + 2]
    /\ UNCHANGED <<names, links, listed, held, filters, panel>>

\* From the sidebar, or with Alt: only assigned.
CopyTag(e, i) ==
    /\ i \in Tags \cap Existing(listed) /\ <<e, i>> \notin held
    /\ Start(ByDrag(Task("link", {i}, {e})))
    /\ drops' = [drops EXCEPT !.pending = @ + 1]
    /\ UNCHANGED <<names, links, listed, held, filters, panel>>

\* processResults, 50 ms after a handler finished: nothing while others run.
ReportDrops ==
    /\ drops.pending = 0 /\ drops.results # {}
    /\ drops' = [drops EXCEPT !.results = {}]
    /\ UNCHANGED <<names, links, listed, held, filters, tasks, panel, dirty, catalogActs>>

\* --- the server ------------------------------------------------------------------------
Feasible(q) ==
    CASE q.op = "create" -> \A i \in q.items : names[i] = "none"
      [] q.op \in {"rename", "delete", "link"} -> q.items \subseteq Existing(names)
      [] OTHER -> TRUE
ServeTask(c) ==
    LET q == tasks[c]
    IN  /\ q.stage = "sent"
        /\ \/ /\ Feasible(q)
              /\ names' = [i \in Entries |-> IF i \notin ChangesEntries(q) THEN names[i]
                                             ELSE IF q.op = "create" THEN "old"
                                             ELSE IF q.op = "rename" THEN "new" ELSE "gone"]
              /\ links' = IF q.op = "link" THEN links \cup ChangesLinks(q) ELSE links \ ChangesLinks(q)
              /\ tasks' = [tasks EXCEPT ![c].stage = "answered",
                             ![c].told = IF q.op \in {"list", "title"} THEN [names |-> Seen(names), links |-> links] ELSE @]
           \/ /\ tasks' = [tasks EXCEPT ![c].stage = "answered", ![c].ok = FALSE]
              /\ UNCHANGED <<names, links>>
        /\ UNCHANGED <<listed, held, filters, panel, drops, dirty, catalogActs>>

\* --- the handlers resume -----------------------------------------------------------------
ListedAfter(q) ==
    CASE q.op = "list"   -> [i \in Entries |-> IF i \in q.items THEN q.told.names[i] ELSE listed[i]]
      [] q.op = "create" -> [i \in Entries |-> IF i \in q.items THEN "old" ELSE listed[i]]
      [] q.op = "rename" -> [i \in Entries |-> IF i \in q.items /\ listed[i] # "none" THEN "new" ELSE listed[i]]
      [] q.op = "delete" -> [i \in Entries |-> IF i \in q.items THEN "none" ELSE listed[i]]
      [] q.op = "title"  -> [i \in Entries |-> IF \E d \in q.docs : <<d, i>> \in q.told.links THEN q.told.names[i]
                                               ELSE listed[i]]
      [] OTHER           -> listed

\* Slip: the answer to one assignment is laid over what the document had.
HeldReplaced(q) ==
    CASE q.op = "link" -> (held \ Pairs(q.docs, Entries)) \cup Pairs(q.docs, q.items)
      [] q.op = "unlink" -> held \ Pairs(q.docs, q.items)
      [] q.op = "delete" -> held \ Pairs(Papers, q.items \ Tags)
      [] OTHER -> held
\* The stripping of a deleted tag compares the ids a document holds with the id
\* of a tag object, and leaves them; that of a correspondent works.
HeldAfter(q) ==
    CASE q.op = "link"   -> held \cup Pairs(q.docs, q.items)
      [] q.op = "unlink" -> held \ Pairs(q.docs, q.items)
      [] q.op = "delete" -> held \ Pairs(Papers, q.items \ Tags)
      [] q.op = "title"  -> (held \ Pairs(q.docs, Entries)) \cup (q.told.links \cap Pairs(q.docs, Entries))
      [] OTHER           -> held

FiltersAfter(q) == IF q.op = "delete" THEN filters \ q.items ELSE filters

\* The panel's handlers: what a success closes, and what comes back either way.
PanelAfter(q) ==
    IF q.via # "panel" THEN panel
    ELSE CASE q.op = "create" -> [panel EXCEPT !.creating = FALSE]
           [] q.op = "rename" -> IF q.ok THEN EditOver(panel) ELSE [panel EXCEPT !.saving = FALSE]
           [] q.op = "delete" -> [(IF q.ok /\ q.edited \in q.items THEN EditOver(panel) ELSE panel)
                                    EXCEPT !.deleting = Nobody]
           [] OTHER -> panel

\* finishAction, after a success as after a failure.
DropsAfter(q) ==
    IF q.via = "drag" THEN [pending |-> drops.pending - 1, results |-> drops.results \cup {q.op}] ELSE drops

\* A failed request ends its handler, but for a listing, whose failure is only
\* logged; a rename of an entry the manager lost lists the entries again.
Remaining(q) ==
    IF ~q.ok /\ q.op # "list" THEN <<>>
    ELSE IF q.op = "rename" /\ \E i \in q.items : listed[i] = "none"
    THEN <<Task("list", Kind(CHOOSE i \in q.items : TRUE), {})>>
    ELSE q.then

SettleTask(c) ==
    LET q == tasks[c]
        rest == Remaining(q)
        next == IF rest = <<>> THEN Resting ELSE [Head(rest) EXCEPT !.then = Tail(rest)]
    IN  /\ q.stage = "answered"
        /\ listed' = IF q.ok THEN ListedAfter(q) ELSE listed
        /\ held' = IF q.ok THEN HeldAfter(q) ELSE held
        /\ filters' = IF q.ok THEN FiltersAfter(q) ELSE filters
        /\ panel' = PanelAfter(q)
        /\ drops' = DropsAfter(q)
        /\ tasks' = [tasks EXCEPT ![c] = next]
        /\ dirty' = IF next.op = "none" THEN dirty ELSE Dirtied(next, TaskIds \ {c})
        /\ UNCHANGED <<names, links, catalogActs>>

-----------------------------------------------------------------------------
CatalogNext ==
    \/ \E which \in {"tags", "correspondents"} : OpenPanel(which)
    \/ ClosePanel \/ CancelEdit \/ SaveEdit \/ RefreshTags \/ RefreshCorrespondents \/ ReportDrops
    \/ \E i \in Entries : StartEdit(i) \/ DeleteEntry(i) \/ CreateEntry(i) \/ FilterByTag(i)
    \/ \E d \in Papers : UpdateFields(d)
    \/ \E d \in Papers, i \in Entries : \/ AddTag(d, i) \/ AddCorrespondent(d, i) \/ DetachTag(d, i)
                                        \/ DetachCorrespondent(d, i) \/ CopyTag(d, i)
                                        \/ \E e \in Papers \ {d} : MoveTag(d, e, i)
    \/ \E ds \in SUBSET Papers, i \in Entries : ToggleTag(ds, i) \/ ToggleCorrespondent(ds, i)
    \/ \E c \in TaskIds : ServeTask(c) \/ SettleTask(c)

\* Requests are answered, and timers fire.
CatalogFairness ==
    /\ WF_catalogVars(ReportDrops)
    /\ \A c \in TaskIds : WF_catalogVars(ServeTask(c) \/ SettleTask(c))

CatalogSpec == CatalogInit /\ [][CatalogNext]_catalogVars /\ CatalogFairness

-----------------------------------------------------------------------------
Quiet == \A c \in TaskIds : tasks[c].op = "none"

\* The shape of the state; an editor edits an entry of the panel that is open
\* (TagsPanel.tsx:25-46).
CatalogTypeOK ==
    /\ names \in [Entries -> {"none", "old", "new", "gone"}] /\ listed \in [Entries -> {"none", "old", "new"}]
    /\ links \subseteq Pairs(Papers, Entries) /\ held \subseteq Pairs(Papers, Entries)
    /\ filters \subseteq Tags
    /\ drops.pending \in Nat
    /\ panel.editing \in PanelKind \cup {Nobody} /\ panel.deleting \in PanelKind \cup {Nobody}

\* Once all is answered the client's entries and the server's agree, but for
\* those two calls met over: chained creations and renames, and whole documents
\* that bring their tags along, included (TagManager.ts:49-142).
EntriesAgree == Quiet => \A i \in Entries \ dirty : listed[i] = Seen(names)[i]

\* Assignments to one document that are answered in any order all count: each
\* is made to the document as it is when the answer comes
\* (DocumentsManager.ts:189-200, 307-388).
AssignmentsAgree ==
    Quiet => \A p \in Pairs(Papers, Entries) \ dirty :
               p[2] \in Existing(names) => (p \in held <=> p \in links)

\* A tag deleted here no longer filters the documents, and a correspondent
\* deleted here is on none of them (useTags.ts:95-117, useCorrespondents.ts:86-112).
DeletedLeaveNothing ==
    Quiet => /\ filters \ dirty \subseteq Existing(names)
             /\ \A p \in held \ dirty : p[2] \in Correspondents => p[2] \in Existing(names)

\* Whatever fails or overlaps, a panel left alone gives its buttons back
\* (TagsPanel.tsx:58-165, CorrespondentsPanel.tsx:40-90).
PanelReleases == Quiet => ~panel.creating /\ ~panel.saving /\ panel.deleting = Nobody

\* The results of a drag are reported, also when one of its two requests fails
\* (tagTransfer.ts:72-104).
DropsAreReported == drops.results # {} ~> drops.results = {}

\* Entries, assignments, filters and the panel's buttons once all is answered.
CatalogIsConsistent == EntriesAgree /\ AssignmentsAgree /\ DeletedLeaveNothing /\ PanelReleases
=============================================================================
