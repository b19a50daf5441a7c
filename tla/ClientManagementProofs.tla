------------------------- MODULE ClientManagementProofs -------------------------
(***************************************************************************)
(* What the management of tags and correspondents (ClientCatalog), the     *)
(* settings window (ClientSettings) and the PDF viewer (ClientPdfViewer)   *)
(* promise for any entries, documents, items, pages and sources, and any   *)
(* number of handlers awaiting the server at once; and the three put       *)
(* together, as the run of MCClientManagement has them.                    *)
(*                                                                         *)
(* While handlers wait, a list and the server differ; the invariant says   *)
(* by how much: what an answer that is still to be applied says of an item *)
(* is so at the server, unless another request met it there, and an item   *)
(* that no such answer is about already is what the list shows. A button   *)
(* that is off waits for a handler. In the viewer a load that is not the   *)
(* latest is cancelled, and a page that is rendered has its slot until the *)
(* slot is withdrawn.                                                      *)
(***************************************************************************)
EXTENDS MCClientManagement, TLAPS, SequenceTheorems, FiniteSetTheorems

-----------------------------------------------------------------------------
(* Tags and correspondents: the invariant.                                 *)

TaskOps == {"none", "list", "create", "rename", "delete", "link", "unlink", "title"}
AllPairs == Pairs(Papers, Entries)
Answer == [names : [Entries -> {"none", "old", "new"}], links : SUBSET AllPairs]

\* A request that a handler still makes, and a handler.
FollowUp == [op : {"list", "link"}, items : SUBSET Entries, docs : SUBSET Papers, stage : {"sent"}, ok : {TRUE},
             told : {NothingTold}, then : {<<>>}, via : {"document"}, edited : {Nobody}]
TaskRecord ==
  {q \in [op : TaskOps, items : SUBSET Entries, docs : SUBSET Papers, stage : {"free", "sent", "answered"},
          ok : BOOLEAN, told : Answer, then : Seq(FollowUp), via : {"document", "panel", "drag"},
          edited : Entries \cup {Nobody}] : q.stage = "answered" \/ q.ok}
PanelRecord == [open : {"none", "tags", "correspondents"}, editing : Entries \cup {Nobody}, saving : BOOLEAN,
                creating : BOOLEAN, deleting : Entries \cup {Nobody}]

Dragging(t) == {c \in TaskIds : t[c].via = "drag"}

CatalogTyped ==
  /\ names \in [Entries -> {"none", "old", "new", "gone"}]
  /\ listed \in [Entries -> {"none", "old", "new"}]
  /\ links \in SUBSET AllPairs /\ held \in SUBSET AllPairs /\ filters \in SUBSET Tags
  /\ tasks \in [TaskIds -> TaskRecord]
  /\ panel \in PanelRecord
  /\ panel.editing \in PanelKind \cup {Nobody} /\ panel.deleting \in PanelKind \cup {Nobody}
  /\ drops \in [pending : Nat, results : SUBSET TaskOps]
  /\ drops.pending = Cardinality(Dragging(tasks))
  /\ \A c \in TaskIds : tasks[c].op = "none" => tasks[c] = Resting

\* What a call writes in the client while another changes it on the server is dirty.
MeetingsAreDirty ==
  /\ \A c, e \in TaskIds : c # e => WritesEntries(tasks[c]) \cap ChangesEntries(tasks[e]) \subseteq dirty
  /\ \A c, e \in TaskIds : c # e => WritesLinks(tasks[c]) \cap ChangesLinks(tasks[e]) \subseteq dirty

Succeeded(c) == tasks[c].stage = "answered" /\ tasks[c].ok
Awaited(i) == \E c \in TaskIds : Succeeded(c) /\ i \in ChangesEntries(tasks[c])
AwaitedLink(p) == \E c \in TaskIds : Succeeded(c) /\ p \in ChangesLinks(tasks[c])
Going(i) == \E c \in TaskIds : Succeeded(c) /\ tasks[c].op = "delete" /\ i \in tasks[c].items

\* What call c, which succeeded, says of entry i is still so.
Holds(c, i) ==
  /\ i \in ChangesEntries(tasks[c]) =>
       names[i] = IF tasks[c].op = "create" THEN "old" ELSE IF tasks[c].op = "rename" THEN "new" ELSE "gone"
  /\ tasks[c].op = "rename" /\ i \in tasks[c].items => listed[i] # "none"
  /\ tasks[c].op \in {"list", "title"} /\ i \in WritesEntries(tasks[c]) => tasks[c].told.names[i] = Seen(names)[i]

\* The same of assignment p.
HoldsLink(c, p) ==
  /\ tasks[c].op = "link" /\ p \in WritesLinks(tasks[c]) => p \in links
  /\ tasks[c].op = "unlink" /\ p \in WritesLinks(tasks[c]) => p \notin links
  /\ tasks[c].op = "title" /\ p \in WritesLinks(tasks[c]) => (p \in tasks[c].told.links <=> p \in links)

EntriesInv ==
  \A i \in Entries : i \notin dirty =>
     /\ \A c \in TaskIds : Succeeded(c) => Holds(c, i)
     /\ ~Awaited(i) => listed[i] = Seen(names)[i]
     /\ i \in filters => i \in Existing(names) \/ Going(i)

LinksInv ==
  \A p \in AllPairs : p \notin dirty =>
     /\ \A c \in TaskIds : Succeeded(c) => HoldsLink(c, p)
     /\ ~AwaitedLink(p) /\ p[2] \in Existing(names) => (p \in held <=> p \in links)
     /\ p \in held /\ p[2] \in Correspondents => p[2] \in Existing(names) \/ Going(p[2])

\* Only entries that are there are assigned; what is held was assigned once.
AssignedExist ==
  /\ \A p \in links : p[2] \in Existing(names)
  /\ \A p \in held : names[p[2]] # "none"
  /\ \A c \in TaskIds : Succeeded(c) =>
       /\ tasks[c].op = "link" => \A i \in tasks[c].items : names[i] # "none"
       /\ tasks[c].op = "title" => \A p \in tasks[c].told.links : names[p[2]] # "none"
       /\ tasks[c].op = "delete" => \A i \in tasks[c].items : names[i] = "gone"

\* A busy button of the panel is that of a call under way.
ButtonsWait ==
  /\ panel.creating => \E c \in TaskIds : tasks[c].via = "panel" /\ tasks[c].op = "create"
  /\ panel.saving => \E c \in TaskIds : tasks[c].via = "panel" /\ tasks[c].op = "rename"
  /\ panel.deleting # Nobody => \E c \in TaskIds : tasks[c].via = "panel" /\ tasks[c].op = "delete"

CatalogIInv == CatalogTyped /\ MeetingsAreDirty /\ EntriesInv /\ LinksInv /\ AssignedExist /\ ButtonsWait

\* A set of naturals that is not empty has a smallest element.
LEMMA LeastExists ==
    ASSUME NEW T \in SUBSET Nat, T # {}
    PROVE  \E x \in T : \A y \in T : x <= y
<1> DEFINE Less == {ss \in Nat \X Nat : ss[1] < ss[2]}
<1>1. IsWellFoundedOn(Less, Nat)
  BY NatLessThanWellFounded DEF OpToRel
<1>2. \E x \in T : \A y \in T : ~(<<y, x>> \in Less)
  <2> HIDE DEF Less
  <2> QED BY <1>1, WFMin
<1>3. PICK x \in T : \A y \in T : ~(<<y, x>> \in Less)
  BY <1>2
<1>4. ASSUME NEW y \in T PROVE x <= y
  <2>1. x \in Nat /\ y \in Nat /\ ~(<<y, x>> \in Less)
    BY <1>3
  <2>2. ~(y < x)
    BY <2>1
  <2> QED BY <2>1, <2>2
<1> QED BY <1>4

LEMMA TaskFields ==
    ASSUME NEW op \in TaskOps, NEW is \in SUBSET Entries, NEW ds \in SUBSET Papers
    PROVE  /\ Task(op, is, ds) \in TaskRecord
           /\ Task(op, is, ds) = [op |-> op, items |-> is, docs |-> ds, stage |-> "sent", ok |-> TRUE,
                                  told |-> NothingTold, then |-> <<>>, via |-> "document", edited |-> Nobody]
<1>1. Task(op, is, ds) = [op |-> op, items |-> is, docs |-> ds, stage |-> "sent", ok |-> TRUE,
                         told |-> NothingTold, then |-> <<>>, via |-> "document", edited |-> Nobody]
  <2>1. PICK a : a = [Resting EXCEPT !.op = op]
    OBVIOUS
  <2>2. a = [op |-> op, items |-> {}, docs |-> {}, stage |-> "free", ok |-> TRUE,
             told |-> NothingTold, then |-> <<>>, via |-> "document", edited |-> Nobody]
    BY <2>1 DEF Resting
  <2>3. PICK b : b = [a EXCEPT !.items = is]
    OBVIOUS
  <2>4. b = [op |-> op, items |-> is, docs |-> {}, stage |-> "free", ok |-> TRUE,
             told |-> NothingTold, then |-> <<>>, via |-> "document", edited |-> Nobody]
    BY <2>2, <2>3
  <2>5. PICK c : c = [b EXCEPT !.docs = ds]
    OBVIOUS
  <2>6. c = [op |-> op, items |-> is, docs |-> ds, stage |-> "free", ok |-> TRUE,
             told |-> NothingTold, then |-> <<>>, via |-> "document", edited |-> Nobody]
    BY <2>4, <2>5
  <2>7. Task(op, is, ds) = [c EXCEPT !.stage = "sent"]
    BY <2>1, <2>3, <2>5 DEF Task
  <2> QED BY <2>6, <2>7
<1>2. NothingTold \in Answer
  BY DEF NothingTold, Answer
<1>3. <<>> \in Seq(FollowUp)
  BY EmptySeq
<1>4. [op |-> op, items |-> is, docs |-> ds, stage |-> "sent", ok |-> TRUE,
       told |-> NothingTold, then |-> <<>>, via |-> "document", edited |-> Nobody] \in TaskRecord
  BY <1>2, <1>3 DEF TaskRecord
<1> QED BY <1>1, <1>4

LEMMA RestingFields ==
    /\ Resting \in TaskRecord
    /\ Resting.op = "none" /\ Resting.stage = "free" /\ Resting.via = "document"
<1>1. NothingTold \in Answer
  BY DEF NothingTold, Answer
<1>2. <<>> \in Seq(FollowUp)
  BY EmptySeq
<1> QED BY <1>1, <1>2 DEF Resting, TaskRecord, TaskOps

\* A handler with another origin, or with requests still to make.
LEMMA TaskVariants ==
    ASSUME NEW q \in TaskRecord, q.stage = "sent"
    PROVE  /\ ByDrag(q) \in TaskRecord /\ ByDrag(q) = [q EXCEPT !.via = "drag"]
           /\ \A e \in Entries \cup {Nobody} : [q EXCEPT !.via = "panel", !.edited = e] \in TaskRecord
           /\ \A r \in Seq(FollowUp) : [q EXCEPT !.then = r] \in TaskRecord
BY DEF ByDrag, TaskRecord

LEMMA FreeFacts ==
    ASSUME CatalogTyped, FreeTasks # {}
    PROVE  NextFree \in TaskIds /\ tasks[NextFree] = Resting
<1>1. FreeTasks \in SUBSET Nat /\ FreeTasks \subseteq TaskIds
  BY DEF FreeTasks, TaskIds
<1>2. \E c \in FreeTasks : \A e \in FreeTasks : c <= e
  BY <1>1, LeastExists
<1>3. NextFree \in FreeTasks
  BY <1>2 DEF NextFree
<1> QED BY <1>1, <1>3 DEF FreeTasks, CatalogTyped

\* What is known from answers persists while entries and lists do.
SameCall(q, e) == q.op = e.op /\ q.items = e.items /\ q.docs = e.docs
SameAnswer(q, e) == SameCall(q, e) /\ q.stage = e.stage /\ q.ok = e.ok /\ q.told = e.told

LEMMA CallDecides ==
    ASSUME NEW q, NEW e, SameCall(q, e)
    PROVE  /\ WritesEntries(q) = WritesEntries(e) /\ ChangesEntries(q) = ChangesEntries(e)
           /\ WritesLinks(q) = WritesLinks(e) /\ ChangesLinks(q) = ChangesLinks(e)
BY DEF SameCall, WritesEntries, ChangesEntries, WritesLinks, ChangesLinks

LEMMA AnswersPersist ==
    ASSUME EntriesInv, LinksInv, AssignedExist, UNCHANGED <<names, links, listed, held>>, dirty \subseteq dirty',
           \A i \in filters' : i \in filters \/ i \in Existing(listed),
           \A c \in TaskIds : SameAnswer(tasks'[c], tasks[c]) \/ (~Succeeded(c) /\ ~Succeeded(c)')
    PROVE  EntriesInv' /\ LinksInv' /\ AssignedExist'
<1>1. \A c \in TaskIds : Succeeded(c)' => Succeeded(c) /\ SameAnswer(tasks'[c], tasks[c])
  BY DEF Succeeded, SameAnswer
<1>2. \A c \in TaskIds : Succeeded(c) => Succeeded(c)' /\ SameAnswer(tasks'[c], tasks[c])
  BY DEF Succeeded, SameAnswer
<1>3. \A i : Seen(names)'[i] = Seen(names)[i] /\ Existing(names)' = Existing(names)
  BY DEF Seen, Existing
<1>4. \A i : Awaited(i) => Awaited(i)'
  BY <1>2, CallDecides DEF Awaited, SameAnswer
<1>5. \A i : Going(i) => Going(i)'
  BY <1>2 DEF Going, SameAnswer, SameCall
<1>6. \A p : AwaitedLink(p) => AwaitedLink(p)'
  BY <1>2, CallDecides DEF AwaitedLink, SameAnswer
<1>7. EntriesInv'
  <2> SUFFICES ASSUME NEW i \in Entries, i \notin dirty'
               PROVE  /\ \A c \in TaskIds : Succeeded(c)' => Holds(c, i)'
                      /\ ~Awaited(i)' => listed'[i] = Seen(names)'[i]
                      /\ i \in filters' => i \in Existing(names)' \/ Going(i)'
    BY DEF EntriesInv
  <2>1. /\ \A c \in TaskIds : Succeeded(c) => Holds(c, i)
        /\ ~Awaited(i) => listed[i] = Seen(names)[i]
        /\ i \in filters => i \in Existing(names) \/ Going(i)
    BY DEF EntriesInv
  <2>2. ASSUME NEW c \in TaskIds, Succeeded(c)' PROVE Holds(c, i)'
    <3>1. Holds(c, i) /\ SameAnswer(tasks'[c], tasks[c])
      BY <1>1, <2>1, <2>2
    <3> QED BY <1>3, <3>1, CallDecides DEF Holds, SameAnswer, SameCall
  <2>3. i \in Existing(listed) => i \in Existing(names) \/ Going(i)
    <3> SUFFICES ASSUME i \in Existing(listed) PROVE i \in Existing(names) \/ Going(i)
      OBVIOUS
    <3>1. CASE ~Awaited(i)
      BY <2>1, <3>1 DEF Existing, Seen
    <3>2. CASE Awaited(i)
      <4>1. PICK c \in TaskIds : Succeeded(c) /\ i \in ChangesEntries(tasks[c])
        BY <3>2 DEF Awaited
      <4>2. names[i] = IF tasks[c].op = "create" THEN "old" ELSE IF tasks[c].op = "rename" THEN "new" ELSE "gone"
        BY <2>1, <4>1 DEF Holds
      <4>3. i \in tasks[c].items /\ tasks[c].op \in {"create", "rename", "delete"}
        BY <4>1 DEF ChangesEntries
      <4> QED BY <4>1, <4>2, <4>3 DEF Existing, Going
    <3> QED BY <3>1, <3>2
  <2> QED BY <1>3, <1>4, <1>5, <2>1, <2>2, <2>3
<1>8. LinksInv'
  <2> SUFFICES ASSUME NEW p \in AllPairs, p \notin dirty'
               PROVE  /\ \A c \in TaskIds : Succeeded(c)' => HoldsLink(c, p)'
                      /\ ~AwaitedLink(p)' /\ p[2] \in Existing(names)' => (p \in held' <=> p \in links')
                      /\ p \in held' /\ p[2] \in Correspondents => p[2] \in Existing(names)' \/ Going(p[2])'
    BY DEF LinksInv
  <2>1. /\ \A c \in TaskIds : Succeeded(c) => HoldsLink(c, p)
        /\ ~AwaitedLink(p) /\ p[2] \in Existing(names) => (p \in held <=> p \in links)
        /\ p \in held /\ p[2] \in Correspondents => p[2] \in Existing(names) \/ Going(p[2])
    BY DEF LinksInv
  <2>2. ASSUME NEW c \in TaskIds, Succeeded(c)' PROVE HoldsLink(c, p)'
    <3>1. HoldsLink(c, p) /\ SameAnswer(tasks'[c], tasks[c])
      BY <1>1, <2>1, <2>2
    <3> QED BY <3>1, CallDecides DEF HoldsLink, SameAnswer, SameCall
  <2> QED BY <1>3, <1>5, <1>6, <2>1, <2>2
<1>9. AssignedExist'
  BY <1>1, <1>3 DEF AssignedExist, SameAnswer, SameCall
<1> QED BY <1>7, <1>8, <1>9

-----------------------------------------------------------------------------
(* Tags and correspondents: handlers start.                                *)

\* Dirtied covers the meetings of a new call with the others.
LEMMA MeetingsWithNew ==
    ASSUME MeetingsAreDirty, NEW c \in TaskIds, NEW q, NEW S \in SUBSET TaskIds, TaskIds \ {c} \subseteq S,
           tasks' = [tasks EXCEPT ![c] = q], tasks \in [TaskIds -> TaskRecord], dirty' = Dirtied(q, S)
    PROVE  MeetingsAreDirty' /\ dirty \subseteq dirty'
<1>1. dirty \subseteq dirty' /\ \A e \in TaskIds : e # c => Met(q, tasks[e]) \subseteq dirty'
  BY DEF Dirtied
<1>2. \A e \in TaskIds : tasks'[e] = IF e = c THEN q ELSE tasks[e]
  OBVIOUS
<1>3. \A e \in TaskIds : e # c =>
        /\ WritesEntries(q) \cap ChangesEntries(tasks[e]) \subseteq dirty'
        /\ WritesEntries(tasks[e]) \cap ChangesEntries(q) \subseteq dirty'
        /\ WritesLinks(q) \cap ChangesLinks(tasks[e]) \subseteq dirty'
        /\ WritesLinks(tasks[e]) \cap ChangesLinks(q) \subseteq dirty'
  BY <1>1 DEF Met
<1>4. ASSUME NEW u \in TaskIds, NEW e \in TaskIds, u # e
      PROVE  /\ WritesEntries(tasks'[u]) \cap ChangesEntries(tasks'[e]) \subseteq dirty'
             /\ WritesLinks(tasks'[u]) \cap ChangesLinks(tasks'[e]) \subseteq dirty'
  <2>1. CASE u = c
    BY <1>2, <1>3, <1>4, <2>1
  <2>2. CASE e = c
    BY <1>2, <1>3, <1>4, <2>2
  <2>3. CASE u # c /\ e # c
    BY <1>1, <1>2, <1>4, <2>3 DEF MeetingsAreDirty
  <2> QED BY <2>1, <2>2, <2>3
<1> QED BY <1>1, <1>4 DEF MeetingsAreDirty

LEMMA DraggersFinite == ASSUME NEW S \in SUBSET TaskIds PROVE IsFiniteSet(S) /\ Cardinality(S) \in Nat
<1>1. IsFiniteSet(TaskIds)
  BY CatalogConstants, FS_Interval DEF TaskIds
<1> QED BY <1>1, FS_Subset, FS_CardinalityType

\* A handler that takes the place of another: how many drags are counted.
LEMMA DraggersChange ==
    ASSUME NEW t \in [TaskIds -> TaskRecord], NEW c \in TaskIds, NEW q \in TaskRecord
    PROVE  /\ Cardinality(Dragging(t)) \in Nat
           /\ t[c].via = "drag" => Cardinality(Dragging(t)) > 0
           /\ Cardinality(Dragging([t EXCEPT ![c] = q])) =
                Cardinality(Dragging(t)) + (IF q.via = "drag" THEN 1 ELSE 0) - (IF t[c].via = "drag" THEN 1 ELSE 0)
<1> DEFINE others == Dragging(t) \ {c}
           after == [t EXCEPT ![c] = q]
<1>1. Dragging(t) \in SUBSET TaskIds /\ others \in SUBSET TaskIds /\ c \notin others
  BY DEF Dragging
<1>2. /\ IsFiniteSet(Dragging(t)) /\ Cardinality(Dragging(t)) \in Nat
      /\ IsFiniteSet(others) /\ Cardinality(others) \in Nat
  BY <1>1, DraggersFinite
<1>3. Dragging(t) = (IF t[c].via = "drag" THEN others \cup {c} ELSE others)
  BY DEF Dragging
<1>4. \A e \in TaskIds : after[e] = IF e = c THEN q ELSE t[e]
  OBVIOUS
<1> HIDE DEF after
<1>5. Dragging(after) = (IF q.via = "drag" THEN others \cup {c} ELSE others)
  BY <1>4 DEF Dragging
<1> HIDE DEF others
<1>6. Cardinality(others \cup {c}) = Cardinality(others) + 1
  BY <1>1, <1>2, FS_AddElement
<1>7. /\ t[c].via = "drag" => Cardinality(Dragging(t)) > 0
      /\ Cardinality(Dragging(after)) =
           Cardinality(Dragging(t)) + (IF q.via = "drag" THEN 1 ELSE 0) - (IF t[c].via = "drag" THEN 1 ELSE 0)
  BY <1>2, <1>3, <1>5, <1>6
<1> QED BY <1>2, <1>7 DEF after

\* What the panel and the drags must do when a handler starts.
Begins(q) ==
  /\ panel' \in PanelRecord
  /\ (panel.editing \in PanelKind \cup {Nobody})' /\ (panel.deleting \in PanelKind \cup {Nobody})'
  /\ panel'.creating => panel.creating \/ (q.via = "panel" /\ q.op = "create")
  /\ panel'.saving => panel.saving \/ (q.via = "panel" /\ q.op = "rename")
  /\ panel'.deleting # Nobody => panel.deleting # Nobody \/ (q.via = "panel" /\ q.op = "delete")
  /\ drops' = [drops EXCEPT !.pending = @ + (IF q.via = "drag" THEN 1 ELSE 0)]

LEMMA StartKeeps ==
    ASSUME CatalogIInv, NEW q \in TaskRecord, q.stage = "sent", q.op # "none", Start(q), Begins(q),
           UNCHANGED <<names, links, listed, held, filters>>
    PROVE  CatalogIInv'
<1> DEFINE c == NextFree
<1>1. /\ FreeTasks # {} /\ catalogActs < MaxCatalogActs
      /\ tasks' = [tasks EXCEPT ![c] = q] /\ dirty' = Dirtied(q, TaskIds)
  BY DEF Start
<1>2. CatalogTyped /\ MeetingsAreDirty /\ EntriesInv /\ LinksInv /\ AssignedExist /\ ButtonsWait
  BY DEF CatalogIInv
<1>3. c \in TaskIds /\ tasks[c] = Resting
  BY <1>1, <1>2, FreeFacts
<1> HIDE DEF c
<1>4. tasks \in [TaskIds -> TaskRecord] /\ \A e \in TaskIds : tasks'[e] = IF e = c THEN q ELSE tasks[e]
  BY <1>1, <1>2 DEF CatalogTyped
<1>5. MeetingsAreDirty' /\ dirty \subseteq dirty'
  BY <1>1, <1>2, <1>3, <1>4, MeetingsWithNew
<1>6. ASSUME NEW e \in TaskIds
      PROVE  SameAnswer(tasks'[e], tasks[e]) \/ (~Succeeded(e) /\ ~Succeeded(e)')
  <2>1. CASE e = c
    <3>1. tasks[e].stage = "free" /\ tasks'[e].stage = "sent"
      BY <1>3, <1>4, <2>1, RestingFields
    <3> QED BY <3>1 DEF Succeeded
  <2>2. CASE e # c
    BY <1>4, <2>2 DEF SameAnswer, SameCall
  <2> QED BY <2>1, <2>2
<1>7. EntriesInv' /\ LinksInv' /\ AssignedExist'
  BY <1>2, <1>5, <1>6, AnswersPersist
<1>8. ButtonsWait'
  <2>1. \A e \in TaskIds : tasks[e].via = "panel" => e # c
    BY <1>3, RestingFields
  <2> QED BY <1>2, <1>3, <1>4, <2>1 DEF ButtonsWait, Begins
<1>9. CatalogTyped'
  <2>1. tasks' \in [TaskIds -> TaskRecord] /\ \A e \in TaskIds : tasks'[e].op = "none" => tasks'[e] = Resting
    BY <1>1, <1>2, <1>4 DEF CatalogTyped
  <2>2. drops' \in [pending : Nat, results : SUBSET TaskOps] /\ drops'.pending = Cardinality(Dragging(tasks'))
    <3>1. Cardinality(Dragging(tasks')) = Cardinality(Dragging(tasks)) + (IF q.via = "drag" THEN 1 ELSE 0) - 0
      BY <1>1, <1>3, <1>4, DraggersChange, RestingFields
    <3>2. drops \in [pending : Nat, results : SUBSET TaskOps] /\ drops.pending = Cardinality(Dragging(tasks))
      BY <1>2 DEF CatalogTyped
    <3>3. PICK n \in {0, 1} : n = (IF q.via = "drag" THEN 1 ELSE 0)
      OBVIOUS
    <3>4. drops' = [drops EXCEPT !.pending = @ + n]
      BY <3>3 DEF Begins
    <3> QED BY <3>1, <3>2, <3>3, <3>4
  <2> QED BY <1>2, <2>1, <2>2 DEF CatalogTyped, Begins
<1> QED BY <1>5, <1>7, <1>8, <1>9 DEF CatalogIInv

\* A handler that starts away from the panel and without a drag.
LEMMA StartQuietly ==
    ASSUME CatalogIInv, NEW q \in TaskRecord, q.stage = "sent", q.op # "none", q.via = "document", Start(q), Quietly
    PROVE  CatalogIInv'
<1>1. UNCHANGED <<names, links, listed, held, filters, panel, drops>>
  BY DEF Quietly
<1>2. CatalogTyped
  BY DEF CatalogIInv
<1>3. drops' = [drops EXCEPT !.pending = @ + (IF q.via = "drag" THEN 1 ELSE 0)]
  <2>1. drops \in [pending : Nat, results : SUBSET TaskOps]
    BY <1>2 DEF CatalogTyped
  <2>2. drops.pending + 0 = drops.pending
    BY <2>1
  <2>3. [drops EXCEPT !.pending = @ + 0] = drops
    BY <2>1, <2>2
  <2> QED BY <1>1, <2>3
<1>4. Begins(q)
  BY <1>1, <1>2, <1>3 DEF Begins, CatalogTyped, PanelKind
<1> QED BY <1>1, <1>4, StartKeeps

LEMMA NextFreeIsFree == ASSUME CatalogTyped, FreeTasks # {} PROVE NextFree \in FreeTasks
BY FreeFacts, RestingFields DEF FreeTasks

\* The drags after a drag, or none, started.
LEMMA DropsPlus ==
    ASSUME CatalogTyped, NEW q, q.via # "drag", UNCHANGED drops
    PROVE  drops' = [drops EXCEPT !.pending = @ + (IF q.via = "drag" THEN 1 ELSE 0)]
<1>1. drops \in [pending : Nat, results : SUBSET TaskOps]
  BY DEF CatalogTyped
<1>2. drops.pending + 0 = drops.pending
  BY <1>1
<1>3. [drops EXCEPT !.pending = @ + 0] = drops
  BY <1>1, <1>2
<1> QED BY <1>3

\* A handler that one of the panel's buttons starts.
LEMMA FromPanelFields ==
    ASSUME CatalogTyped, NEW op \in TaskOps, NEW is \in SUBSET Entries
    PROVE  LET q == FromPanel(Task(op, is, {}))
           IN  q \in TaskRecord /\ q.stage = "sent" /\ q.op = op /\ q.via = "panel"
<1>1. {} \in SUBSET Papers
  OBVIOUS
<1>2. PICK a : a = Task(op, is, {})
  OBVIOUS
<1>3. a \in TaskRecord /\ a.stage = "sent" /\ a.op = op
  BY <1>1, <1>2, TaskFields
<1>4. PICK q : q = FromPanel(a)
  OBVIOUS
<1>5. panel.editing \in Entries \cup {Nobody}
  BY DEF CatalogTyped, PanelRecord
<1>6. q = [a EXCEPT !.via = "panel", !.edited = panel.editing]
  BY <1>4 DEF FromPanel
<1>7. q \in TaskRecord
  BY <1>3, <1>5, <1>6, TaskVariants
<1>8. q.stage = "sent" /\ q.op = op /\ q.via = "panel"
  BY <1>3, <1>6 DEF TaskRecord
<1> QED BY <1>2, <1>4, <1>7, <1>8

LEMMA SaveEditKeeps == ASSUME CatalogIInv, SaveEdit PROVE CatalogIInv'
<1>1. CatalogTyped
  BY DEF CatalogIInv
<1>2. PICK q : q = FromPanel(Task("rename", {panel.editing}, {}))
  OBVIOUS
<1>3. {panel.editing} \in SUBSET Entries /\ "rename" \in TaskOps
  BY DEF SaveEdit, Rows, Existing, TaskOps
<1>4. q \in TaskRecord /\ q.stage = "sent" /\ q.op = "rename" /\ q.via = "panel"
  BY <1>1, <1>2, <1>3, FromPanelFields
<1>5. panel' = [panel EXCEPT !.saving = TRUE] /\ UNCHANGED drops
  BY DEF SaveEdit
<1>6. Begins(q)
  BY <1>1, <1>4, <1>5, DropsPlus DEF Begins, CatalogTyped, PanelRecord, PanelKind
<1>7. Start(q) /\ UNCHANGED <<names, links, listed, held, filters>>
  BY <1>2 DEF SaveEdit
<1> QED BY <1>4, <1>6, <1>7, StartKeeps

LEMMA DeleteEntryKeeps == ASSUME CatalogIInv, NEW i \in Entries, DeleteEntry(i) PROVE CatalogIInv'
<1>1. CatalogTyped
  BY DEF CatalogIInv
<1>2. PICK q : q = FromPanel(Task("delete", {i}, {}))
  OBVIOUS
<1>3. {i} \in SUBSET Entries /\ "delete" \in TaskOps
  BY DEF TaskOps
<1>4. q \in TaskRecord /\ q.stage = "sent" /\ q.op = "delete" /\ q.via = "panel"
  BY <1>1, <1>2, <1>3, FromPanelFields
<1>5. panel' = [panel EXCEPT !.deleting = i] /\ UNCHANGED drops /\ i \in PanelKind
  BY DEF DeleteEntry, Rows
<1>6. Begins(q)
  BY <1>1, <1>4, <1>5, DropsPlus DEF Begins, CatalogTyped, PanelRecord, PanelKind
<1>7. Start(q) /\ UNCHANGED <<names, links, listed, held, filters>>
  BY <1>2 DEF DeleteEntry
<1> QED BY <1>4, <1>6, <1>7, StartKeeps

LEMMA CreateEntryKeeps == ASSUME CatalogIInv, NEW i \in Entries, CreateEntry(i) PROVE CatalogIInv'
<1>1. CatalogTyped
  BY DEF CatalogIInv
<1>2. PICK q : q = FromPanel(Task("create", {i}, {}))
  OBVIOUS
<1>3. {i} \in SUBSET Entries /\ "create" \in TaskOps
  BY DEF TaskOps
<1>4. q \in TaskRecord /\ q.stage = "sent" /\ q.op = "create" /\ q.via = "panel"
  BY <1>1, <1>2, <1>3, FromPanelFields
<1>5. panel' = [panel EXCEPT !.creating = TRUE] /\ UNCHANGED drops
  BY DEF CreateEntry
<1>6. Begins(q)
  BY <1>1, <1>4, <1>5, DropsPlus DEF Begins, CatalogTyped, PanelRecord, PanelKind
<1>7. Start(q) /\ UNCHANGED <<names, links, listed, held, filters>>
  BY <1>2 DEF CreateEntry
<1> QED BY <1>4, <1>6, <1>7, StartKeeps

LEMMA RefreshKeeps == ASSUME CatalogIInv, NEW kind \in SUBSET Entries, Refresh(kind) PROVE CatalogIInv'
<1>1. PICK q : q = Task("list", kind, {})
  OBVIOUS
<1>2. {} \in SUBSET Papers /\ "list" \in TaskOps
  BY DEF TaskOps
<1>3. q \in TaskRecord /\ q.stage = "sent" /\ q.op # "none" /\ q.via = "document"
  BY <1>1, <1>2, TaskFields
<1>4. Start(q) /\ Quietly
  BY <1>1 DEF Refresh, Quietly
<1> QED BY <1>3, <1>4, StartQuietly

\* A handler with one request, away from the panel.
LEMMA PlainStartKeeps ==
    ASSUME CatalogIInv, NEW op \in TaskOps \ {"none"}, NEW is \in SUBSET Entries, NEW ds \in SUBSET Papers,
           Start(Task(op, is, ds)), Quietly
    PROVE  CatalogIInv'
<1>1. PICK q : q = Task(op, is, ds)
  OBVIOUS
<1>2. q \in TaskRecord /\ q.stage = "sent" /\ q.op # "none" /\ q.via = "document"
  BY <1>1, TaskFields
<1> QED BY <1>1, <1>2, StartQuietly

\* A creation with the requests that follow it.
LEMMA ChainedStartKeeps ==
    ASSUME CatalogIInv, NEW i \in Entries, NEW r \in Seq(FollowUp),
           Start([Task("create", {i}, {}) EXCEPT !.then = r]), Quietly
    PROVE  CatalogIInv'
<1>1. PICK a : a = Task("create", {i}, {})
  OBVIOUS
<1>2. {i} \in SUBSET Entries /\ {} \in SUBSET Papers /\ "create" \in TaskOps
  BY DEF TaskOps
<1>3. a \in TaskRecord /\ a.stage = "sent" /\ a.op = "create" /\ a.via = "document"
  BY <1>1, <1>2, TaskFields
<1>4. PICK q : q = [a EXCEPT !.then = r]
  OBVIOUS
<1>5. q \in TaskRecord
  BY <1>3, <1>4, TaskVariants
<1>6. q.stage = "sent" /\ q.op # "none" /\ q.via = "document"
  BY <1>3, <1>4 DEF TaskRecord
<1>7. Start(q)
  BY <1>1, <1>4
<1> QED BY <1>5, <1>6, <1>7, StartQuietly

LEMMA FollowUps ==
    ASSUME NEW op \in {"list", "link"}, NEW is \in SUBSET Entries, NEW ds \in SUBSET Papers
    PROVE  Task(op, is, ds) \in FollowUp
<1>1. op \in TaskOps
  BY DEF TaskOps
<1>2. Task(op, is, ds) = [op |-> op, items |-> is, docs |-> ds, stage |-> "sent", ok |-> TRUE,
                         told |-> NothingTold, then |-> <<>>, via |-> "document", edited |-> Nobody]
  BY <1>1, TaskFields
<1> QED BY <1>2 DEF FollowUp

LEMMA AddTagKeeps == ASSUME CatalogIInv, NEW d \in Papers, NEW i \in Entries, AddTag(d, i) PROVE CatalogIInv'
<1>1. /\ {i} \in SUBSET Entries /\ {d} \in SUBSET Papers /\ {} \in SUBSET Papers /\ Tags \in SUBSET Entries
      /\ "link" \in TaskOps \ {"none"}
  BY DEF Entries, TaskOps
<1>2. CASE i \in Existing(listed)
  BY <1>1, <1>2, PlainStartKeeps DEF AddTag
<1>3. CASE i \notin Existing(listed)
  <2>1. PICK r : r = <<Task("list", Tags, {}), Task("link", {i}, {d})>>
    OBVIOUS
  <2>2. Task("list", Tags, {}) \in FollowUp /\ Task("link", {i}, {d}) \in FollowUp
    BY <1>1, FollowUps
  <2>3. r \in Seq(FollowUp)
    BY <2>1, <2>2
  <2>4. Start([Task("create", {i}, {}) EXCEPT !.then = r]) /\ Quietly
    BY <1>3, <2>1 DEF AddTag
  <2> QED BY <2>3, <2>4, ChainedStartKeeps
<1> QED BY <1>2, <1>3

LEMMA AddCorrespondentKeeps ==
    ASSUME CatalogIInv, NEW d \in Papers, NEW i \in Entries, AddCorrespondent(d, i) PROVE CatalogIInv'
<1>1. {i} \in SUBSET Entries /\ {d} \in SUBSET Papers /\ "link" \in TaskOps \ {"none"}
  BY DEF TaskOps
<1>2. CASE i \in Existing(listed)
  BY <1>1, <1>2, PlainStartKeeps DEF AddCorrespondent
<1>3. CASE i \notin Existing(listed)
  <2>1. PICK r : r = <<Task("link", {i}, {d})>>
    OBVIOUS
  <2>2. Task("link", {i}, {d}) \in FollowUp
    BY <1>1, FollowUps
  <2>3. r \in Seq(FollowUp)
    BY <2>1, <2>2
  <2>4. Start([Task("create", {i}, {}) EXCEPT !.then = r]) /\ Quietly
    BY <1>3, <2>1 DEF AddCorrespondent
  <2> QED BY <2>3, <2>4, ChainedStartKeeps
<1> QED BY <1>2, <1>3

LEMMA AssignmentsKeep ==
    ASSUME CatalogIInv, NEW d \in Papers, NEW i \in Entries
    PROVE  /\ DetachTag(d, i) => CatalogIInv'
           /\ DetachCorrespondent(d, i) => CatalogIInv'
<1>1. {i} \in SUBSET Entries /\ {d} \in SUBSET Papers /\ "unlink" \in TaskOps \ {"none"}
  BY DEF TaskOps
<1>2. DetachTag(d, i) => Start(Task("unlink", {i}, {d})) /\ Quietly
  BY DEF DetachTag
<1>3. DetachCorrespondent(d, i) => Start(Task("unlink", {i}, {d})) /\ Quietly
  BY DEF DetachCorrespondent
<1>4. ASSUME Start(Task("unlink", {i}, {d})), Quietly PROVE CatalogIInv'
  BY <1>1, <1>4, PlainStartKeeps
<1> QED BY <1>2, <1>3, <1>4

LEMMA UpdateFieldsKeeps == ASSUME CatalogIInv, NEW d \in Papers, UpdateFields(d) PROVE CatalogIInv'
<1>1. {} \in SUBSET Entries /\ {d} \in SUBSET Papers /\ "title" \in TaskOps \ {"none"}
  BY DEF TaskOps
<1>2. Start(Task("title", {}, {d})) /\ Quietly
  BY DEF UpdateFields
<1> QED BY <1>1, <1>2, PlainStartKeeps

LEMMA TogglesKeep ==
    ASSUME CatalogIInv, NEW ds \in SUBSET Papers, NEW i \in Entries
    PROVE  /\ ToggleTag(ds, i) => CatalogIInv'
           /\ ToggleCorrespondent(ds, i) => CatalogIInv'
<1>1. /\ {i} \in SUBSET Entries /\ CorrespondentsOf(ds) \in SUBSET Entries
      /\ "unlink" \in TaskOps \ {"none"} /\ "link" \in TaskOps \ {"none"}
  BY DEF TaskOps, CorrespondentsOf, Entries
<1>2. ASSUME NEW op \in {"link", "unlink"}, NEW is \in SUBSET Entries, Start(Task(op, is, ds)), Quietly
      PROVE  CatalogIInv'
  BY <1>1, <1>2, PlainStartKeeps
<1>3. ToggleTag(ds, i) => CatalogIInv'
  <2> SUFFICES ASSUME ToggleTag(ds, i) PROVE CatalogIInv'
    OBVIOUS
  <2>1. PICK op \in {"link", "unlink"} : op = IF OnAll(ds, i) THEN "unlink" ELSE "link"
    OBVIOUS
  <2>2. Start(Task(op, {i}, ds)) /\ Quietly
    BY <2>1 DEF ToggleTag
  <2> QED BY <1>1, <1>2, <2>2
<1>4. ToggleCorrespondent(ds, i) => CatalogIInv'
  <2> SUFFICES ASSUME ToggleCorrespondent(ds, i) PROVE CatalogIInv'
    OBVIOUS
  <2>1. CASE OnAll(ds, i)
    <3>1. Start(Task("unlink", CorrespondentsOf(ds), ds)) /\ Quietly
      BY <2>1 DEF ToggleCorrespondent
    <3> QED BY <1>1, <1>2, <3>1
  <2>2. CASE ~OnAll(ds, i)
    <3>1. Start(Task("link", {i}, ds)) /\ Quietly
      BY <2>2 DEF ToggleCorrespondent
    <3> QED BY <1>1, <1>2, <3>1
  <2> QED BY <2>1, <2>2
<1> QED BY <1>3, <1>4

\* A handler of a drag.
LEMMA DragFields ==
    ASSUME NEW op \in {"link", "unlink"}, NEW i \in Entries, NEW d \in Papers
    PROVE  /\ ByDrag(Task(op, {i}, {d})) \in TaskRecord
           /\ ByDrag(Task(op, {i}, {d})) =
                [op |-> op, items |-> {i}, docs |-> {d}, stage |-> "sent", ok |-> TRUE,
                 told |-> NothingTold, then |-> <<>>, via |-> "drag", edited |-> Nobody]
<1>1. PICK a : a = Task(op, {i}, {d})
  OBVIOUS
<1>2. {i} \in SUBSET Entries /\ {d} \in SUBSET Papers /\ op \in TaskOps
  BY DEF TaskOps
<1>3. /\ a \in TaskRecord
      /\ a = [op |-> op, items |-> {i}, docs |-> {d}, stage |-> "sent", ok |-> TRUE,
              told |-> NothingTold, then |-> <<>>, via |-> "document", edited |-> Nobody]
  BY <1>1, <1>2, TaskFields
<1>4. a.stage = "sent"
  BY <1>3
<1>5. ByDrag(a) \in TaskRecord /\ ByDrag(a) = [a EXCEPT !.via = "drag"]
  BY <1>3, <1>4, TaskVariants
<1>6. ByDrag(a) = [op |-> op, items |-> {i}, docs |-> {d}, stage |-> "sent", ok |-> TRUE,
                  told |-> NothingTold, then |-> <<>>, via |-> "drag", edited |-> Nobody]
  BY <1>3, <1>5
<1> QED BY <1>1, <1>5, <1>6

LEMMA CopyTagKeeps == ASSUME CatalogIInv, NEW d \in Papers, NEW i \in Entries, CopyTag(d, i) PROVE CatalogIInv'
<1>1. CatalogTyped
  BY DEF CatalogIInv
<1>2. PICK q : q = ByDrag(Task("link", {i}, {d}))
  OBVIOUS
<1>3. q \in TaskRecord /\ q.stage = "sent" /\ q.op = "link" /\ q.via = "drag"
  <2>1. q \in TaskRecord /\ q = [op |-> "link", items |-> {i}, docs |-> {d}, stage |-> "sent", ok |-> TRUE,
                                told |-> NothingTold, then |-> <<>>, via |-> "drag", edited |-> Nobody]
    BY <1>2, DragFields
  <2> QED BY <2>1
<1>4. Start(q) /\ UNCHANGED <<names, links, listed, held, filters>>
  BY <1>2 DEF CopyTag
<1>5. UNCHANGED panel /\ drops' = [drops EXCEPT !.pending = @ + 1]
  BY DEF CopyTag
<1>6. Begins(q)
  BY <1>1, <1>3, <1>5 DEF Begins, CatalogTyped, PanelKind
<1> QED BY <1>3, <1>4, <1>6, StartKeeps

\* The two requests of a move are about two documents, and meet only others.
LEMMA MoveTagKeeps ==
    ASSUME CatalogIInv, NEW d \in Papers, NEW e \in Papers \ {d}, NEW i \in Entries, MoveTag(d, e, i)
    PROVE  CatalogIInv'
<1>1. PICK c : c = NextFree
  OBVIOUS
<1>2. PICK b : b = CHOOSE f \in FreeTasks \ {c} : TRUE
  OBVIOUS
<1>3. PICK attach : attach = ByDrag(Task("link", {i}, {e}))
  OBVIOUS
<1>4. PICK detach : detach = ByDrag(Task("unlink", {i}, {d}))
  OBVIOUS
<1>5. /\ tasks' = [tasks EXCEPT ![c] = attach, ![b] = detach]
      /\ dirty' = Dirtied(attach, TaskIds) \cup Dirtied(detach, TaskIds)
      /\ drops' = [drops EXCEPT !.pending = @ + 2]
      /\ UNCHANGED <<names, links, listed, held, filters, panel>>
      /\ Cardinality(FreeTasks) > 1
  BY <1>1, <1>2, <1>3, <1>4 DEF MoveTag
<1>6. CatalogTyped /\ MeetingsAreDirty /\ EntriesInv /\ LinksInv /\ AssignedExist /\ ButtonsWait
  BY DEF CatalogIInv
<1>7. /\ attach \in TaskRecord /\ attach.stage = "sent" /\ attach.op = "link" /\ attach.via = "drag"
      /\ attach.items = {i} /\ attach.docs = {e}
  <2>1. /\ attach \in TaskRecord
        /\ attach = [op |-> "link", items |-> {i}, docs |-> {e}, stage |-> "sent", ok |-> TRUE,
                     told |-> NothingTold, then |-> <<>>, via |-> "drag", edited |-> Nobody]
    BY <1>3, DragFields
  <2> QED BY <2>1
<1>8. /\ detach \in TaskRecord /\ detach.stage = "sent" /\ detach.op = "unlink" /\ detach.via = "drag"
      /\ detach.items = {i} /\ detach.docs = {d}
  <2>1. /\ detach \in TaskRecord
        /\ detach = [op |-> "unlink", items |-> {i}, docs |-> {d}, stage |-> "sent", ok |-> TRUE,
                     told |-> NothingTold, then |-> <<>>, via |-> "drag", edited |-> Nobody]
    BY <1>4, DragFields
  <2> QED BY <2>1
<1>9. c \in FreeTasks /\ b \in FreeTasks /\ b # c
  <2>1. FreeTasks \in SUBSET TaskIds
    BY DEF FreeTasks
  <2>2. IsFiniteSet(FreeTasks)
    BY <2>1, DraggersFinite
  <2>3. FreeTasks # {} /\ FreeTasks # {c}
    BY <1>5, FS_EmptySet, FS_Singleton
  <2>4. c \in FreeTasks
    BY <1>1, <1>6, <2>3, NextFreeIsFree
  <2>5. \E f : f \in FreeTasks \ {c}
    BY <2>3, <2>4
  <2> QED BY <1>2, <2>4, <2>5
<1>10. /\ c \in TaskIds /\ tasks[c] = Resting
       /\ b \in TaskIds /\ tasks[b] = Resting
  BY <1>6, <1>9 DEF FreeTasks, CatalogTyped
<1>11. /\ tasks \in [TaskIds -> TaskRecord]
       /\ \A u \in TaskIds : tasks'[u] = IF u = b THEN detach ELSE IF u = c THEN attach ELSE tasks[u]
  BY <1>5, <1>6, <1>9, <1>10 DEF CatalogTyped
<1>12. /\ dirty \subseteq dirty'
       /\ \A u \in TaskIds : Met(attach, tasks[u]) \subseteq dirty' /\ Met(detach, tasks[u]) \subseteq dirty'
  BY <1>5 DEF Dirtied
<1>13. MeetingsAreDirty'
  <2>1. /\ WritesEntries(attach) = {} /\ ChangesEntries(attach) = {}
        /\ WritesEntries(detach) = {} /\ ChangesEntries(detach) = {}
        /\ WritesLinks(attach) = Pairs({e}, {i}) /\ ChangesLinks(attach) = Pairs({e}, {i})
        /\ WritesLinks(detach) = Pairs({d}, {i}) /\ ChangesLinks(detach) = Pairs({d}, {i})
    BY <1>7, <1>8 DEF WritesEntries, ChangesEntries, WritesLinks, ChangesLinks
  <2>2. Pairs({e}, {i}) \cap Pairs({d}, {i}) = {}
    BY DEF Pairs
  <2>3. ASSUME NEW u \in TaskIds
        PROVE  /\ WritesEntries(attach) \cap ChangesEntries(tasks[u]) \subseteq dirty'
               /\ WritesEntries(tasks[u]) \cap ChangesEntries(attach) \subseteq dirty'
               /\ WritesLinks(attach) \cap ChangesLinks(tasks[u]) \subseteq dirty'
               /\ WritesLinks(tasks[u]) \cap ChangesLinks(attach) \subseteq dirty'
               /\ WritesEntries(detach) \cap ChangesEntries(tasks[u]) \subseteq dirty'
               /\ WritesEntries(tasks[u]) \cap ChangesEntries(detach) \subseteq dirty'
               /\ WritesLinks(detach) \cap ChangesLinks(tasks[u]) \subseteq dirty'
               /\ WritesLinks(tasks[u]) \cap ChangesLinks(detach) \subseteq dirty'
    BY <1>12 DEF Met
  <2>4. ASSUME NEW u \in TaskIds, NEW v \in TaskIds, u # v
        PROVE  /\ WritesEntries(tasks'[u]) \cap ChangesEntries(tasks'[v]) \subseteq dirty'
               /\ WritesLinks(tasks'[u]) \cap ChangesLinks(tasks'[v]) \subseteq dirty'
    <3>1. CASE u \in {b, c} /\ v \in {b, c}
      <4>1. CASE u = b
        <5>1. tasks'[u] = detach /\ tasks'[v] = attach
          BY <1>11, <2>4, <3>1, <4>1
        <5> QED BY <2>1, <2>2, <5>1
      <4>2. CASE u = c
        <5>1. tasks'[u] = attach /\ tasks'[v] = detach
          BY <1>9, <1>11, <2>4, <3>1, <4>2
        <5> QED BY <2>1, <2>2, <5>1
      <4> QED BY <3>1, <4>1, <4>2
    <3>2. CASE u \in {b, c} /\ v \notin {b, c}
      BY <1>11, <2>3, <3>2
    <3>3. CASE u \notin {b, c} /\ v \in {b, c}
      BY <1>11, <2>3, <3>3
    <3>4. CASE u \notin {b, c} /\ v \notin {b, c}
      <4>1. tasks'[u] = tasks[u] /\ tasks'[v] = tasks[v]
        BY <1>11, <3>4
      <4> QED BY <1>6, <1>12, <2>4, <4>1 DEF MeetingsAreDirty
    <3> QED BY <3>1, <3>2, <3>3, <3>4
  <2> QED BY <2>4 DEF MeetingsAreDirty
<1>14. ASSUME NEW u \in TaskIds
       PROVE  SameAnswer(tasks'[u], tasks[u]) \/ (~Succeeded(u) /\ ~Succeeded(u)')
  <2>1. CASE u \in {b, c}
    <3>1. tasks[u].stage = "free" /\ tasks'[u].stage = "sent"
      BY <1>7, <1>8, <1>10, <1>11, <2>1, RestingFields
    <3> QED BY <3>1 DEF Succeeded
  <2>2. CASE u \notin {b, c}
    BY <1>11, <2>2 DEF SameAnswer, SameCall
  <2> QED BY <2>1, <2>2
<1>15. EntriesInv' /\ LinksInv' /\ AssignedExist'
  BY <1>5, <1>6, <1>12, <1>14, AnswersPersist
<1>16. ButtonsWait'
  <2>1. \A u \in TaskIds : tasks[u].via = "panel" => tasks'[u] = tasks[u]
    BY <1>10, <1>11, RestingFields
  <2> QED BY <1>5, <1>6, <2>1 DEF ButtonsWait
<1>17. CatalogTyped'
  <2>1. PICK t : t = [tasks EXCEPT ![c] = attach]
    OBVIOUS
  <2>2. t \in [TaskIds -> TaskRecord] /\ t[b] = Resting /\ tasks' = [t EXCEPT ![b] = detach]
    BY <1>5, <1>7, <1>9, <1>10, <1>11, <2>1
  <2>3. /\ Cardinality(Dragging(t)) = Cardinality(Dragging(tasks)) + 1 - 0
        /\ Cardinality(Dragging(tasks)) \in Nat
    BY <1>7, <1>10, <1>11, <2>1, DraggersChange, RestingFields
  <2>4. Cardinality(Dragging(tasks')) = Cardinality(Dragging(t)) + 1 - 0
    BY <1>8, <1>10, <2>2, DraggersChange, RestingFields
  <2>5. drops \in [pending : Nat, results : SUBSET TaskOps] /\ drops.pending = Cardinality(Dragging(tasks))
    BY <1>6 DEF CatalogTyped
  <2>6. drops' \in [pending : Nat, results : SUBSET TaskOps] /\ drops'.pending = Cardinality(Dragging(tasks'))
    BY <1>5, <2>3, <2>4, <2>5
  <2>7. tasks' \in [TaskIds -> TaskRecord]
    BY <1>8, <2>2
  <2>8. \A u \in TaskIds : tasks'[u].op = "none" => tasks'[u] = Resting
    BY <1>6, <1>7, <1>8, <1>11 DEF CatalogTyped
  <2> QED BY <1>5, <1>6, <2>6, <2>7, <2>8 DEF CatalogTyped, PanelKind
<1> QED BY <1>6, <1>13, <1>15, <1>16, <1>17 DEF CatalogIInv

-----------------------------------------------------------------------------
(* Tags and correspondents: the panel, the filter, the reports.            *)

\* A step that starts no request and settles none.
LEMMA IdleKeeps ==
    ASSUME CatalogIInv, UNCHANGED <<names, links, listed, held, tasks, dirty>>,
           filters' \in SUBSET Tags, \A i \in filters' : i \in filters \/ i \in Existing(listed),
           panel' \in PanelRecord,
           (panel.editing \in PanelKind \cup {Nobody})', (panel.deleting \in PanelKind \cup {Nobody})',
           panel'.creating => panel.creating, panel'.saving => panel.saving,
           panel'.deleting # Nobody => panel.deleting # Nobody,
           drops' \in [pending : Nat, results : SUBSET TaskOps], drops'.pending = drops.pending
    PROVE  CatalogIInv'
<1>1. CatalogTyped /\ MeetingsAreDirty /\ EntriesInv /\ LinksInv /\ AssignedExist /\ ButtonsWait
  BY DEF CatalogIInv
<1>2. CatalogTyped'
  BY <1>1 DEF CatalogTyped
<1>3. MeetingsAreDirty'
  BY <1>1 DEF MeetingsAreDirty
<1>4. \A c \in TaskIds : SameAnswer(tasks'[c], tasks[c])
  BY DEF SameAnswer, SameCall
<1>5. EntriesInv' /\ LinksInv' /\ AssignedExist'
  BY <1>1, <1>4, AnswersPersist
<1>6. ButtonsWait'
  BY <1>1 DEF ButtonsWait
<1> QED BY <1>2, <1>3, <1>5, <1>6 DEF CatalogIInv

LEMMA OpenPanelKeeps ==
    ASSUME CatalogIInv, NEW which \in {"tags", "correspondents"}, OpenPanel(which) PROVE CatalogIInv'
<1>1. panel' = [ClosedPanel EXCEPT !.open = which]
      /\ UNCHANGED <<names, links, listed, held, filters, tasks, drops, dirty>>
  BY DEF OpenPanel
<1>2. panel' \in PanelRecord /\ panel'.editing = Nobody /\ panel'.deleting = Nobody /\ ~panel'.creating /\ ~panel'.saving
  BY <1>1 DEF ClosedPanel, PanelRecord
<1>3. CatalogTyped
  BY DEF CatalogIInv
<1>4. (panel.editing \in PanelKind \cup {Nobody})' /\ (panel.deleting \in PanelKind \cup {Nobody})'
  BY <1>2
<1> QED BY <1>1, <1>2, <1>3, <1>4, IdleKeeps DEF CatalogTyped

LEMMA StartEditKeeps == ASSUME CatalogIInv, NEW i \in Entries, StartEdit(i) PROVE CatalogIInv'
<1>1. CatalogTyped
  BY DEF CatalogIInv
<1>2. /\ panel' = [panel EXCEPT !.editing = i] /\ i \in PanelKind
      /\ UNCHANGED <<names, links, listed, held, filters, tasks, drops, dirty>>
  BY DEF StartEdit, Rows
<1>3. /\ panel' \in PanelRecord /\ panel'.editing = i /\ panel'.deleting = panel.deleting /\ panel'.open = panel.open
      /\ panel'.creating = panel.creating /\ panel'.saving = panel.saving
  BY <1>1, <1>2 DEF PanelRecord, CatalogTyped
<1>4. (panel.editing \in PanelKind \cup {Nobody})' /\ (panel.deleting \in PanelKind \cup {Nobody})'
  BY <1>1, <1>2, <1>3 DEF PanelKind, CatalogTyped
<1> QED BY <1>1, <1>2, <1>3, <1>4, IdleKeeps DEF CatalogTyped

LEMMA CancelEditKeeps == ASSUME CatalogIInv, CancelEdit PROVE CatalogIInv'
<1>1. CatalogTyped
  BY DEF CatalogIInv
<1>2. /\ panel' = EditOver(panel)
      /\ UNCHANGED <<names, links, listed, held, filters, tasks, drops, dirty>>
  BY DEF CancelEdit
<1>3. /\ panel' \in PanelRecord /\ panel'.editing = Nobody /\ panel'.deleting = panel.deleting /\ panel'.open = panel.open
      /\ panel'.creating = panel.creating /\ ~panel'.saving
  BY <1>1, <1>2 DEF PanelRecord, CatalogTyped, EditOver
<1>4. (panel.editing \in PanelKind \cup {Nobody})' /\ (panel.deleting \in PanelKind \cup {Nobody})'
  BY <1>1, <1>2, <1>3 DEF PanelKind, CatalogTyped
<1> QED BY <1>1, <1>2, <1>3, <1>4, IdleKeeps DEF CatalogTyped

LEMMA FilterByTagKeeps == ASSUME CatalogIInv, NEW i \in Entries, FilterByTag(i) PROVE CatalogIInv'
<1>1. CatalogTyped
  BY DEF CatalogIInv
<1>2. /\ i \in Tags \cap Existing(listed) /\ filters' = (filters \ {i}) \cup ({i} \ filters)
      /\ UNCHANGED <<names, links, listed, held, tasks, panel, drops, dirty>>
  BY DEF FilterByTag
<1>3. filters' \in SUBSET Tags /\ \A j \in filters' : j \in filters \/ j \in Existing(listed)
  BY <1>1, <1>2 DEF CatalogTyped
<1>4. (panel.editing \in PanelKind \cup {Nobody})' /\ (panel.deleting \in PanelKind \cup {Nobody})'
  BY <1>1, <1>2 DEF PanelKind, CatalogTyped
<1> QED BY <1>1, <1>2, <1>3, <1>4, IdleKeeps DEF CatalogTyped

LEMMA ReportDropsKeeps == ASSUME CatalogIInv, ReportDrops PROVE CatalogIInv'
<1>1. CatalogTyped
  BY DEF CatalogIInv
<1>2. /\ drops' = [drops EXCEPT !.results = {}]
      /\ UNCHANGED <<names, links, listed, held, filters, tasks, panel, dirty>>
  BY DEF ReportDrops
<1>3. drops' \in [pending : Nat, results : SUBSET TaskOps] /\ drops'.pending = drops.pending
  BY <1>1, <1>2 DEF CatalogTyped
<1>4. (panel.editing \in PanelKind \cup {Nobody})' /\ (panel.deleting \in PanelKind \cup {Nobody})'
  BY <1>1, <1>2 DEF PanelKind, CatalogTyped
<1> QED BY <1>1, <1>2, <1>3, <1>4, IdleKeeps DEF CatalogTyped

\* The handlers of a closed panel go on as any other.
LEMMA ClosePanelKeeps == ASSUME CatalogIInv, ClosePanel PROVE CatalogIInv'
<1>1. CatalogTyped /\ MeetingsAreDirty /\ EntriesInv /\ LinksInv /\ AssignedExist
  BY DEF CatalogIInv
<1>2. /\ panel' = ClosedPanel
      /\ tasks' = [c \in TaskIds |-> IF tasks[c].via = "panel" THEN [tasks[c] EXCEPT !.via = "document"] ELSE tasks[c]]
      /\ UNCHANGED <<names, links, listed, held, filters, drops, dirty>>
  BY DEF ClosePanel
<1>3. tasks \in [TaskIds -> TaskRecord]
  BY <1>1 DEF CatalogTyped
<1>4. ASSUME NEW c \in TaskIds
      PROVE  /\ SameAnswer(tasks'[c], tasks[c]) /\ tasks'[c] \in TaskRecord
             /\ tasks'[c].via = "drag" <=> tasks[c].via = "drag"
             /\ tasks[c].via # "panel" => tasks'[c] = tasks[c]
  BY <1>2, <1>3 DEF TaskRecord, SameAnswer, SameCall
<1>5. EntriesInv' /\ LinksInv' /\ AssignedExist'
  BY <1>1, <1>2, <1>4, AnswersPersist
<1>6. MeetingsAreDirty'
  <2>1. \A c \in TaskIds : /\ WritesEntries(tasks'[c]) = WritesEntries(tasks[c])
                          /\ ChangesEntries(tasks'[c]) = ChangesEntries(tasks[c])
                          /\ WritesLinks(tasks'[c]) = WritesLinks(tasks[c])
                          /\ ChangesLinks(tasks'[c]) = ChangesLinks(tasks[c])
    BY <1>4, CallDecides DEF SameAnswer
  <2> QED BY <1>1, <1>2, <2>1 DEF MeetingsAreDirty
<1>7. ButtonsWait'
  BY <1>2 DEF ButtonsWait, ClosedPanel
<1>8. CatalogTyped'
  <2>1. Dragging(tasks') = Dragging(tasks)
    BY <1>4 DEF Dragging
  <2>2. panel' \in PanelRecord /\ panel'.editing = Nobody /\ panel'.deleting = Nobody
    BY <1>2 DEF ClosedPanel, PanelRecord
  <2>3. tasks' \in [TaskIds -> TaskRecord]
    <3>1. DOMAIN tasks' = TaskIds /\ tasks' = [c \in DOMAIN tasks' |-> tasks'[c]]
      BY <1>2
    <3> QED BY <1>4, <3>1
  <2>4. \A c \in TaskIds : tasks'[c].op = "none" => tasks'[c] = Resting
    <3> SUFFICES ASSUME NEW c \in TaskIds, tasks'[c].op = "none" PROVE tasks'[c] = Resting
      OBVIOUS
    <3>1. tasks[c].op = "none"
      BY <1>4 DEF SameAnswer, SameCall
    <3>2. tasks[c] = Resting
      BY <1>1, <3>1 DEF CatalogTyped
    <3> QED BY <1>4, <3>2, RestingFields
  <2> QED BY <1>1, <1>2, <2>1, <2>2, <2>3, <2>4 DEF CatalogTyped
<1> QED BY <1>5, <1>6, <1>7, <1>8 DEF CatalogIInv

-----------------------------------------------------------------------------
(* Tags and correspondents: the server.                                    *)

\* A handler in place of another of the same origin and call leaves the rest typed.
LEMMA ServedKeepsShape ==
    ASSUME CatalogIInv, NEW c \in TaskIds, NEW q \in TaskRecord, SameCall(q, tasks[c]), q.via = tasks[c].via,
           tasks[c].stage = "sent", tasks' = [tasks EXCEPT ![c] = q],
           names' \in [Entries -> {"none", "old", "new", "gone"}], links' \in SUBSET AllPairs,
           UNCHANGED <<listed, held, filters, panel, drops, dirty>>
    PROVE  CatalogTyped' /\ MeetingsAreDirty' /\ ButtonsWait'
<1>1. CatalogTyped /\ MeetingsAreDirty /\ ButtonsWait
  BY DEF CatalogIInv
<1>2. tasks \in [TaskIds -> TaskRecord] /\ \A e \in TaskIds : tasks'[e] = IF e = c THEN q ELSE tasks[e]
  BY <1>1 DEF CatalogTyped
<1>3. \A e \in TaskIds : SameCall(tasks'[e], tasks[e]) /\ tasks'[e].via = tasks[e].via
  BY <1>2 DEF SameCall
<1>4. MeetingsAreDirty'
  <2>1. \A e \in TaskIds : /\ WritesEntries(tasks'[e]) = WritesEntries(tasks[e])
                          /\ ChangesEntries(tasks'[e]) = ChangesEntries(tasks[e])
                          /\ WritesLinks(tasks'[e]) = WritesLinks(tasks[e])
                          /\ ChangesLinks(tasks'[e]) = ChangesLinks(tasks[e])
    BY <1>3, CallDecides
  <2> QED BY <1>1, <2>1 DEF MeetingsAreDirty
<1>5. ButtonsWait'
  BY <1>1, <1>3 DEF ButtonsWait, SameCall
<1>6. CatalogTyped'
  <2>1. Dragging(tasks') = Dragging(tasks)
    BY <1>3 DEF Dragging
  <2>2. tasks[c].op # "none"
    BY <1>1, RestingFields DEF CatalogTyped
  <2>3. \A e \in TaskIds : tasks'[e].op = "none" => tasks'[e] = Resting
    BY <1>1, <1>2, <1>3, <2>2 DEF CatalogTyped, SameCall
  <2>4. tasks' \in [TaskIds -> TaskRecord]
    BY <1>2
  <2> QED BY <1>1, <2>1, <2>3, <2>4 DEF CatalogTyped, PanelKind
<1> QED BY <1>4, <1>5, <1>6

\* What a served call changes on the server.
LEMMA ServerChanges ==
    ASSUME CatalogIInv, NEW c \in TaskIds, NEW q, q = tasks[c], Feasible(q),
           names' = [i \in Entries |-> IF i \notin ChangesEntries(q) THEN names[i]
                                       ELSE IF q.op = "create" THEN "old"
                                       ELSE IF q.op = "rename" THEN "new" ELSE "gone"],
           links' = IF q.op = "link" THEN links \cup ChangesLinks(q) ELSE links \ ChangesLinks(q)
    PROVE  /\ names' \in [Entries -> {"none", "old", "new", "gone"}] /\ links' \in SUBSET AllPairs
           /\ \A i \in Entries : i \notin ChangesEntries(q) => names'[i] = names[i]
           /\ \A p \in AllPairs : p \notin ChangesLinks(q) => (p \in links' <=> p \in links)
           /\ \A i \in Existing(names) : i \in Existing(names') \/ (q.op = "delete" /\ i \in q.items)
           /\ \A i \in Existing(names') : i \in Existing(names) \/ (q.op = "create" /\ names[i] = "none")
           /\ \A i \in Entries : names[i] # "none" => names'[i] # "none"
           /\ \A i \in Entries : names[i] = "gone" => names'[i] = "gone"
           /\ \A p \in links' : p[2] \in Existing(names')
<1>1. /\ names \in [Entries -> {"none", "old", "new", "gone"}] /\ links \in SUBSET AllPairs
      /\ q \in TaskRecord /\ \A p \in links : p[2] \in Existing(names)
  BY DEF CatalogIInv, CatalogTyped, AssignedExist
<1>2. /\ q.op = "create" => \A i \in q.items : names[i] = "none"
      /\ q.op \in {"rename", "delete", "link"} => q.items \subseteq Existing(names)
  BY DEF Feasible
<1>3. q.items \in SUBSET Entries /\ q.docs \in SUBSET Papers
  BY <1>1 DEF TaskRecord
<1>4. ChangesLinks(q) \in SUBSET AllPairs
  BY <1>3 DEF ChangesLinks, WritesLinks, AllPairs, Pairs
<1>5. names' \in [Entries -> {"none", "old", "new", "gone"}] /\ links' \in SUBSET AllPairs
  BY <1>1, <1>4
<1>6. \A p \in AllPairs : p \notin ChangesLinks(q) => (p \in links' <=> p \in links)
  BY <1>1
<1>7. ASSUME NEW i \in Entries
      PROVE  /\ i \notin ChangesEntries(q) => names'[i] = names[i]
             /\ i \in Existing(names) => i \in Existing(names') \/ (q.op = "delete" /\ i \in q.items)
             /\ i \in Existing(names') => i \in Existing(names) \/ (q.op = "create" /\ names[i] = "none")
             /\ names[i] # "none" => names'[i] # "none"
             /\ names[i] = "gone" => names'[i] = "gone"
  <2>1. CASE i \notin ChangesEntries(q)
    BY <2>1 DEF Existing
  <2>2. CASE i \in ChangesEntries(q)
    <3>1. i \in q.items /\ q.op \in {"create", "rename", "delete"}
      BY <2>2 DEF ChangesEntries
    <3>2. names'[i] = IF q.op = "create" THEN "old" ELSE IF q.op = "rename" THEN "new" ELSE "gone"
      BY <2>2
    <3> QED BY <1>2, <2>2, <3>1, <3>2 DEF Existing
  <2> QED BY <2>1, <2>2
<1>8. \A i \in Entries : i \in Existing(names) => i \in Existing(names') \/ (q.op = "delete" /\ i \in q.items)
  BY <1>7
<1>9. ASSUME NEW p \in links' PROVE p[2] \in Existing(names')
  <2>1. p \in AllPairs /\ p[1] \in Papers /\ p[2] \in Entries /\ p = <<p[1], p[2]>>
    BY <1>5 DEF AllPairs, Pairs
  <2>2. CASE q.op = "link"
    <3>1. p \in links \/ p \in Pairs(q.docs, q.items)
      BY <2>2 DEF ChangesLinks, WritesLinks
    <3>2. p[2] \in Existing(names)
      BY <1>1, <1>2, <2>2, <3>1 DEF Pairs
    <3> QED BY <1>8, <2>1, <2>2, <3>2
  <2>3. CASE q.op # "link"
    <3>1. p \in links /\ p \notin ChangesLinks(q)
      BY <2>3
    <3>2. q.op = "delete" => p[2] \notin q.items
      BY <2>1, <3>1 DEF ChangesLinks, WritesLinks, Pairs
    <3> QED BY <1>1, <1>8, <2>1, <3>1, <3>2
  <2> QED BY <2>2, <2>3
<1>10. \A i \in Existing(names) : i \in Entries
  BY DEF Existing
<1>11. \A i \in Existing(names') : i \in Entries
  BY DEF Existing
<1> QED BY <1>5, <1>6, <1>7, <1>9, <1>10, <1>11

LEMMA ServeEntriesKeep ==
    ASSUME CatalogIInv, NEW c \in TaskIds, NEW q, q = tasks[c], q.stage = "sent", Feasible(q),
           names' = [i \in Entries |-> IF i \notin ChangesEntries(q) THEN names[i]
                                       ELSE IF q.op = "create" THEN "old"
                                       ELSE IF q.op = "rename" THEN "new" ELSE "gone"],
           links' = IF q.op = "link" THEN links \cup ChangesLinks(q) ELSE links \ ChangesLinks(q),
           NEW r, SameCall(r, q), r.stage = "answered", r.ok,
           r.told = (IF q.op \in {"list", "title"} THEN [names |-> Seen(names), links |-> links] ELSE q.told),
           tasks' = [tasks EXCEPT ![c] = r],
           UNCHANGED <<listed, held, filters, dirty>>
    PROVE  EntriesInv' /\ LinksInv' /\ AssignedExist'
<1>1. CatalogTyped /\ MeetingsAreDirty /\ EntriesInv /\ LinksInv /\ AssignedExist
  BY DEF CatalogIInv
<1>2. \A e \in TaskIds : tasks'[e] = IF e = c THEN r ELSE tasks[e]
  BY <1>1 DEF CatalogTyped
<1>3. /\ ~Succeeded(c) /\ Succeeded(c)' /\ tasks'[c] = r
      /\ \A e \in TaskIds : e # c => tasks'[e] = tasks[e] /\ (Succeeded(e)' <=> Succeeded(e))
      /\ \A e \in TaskIds : Succeeded(e) => e # c /\ Succeeded(e)' /\ tasks'[e] = tasks[e]
      /\ \A e \in TaskIds : Succeeded(e)' /\ e # c => Succeeded(e) /\ tasks'[e] = tasks[e]
  BY <1>2 DEF Succeeded
<1>4. /\ r.op = q.op /\ r.items = q.items /\ r.docs = q.docs
      /\ WritesEntries(r) = WritesEntries(q) /\ ChangesEntries(r) = ChangesEntries(q)
      /\ WritesLinks(r) = WritesLinks(q) /\ ChangesLinks(r) = ChangesLinks(q)
  BY CallDecides DEF SameCall
<1>5. /\ \A i \in Entries : i \notin ChangesEntries(q) => names'[i] = names[i]
      /\ \A p \in AllPairs : p \notin ChangesLinks(q) => (p \in links' <=> p \in links)
      /\ \A i \in Existing(names) : i \in Existing(names') \/ (q.op = "delete" /\ i \in q.items)
      /\ \A i \in Existing(names') : i \in Existing(names) \/ (q.op = "create" /\ names[i] = "none")
      /\ \A i \in Entries : names[i] # "none" => names'[i] # "none"
      /\ \A i \in Entries : names[i] = "gone" => names'[i] = "gone"
      /\ \A p \in links' : p[2] \in Existing(names')
      /\ names' \in [Entries -> {"none", "old", "new", "gone"}]
  BY ServerChanges
<1>6. /\ q \in TaskRecord /\ q.items \in SUBSET Entries /\ \A e \in TaskIds : tasks[e] \in TaskRecord
      /\ names \in [Entries -> {"none", "old", "new", "gone"}]
      /\ links \in SUBSET AllPairs /\ held \in SUBSET AllPairs /\ filters \in SUBSET Tags
  BY <1>1 DEF CatalogTyped, TaskRecord
<1>7. /\ ChangesEntries(q) \subseteq WritesEntries(q) /\ ChangesLinks(q) \subseteq WritesLinks(q)
      /\ \A e \in TaskIds : ChangesEntries(tasks[e]) \subseteq WritesEntries(tasks[e])
  BY DEF ChangesEntries, WritesEntries, ChangesLinks
\* Another call's writes and this one's changes do not meet on what is clean.
<1>8. \A e \in TaskIds : e # c =>
        /\ WritesEntries(tasks[e]) \cap ChangesEntries(q) \subseteq dirty
        /\ WritesEntries(q) \cap ChangesEntries(tasks[e]) \subseteq dirty
        /\ WritesLinks(tasks[e]) \cap ChangesLinks(q) \subseteq dirty
  BY <1>1 DEF MeetingsAreDirty
<1>9. /\ \A i \in Entries : Seen(names)[i] = IF names[i] = "gone" THEN "none" ELSE names[i]
      /\ \A i \in Entries : Seen(names')[i] = IF names'[i] = "gone" THEN "none" ELSE names'[i]
  BY DEF Seen
<1>10. ASSUME NEW i \in Entries, Going(i) PROVE Going(i)'
  BY <1>3, <1>10 DEF Going
<1>11. ASSUME NEW i \in Entries, i \in Existing(names) PROVE i \in Existing(names') \/ Going(i)'
  BY <1>3, <1>4, <1>5, <1>11 DEF Going
<1>12. EntriesInv'
  <2> SUFFICES ASSUME NEW i \in Entries, i \notin dirty
               PROVE  /\ \A e \in TaskIds : Succeeded(e)' => Holds(e, i)'
                      /\ ~Awaited(i)' => listed[i] = Seen(names')[i]
                      /\ i \in filters => i \in Existing(names') \/ Going(i)'
    BY DEF EntriesInv
  <2>1. /\ \A e \in TaskIds : Succeeded(e) => Holds(e, i)
        /\ ~Awaited(i) => listed[i] = Seen(names)[i]
        /\ i \in filters => i \in Existing(names) \/ Going(i)
    BY <1>1 DEF EntriesInv
  <2>2. ASSUME NEW e \in TaskIds, Succeeded(e)', e # c PROVE Holds(e, i)'
    <3>1. Succeeded(e) /\ tasks'[e] = tasks[e] /\ Holds(e, i)
      BY <1>3, <2>1, <2>2
    <3>2. i \in WritesEntries(tasks[e]) => names'[i] = names[i]
      BY <1>5, <1>8, <2>2
    <3>3. i \in ChangesEntries(tasks[e]) => i \in WritesEntries(tasks[e])
      BY <1>7
    <3> QED BY <1>9, <3>1, <3>2, <3>3 DEF Holds
  <2>3. Holds(c, i)'
    <3>1. i \in ChangesEntries(r) =>
            names'[i] = IF r.op = "create" THEN "old" ELSE IF r.op = "rename" THEN "new" ELSE "gone"
      BY <1>4
    <3>2. r.op = "rename" /\ i \in r.items => listed[i] # "none"
      <4> SUFFICES ASSUME r.op = "rename", i \in r.items PROVE listed[i] # "none"
        OBVIOUS
      <4>1. i \in Existing(names) /\ i \in WritesEntries(q)
        BY <1>4 DEF Feasible, WritesEntries
      <4>2. ~Awaited(i)
        BY <1>3, <1>8, <4>1 DEF Awaited
      <4> QED BY <1>9, <2>1, <4>1, <4>2 DEF Existing
    <3>3. r.op \in {"list", "title"} => r.told.names[i] = Seen(names')[i]
      <4> SUFFICES ASSUME r.op \in {"list", "title"} PROVE r.told.names[i] = Seen(names')[i]
        OBVIOUS
      <4>1. i \notin ChangesEntries(q)
        BY <1>4 DEF ChangesEntries
      <4> QED BY <1>4, <1>5, <1>9, <4>1
    <3> QED BY <1>3, <3>1, <3>2, <3>3 DEF Holds
  <2>4. ASSUME ~Awaited(i)' PROVE listed[i] = Seen(names')[i]
    <3>1. i \notin ChangesEntries(q)
      BY <1>3, <1>4, <2>4 DEF Awaited
    <3>2. ~Awaited(i)
      BY <1>3, <2>4 DEF Awaited
    <3> QED BY <1>5, <1>9, <2>1, <3>1, <3>2
  <2>5. i \in filters => i \in Existing(names') \/ Going(i)'
    BY <1>10, <1>11, <2>1
  <2> QED BY <2>2, <2>3, <2>4, <2>5
<1>13. LinksInv'
  <2> SUFFICES ASSUME NEW p \in AllPairs, p \notin dirty
               PROVE  /\ \A e \in TaskIds : Succeeded(e)' => HoldsLink(e, p)'
                      /\ ~AwaitedLink(p)' /\ p[2] \in Existing(names') => (p \in held <=> p \in links')
                      /\ p \in held /\ p[2] \in Correspondents => p[2] \in Existing(names') \/ Going(p[2])'
    BY DEF LinksInv
  <2>1. /\ \A e \in TaskIds : Succeeded(e) => HoldsLink(e, p)
        /\ ~AwaitedLink(p) /\ p[2] \in Existing(names) => (p \in held <=> p \in links)
        /\ p \in held /\ p[2] \in Correspondents => p[2] \in Existing(names) \/ Going(p[2])
    BY <1>1 DEF LinksInv
  <2>2. p[2] \in Entries
    BY DEF AllPairs, Pairs
  <2>3. ASSUME NEW e \in TaskIds, Succeeded(e)', e # c PROVE HoldsLink(e, p)'
    <3>1. Succeeded(e) /\ tasks'[e] = tasks[e] /\ HoldsLink(e, p)
      BY <1>3, <2>1, <2>3
    <3>2. p \in WritesLinks(tasks[e]) => (p \in links' <=> p \in links)
      BY <1>5, <1>8, <2>3
    <3> QED BY <3>1, <3>2 DEF HoldsLink
  <2>4. HoldsLink(c, p)'
    <3>1. r.op = "link" /\ p \in WritesLinks(r) => p \in links'
      BY <1>4 DEF ChangesLinks
    <3>2. r.op = "unlink" /\ p \in WritesLinks(r) => p \notin links'
      BY <1>4 DEF ChangesLinks
    <3>3. r.op = "title" => (p \in r.told.links <=> p \in links')
      BY <1>4 DEF ChangesLinks
    <3> QED BY <1>3, <3>1, <3>2, <3>3 DEF HoldsLink
  <2>5. ASSUME ~AwaitedLink(p)', p[2] \in Existing(names') PROVE p \in held <=> p \in links'
    <3>1. p \notin ChangesLinks(q)
      BY <1>3, <1>4, <2>5 DEF AwaitedLink
    <3>2. ~AwaitedLink(p)
      BY <1>3, <2>5 DEF AwaitedLink
    <3>3. CASE p[2] \in Existing(names)
      BY <1>5, <2>1, <3>1, <3>2, <3>3
    <3>4. CASE p[2] \notin Existing(names)
      <4>1. names[p[2]] = "none"
        BY <1>5, <2>5, <3>4
      <4>2. p \notin held /\ p \notin links
        BY <1>1, <3>4, <4>1 DEF AssignedExist
      <4> QED BY <1>5, <3>1, <4>2
    <3> QED BY <3>3, <3>4
  <2>6. p \in held /\ p[2] \in Correspondents => p[2] \in Existing(names') \/ Going(p[2])'
    BY <1>10, <1>11, <2>1, <2>2
  <2> QED BY <2>3, <2>4, <2>5, <2>6
<1>14. AssignedExist'
  <2>1. \A p \in held : names'[p[2]] # "none"
    <3> SUFFICES ASSUME NEW p \in held PROVE names'[p[2]] # "none"
      OBVIOUS
    <3>1. p[2] \in Entries /\ names[p[2]] # "none"
      BY <1>1, <1>6 DEF AssignedExist, AllPairs, Pairs
    <3> QED BY <1>5, <3>1
  <2>2. ASSUME NEW e \in TaskIds, Succeeded(e)', e # c
        PROVE  /\ tasks'[e].op = "link" => \A i \in tasks'[e].items : names'[i] # "none"
               /\ tasks'[e].op = "title" => \A p \in tasks'[e].told.links : names'[p[2]] # "none"
               /\ tasks'[e].op = "delete" => \A i \in tasks'[e].items : names'[i] = "gone"
    <3>1. /\ Succeeded(e) /\ tasks'[e] = tasks[e] /\ tasks[e].items \in SUBSET Entries
          /\ tasks[e].told.links \in SUBSET AllPairs
      BY <1>3, <1>6, <2>2 DEF TaskRecord, Answer
    <3>2. /\ tasks[e].op = "link" => \A i \in tasks[e].items : names[i] # "none"
          /\ tasks[e].op = "title" => \A p \in tasks[e].told.links : names[p[2]] # "none"
          /\ tasks[e].op = "delete" => \A i \in tasks[e].items : names[i] = "gone"
      BY <1>1, <3>1 DEF AssignedExist
    <3>3. \A p \in tasks[e].told.links : p[2] \in Entries
      BY <3>1 DEF AllPairs, Pairs
    <3> QED BY <1>5, <3>1, <3>2, <3>3
  <2>3. /\ r.op = "link" => \A i \in r.items : names'[i] # "none"
        /\ r.op = "delete" => \A i \in r.items : names'[i] = "gone"
    <3>1. r.op = "link" => \A i \in r.items : names[i] # "none"
      BY <1>4, <1>6 DEF Feasible, Existing
    <3>2. r.op = "delete" => \A i \in r.items : i \in ChangesEntries(q)
      BY <1>4 DEF ChangesEntries
    <3> QED BY <1>4, <1>5, <1>6, <3>1, <3>2
  <2>4. r.op = "title" => \A p \in r.told.links : names'[p[2]] # "none"
    <3> SUFFICES ASSUME r.op = "title", NEW p \in r.told.links PROVE names'[p[2]] # "none"
      OBVIOUS
    <3>1. p \in links /\ p[2] \in Existing(names)
      BY <1>1, <1>4 DEF AssignedExist
    <3> QED BY <1>5, <3>1 DEF Existing
  <2> QED BY <1>3, <1>5, <2>1, <2>2, <2>3, <2>4 DEF AssignedExist
<1> QED BY <1>12, <1>13, <1>14

LEMMA ServeTaskKeeps == ASSUME CatalogIInv, NEW c \in TaskIds, ServeTask(c) PROVE CatalogIInv'
<1>1. PICK q : q = tasks[c]
  OBVIOUS
<1>2. CatalogTyped /\ MeetingsAreDirty /\ EntriesInv /\ LinksInv /\ AssignedExist /\ ButtonsWait
  BY DEF CatalogIInv
<1>3. tasks \in [TaskIds -> TaskRecord] /\ q \in TaskRecord /\ q.ok \in BOOLEAN
  BY <1>1, <1>2 DEF CatalogTyped, TaskRecord
<1>4. q.stage = "sent" /\ UNCHANGED <<listed, held, filters, panel, drops, dirty>>
  BY <1>1 DEF ServeTask
<1>5. CASE /\ Feasible(q)
           /\ names' = [i \in Entries |-> IF i \notin ChangesEntries(q) THEN names[i]
                                          ELSE IF q.op = "create" THEN "old"
                                          ELSE IF q.op = "rename" THEN "new" ELSE "gone"]
           /\ links' = IF q.op = "link" THEN links \cup ChangesLinks(q) ELSE links \ ChangesLinks(q)
           /\ tasks' = [tasks EXCEPT ![c].stage = "answered",
                          ![c].told = IF q.op \in {"list", "title"} THEN [names |-> Seen(names), links |-> links] ELSE @]
  <2>1. PICK t : t = IF q.op \in {"list", "title"} THEN [names |-> Seen(names), links |-> links] ELSE q.told
    OBVIOUS
  <2>2. t \in Answer
    <3>1. q.told \in Answer
      BY <1>3 DEF TaskRecord
    <3>2. [names |-> Seen(names), links |-> links] \in Answer
      BY <1>2 DEF Answer, Seen, CatalogTyped
    <3> QED BY <2>1, <3>1, <3>2
  <2>3. PICK r : r = [q EXCEPT !.stage = "answered", !.told = t]
    OBVIOUS
  <2>4. tasks' = [tasks EXCEPT ![c] = r]
    BY <1>1, <1>3, <1>5, <2>1, <2>3
  <2>5. /\ r \in TaskRecord /\ SameCall(r, q) /\ r.via = q.via /\ r.stage = "answered" /\ r.told = t /\ r.ok = q.ok
    BY <1>3, <2>2, <2>3 DEF TaskRecord, SameCall
  <2>6. names' \in [Entries -> {"none", "old", "new", "gone"}] /\ links' \in SUBSET AllPairs
    BY <1>1, <1>5, ServerChanges
  <2>7. CatalogTyped' /\ MeetingsAreDirty' /\ ButtonsWait'
    BY <1>1, <1>4, <2>4, <2>5, <2>6, ServedKeepsShape
  <2>8. CASE r.ok
    <3>1. EntriesInv' /\ LinksInv' /\ AssignedExist'
      BY <1>1, <1>4, <1>5, <2>1, <2>4, <2>5, <2>8, ServeEntriesKeep
    <3> QED BY <2>7, <3>1 DEF CatalogIInv
  <2>9. q.ok
    BY <1>3, <1>4 DEF TaskRecord
  <2> QED BY <2>5, <2>8, <2>9
<1>6. CASE /\ tasks' = [tasks EXCEPT ![c].stage = "answered", ![c].ok = FALSE]
           /\ UNCHANGED <<names, links>>
  <2>1. PICK r : r = [q EXCEPT !.stage = "answered", !.ok = FALSE]
    OBVIOUS
  <2>2. tasks' = [tasks EXCEPT ![c] = r]
    BY <1>1, <1>3, <1>6, <2>1
  <2>3. r \in TaskRecord /\ SameCall(r, q) /\ r.via = q.via /\ r.stage = "answered" /\ ~r.ok
    BY <1>3, <2>1 DEF TaskRecord, SameCall
  <2>4. names' \in [Entries -> {"none", "old", "new", "gone"}] /\ links' \in SUBSET AllPairs
    BY <1>2, <1>6 DEF CatalogTyped
  <2>5. CatalogTyped' /\ MeetingsAreDirty' /\ ButtonsWait'
    BY <1>1, <1>4, <2>2, <2>3, <2>4, ServedKeepsShape
  <2>6. ASSUME NEW e \in TaskIds
        PROVE  SameAnswer(tasks'[e], tasks[e]) \/ (~Succeeded(e) /\ ~Succeeded(e)')
    <3>1. CASE e = c
      BY <1>1, <1>3, <1>4, <2>2, <2>3, <3>1 DEF Succeeded
    <3>2. CASE e # c
      BY <1>3, <2>2, <3>2 DEF SameAnswer, SameCall
    <3> QED BY <3>1, <3>2
  <2>7. EntriesInv' /\ LinksInv' /\ AssignedExist'
    BY <1>2, <1>4, <1>6, <2>6, AnswersPersist
  <2> QED BY <2>5, <2>7 DEF CatalogIInv
<1> QED BY <1>1, <1>5, <1>6 DEF ServeTask

-----------------------------------------------------------------------------
(* Tags and correspondents: the handlers resume.                           *)

\* What an answer makes of the managers' entries: nothing but what it writes,
\* what the call changed as the call changed it, the rest as it was told.
LEMMA ListedAfterFacts ==
    ASSUME NEW q \in TaskRecord, listed \in [Entries -> {"none", "old", "new"}]
    PROVE  /\ ListedAfter(q) \in [Entries -> {"none", "old", "new"}]
           /\ \A i \in Entries : i \notin WritesEntries(q) => ListedAfter(q)[i] = listed[i]
           /\ \A i \in ChangesEntries(q) :
                ListedAfter(q)[i] = IF q.op = "create" THEN "old"
                                    ELSE IF q.op = "rename" /\ listed[i] # "none" THEN "new" ELSE "none"
           /\ \A i \in Entries : i \notin ChangesEntries(q) => ListedAfter(q)[i] \in {listed[i], q.told.names[i]}
           /\ \A i \in q.items : q.op = "list" => ListedAfter(q)[i] = q.told.names[i]
           /\ q.op \notin {"list", "title"} =>
                \A i \in Entries : i \notin ChangesEntries(q) => ListedAfter(q)[i] = listed[i]
<1>1. q.items \in SUBSET Entries /\ q.told.names \in [Entries -> {"none", "old", "new"}]
  BY DEF TaskRecord, Answer
<1>2. CASE q.op = "list"
  <2>1. ListedAfter(q) = [i \in Entries |-> IF i \in q.items THEN q.told.names[i] ELSE listed[i]]
    BY <1>2 DEF ListedAfter
  <2>2. ChangesEntries(q) = {} /\ WritesEntries(q) = q.items
    BY <1>2 DEF ChangesEntries, WritesEntries
  <2> QED BY <1>1, <1>2, <2>1, <2>2
<1>3. CASE q.op = "create"
  <2>1. ListedAfter(q) = [i \in Entries |-> IF i \in q.items THEN "old" ELSE listed[i]]
    BY <1>3 DEF ListedAfter
  <2>2. ChangesEntries(q) = q.items /\ WritesEntries(q) = q.items
    BY <1>3 DEF ChangesEntries, WritesEntries
  <2> QED BY <1>1, <1>3, <2>1, <2>2
<1>4. CASE q.op = "rename"
  <2>1. ListedAfter(q) = [i \in Entries |-> IF i \in q.items /\ listed[i] # "none" THEN "new" ELSE listed[i]]
    BY <1>4 DEF ListedAfter
  <2>2. ChangesEntries(q) = q.items /\ WritesEntries(q) = q.items
    BY <1>4 DEF ChangesEntries, WritesEntries
  <2> QED BY <1>1, <1>4, <2>1, <2>2
<1>5. CASE q.op = "delete"
  <2>1. ListedAfter(q) = [i \in Entries |-> IF i \in q.items THEN "none" ELSE listed[i]]
    BY <1>5 DEF ListedAfter
  <2>2. ChangesEntries(q) = q.items /\ WritesEntries(q) = q.items
    BY <1>5 DEF ChangesEntries, WritesEntries
  <2> QED BY <1>1, <1>5, <2>1, <2>2
<1>6. CASE q.op = "title"
  <2>1. ListedAfter(q) = [i \in Entries |-> IF \E d \in q.docs : <<d, i>> \in q.told.links THEN q.told.names[i]
                                            ELSE listed[i]]
    BY <1>6 DEF ListedAfter
  <2>2. ChangesEntries(q) = {} /\ WritesEntries(q) = Entries
    BY <1>6 DEF ChangesEntries, WritesEntries
  <2>3. \A i \in Entries : ListedAfter(q)[i] \in {listed[i], q.told.names[i]}
    BY <2>1
  <2>4. \A i \in Entries : listed[i] \in {"none", "old", "new"} /\ q.told.names[i] \in {"none", "old", "new"}
    BY <1>1
  <2>5. ListedAfter(q) \in [Entries -> {"none", "old", "new"}]
    BY <2>1, <2>4
  <2> QED BY <1>6, <2>2, <2>3, <2>5
<1>7. CASE q.op \in {"none", "link", "unlink"}
  <2>1. ListedAfter(q) = listed /\ ChangesEntries(q) = {}
    BY <1>7 DEF ListedAfter, ChangesEntries
  <2> QED BY <1>1, <1>7, <2>1
<1> QED BY <1>2, <1>3, <1>4, <1>5, <1>6, <1>7 DEF TaskRecord, TaskOps

\* The same of the cached documents' assignments.
LEMMA HeldAfterFacts ==
    ASSUME NEW q \in TaskRecord, held \in SUBSET AllPairs
    PROVE  /\ HeldAfter(q) \in SUBSET AllPairs
           /\ \A p \in AllPairs : p \notin WritesLinks(q) => (p \in HeldAfter(q) <=> p \in held)
           /\ \A p \in WritesLinks(q) : /\ q.op = "link" => p \in HeldAfter(q)
                                        /\ q.op = "unlink" => p \notin HeldAfter(q)
                                        /\ q.op = "title" => (p \in HeldAfter(q) <=> p \in q.told.links)
                                        /\ q.op = "delete" => p \notin HeldAfter(q) \/ (p \in held /\ p[2] \in Tags)
           /\ \A p \in HeldAfter(q) : \/ p \in held
                                      \/ q.op = "link" /\ p[2] \in q.items
                                      \/ q.op = "title" /\ p \in q.told.links
<1>1. q.items \in SUBSET Entries /\ q.docs \in SUBSET Papers /\ q.told.links \in SUBSET AllPairs
  BY DEF TaskRecord, Answer
<1>2. CASE q.op = "link"
  <2>1. HeldAfter(q) = held \cup Pairs(q.docs, q.items) /\ WritesLinks(q) = Pairs(q.docs, q.items)
    BY <1>2 DEF HeldAfter, WritesLinks
  <2>2. Pairs(q.docs, q.items) \in SUBSET AllPairs /\ \A p \in Pairs(q.docs, q.items) : p[2] \in q.items
    BY <1>1 DEF AllPairs, Pairs
  <2> QED BY <1>2, <2>1, <2>2
<1>3. CASE q.op = "unlink"
  <2>1. HeldAfter(q) = held \ Pairs(q.docs, q.items) /\ WritesLinks(q) = Pairs(q.docs, q.items)
    BY <1>3 DEF HeldAfter, WritesLinks
  <2> QED BY <1>3, <2>1
<1>4. CASE q.op = "delete"
  <2>1. HeldAfter(q) = held \ Pairs(Papers, q.items \ Tags) /\ WritesLinks(q) = Pairs(Papers, q.items)
    BY <1>4 DEF HeldAfter, WritesLinks
  <2>2. \A p \in Pairs(Papers, q.items) : p \in Pairs(Papers, q.items \ Tags) \/ p[2] \in Tags
    BY DEF Pairs
  <2>3. Pairs(Papers, q.items \ Tags) \subseteq Pairs(Papers, q.items)
    BY DEF Pairs
  <2> QED BY <1>4, <2>1, <2>2, <2>3
<1>5. CASE q.op = "title"
  <2>1. /\ HeldAfter(q) = (held \ Pairs(q.docs, Entries)) \cup (q.told.links \cap Pairs(q.docs, Entries))
        /\ WritesLinks(q) = Pairs(q.docs, Entries)
    BY <1>5 DEF HeldAfter, WritesLinks
  <2> QED BY <1>1, <1>5, <2>1
<1>6. CASE q.op \in {"none", "list", "create", "rename"}
  <2>1. HeldAfter(q) = held /\ WritesLinks(q) = {}
    BY <1>6 DEF HeldAfter, WritesLinks
  <2> QED BY <1>6, <2>1
<1> QED BY <1>2, <1>3, <1>4, <1>5, <1>6 DEF TaskRecord, TaskOps

\* What follows a settled call: nothing, or the first of its further requests.
LEMMA NextTask ==
    ASSUME NEW q \in TaskRecord, NEW next,
           next = IF Remaining(q) = <<>> THEN Resting ELSE [Head(Remaining(q)) EXCEPT !.then = Tail(Remaining(q))]
    PROVE  /\ next \in TaskRecord /\ next.stage # "answered" /\ next.via = "document"
           /\ next.op = "none" => next = Resting
<1>1. PICK rest : rest = Remaining(q)
  OBVIOUS
<1>2. rest \in Seq(FollowUp)
  <2>1. CASE ~q.ok /\ q.op # "list"
    BY <1>1, <2>1, EmptySeq DEF Remaining
  <2>2. CASE ~(~q.ok /\ q.op # "list") /\ q.op = "rename" /\ \E i \in q.items : listed[i] = "none"
    <3>1. PICK i : i = CHOOSE j \in q.items : TRUE
      OBVIOUS
    <3>2. rest = <<Task("list", Kind(i), {})>>
      BY <1>1, <2>2, <3>1 DEF Remaining
    <3>3. Kind(i) \in SUBSET Entries /\ {} \in SUBSET Papers
      BY DEF Kind, Entries
    <3>4. Task("list", Kind(i), {}) \in FollowUp
      BY <3>3, FollowUps
    <3> QED BY <3>2, <3>4
  <2>3. CASE ~(~q.ok /\ q.op # "list") /\ ~(q.op = "rename" /\ \E i \in q.items : listed[i] = "none")
    BY <1>1, <2>3 DEF Remaining, TaskRecord
  <2> QED BY <2>1, <2>2, <2>3
<1>3. CASE rest = <<>>
  BY <1>1, <1>3, RestingFields
<1>4. CASE rest # <<>>
  <2>1. PICK h \in FollowUp : h = Head(rest)
    BY <1>2, <1>4
  <2>2. PICK r \in Seq(FollowUp) : r = Tail(rest)
    BY <1>2, <1>4, HeadTailProperties
  <2>3. next = [h EXCEPT !.then = r]
    BY <1>1, <1>4, <2>1, <2>2
  <2>4. h \in [op : TaskOps, items : SUBSET Entries, docs : SUBSET Papers, stage : {"sent"}, ok : {TRUE},
              told : Answer, then : Seq(FollowUp), via : {"document"}, edited : Entries \cup {Nobody}]
    <3>1. NothingTold \in Answer
      BY DEF NothingTold, Answer
    <3>2. <<>> \in Seq(FollowUp)
      BY EmptySeq
    <3> QED BY <3>1, <3>2 DEF FollowUp, TaskOps
  <2>5. h.op # "none"
    BY DEF FollowUp
  <2>6. next \in TaskRecord
    BY <2>3, <2>4 DEF TaskRecord
  <2> QED BY <2>3, <2>4, <2>5, <2>6
<1> QED BY <1>3, <1>4

\* The settled call counts for nothing any more; the others say what they said.
LEMMA SettleAnswersKeep ==
    ASSUME CatalogIInv, NEW c \in TaskIds, NEW q, q = tasks[c], q.stage = "answered",
           NEW next, next.stage # "answered", tasks' = [tasks EXCEPT ![c] = next],
           listed' = IF q.ok THEN ListedAfter(q) ELSE listed,
           held' = IF q.ok THEN HeldAfter(q) ELSE held,
           filters' = IF q.ok THEN FiltersAfter(q) ELSE filters,
           dirty \subseteq dirty', UNCHANGED <<names, links>>
    PROVE  EntriesInv' /\ LinksInv' /\ AssignedExist'
<1>1. CatalogTyped /\ MeetingsAreDirty /\ EntriesInv /\ LinksInv /\ AssignedExist
  BY DEF CatalogIInv
<1>2. \A e \in TaskIds : tasks'[e] = IF e = c THEN next ELSE tasks[e]
  BY <1>1 DEF CatalogTyped
<1>3. /\ ~Succeeded(c)' /\ (Succeeded(c) <=> q.ok)
      /\ \A e \in TaskIds : Succeeded(e)' => e # c /\ Succeeded(e) /\ tasks'[e] = tasks[e]
      /\ \A e \in TaskIds : Succeeded(e) /\ e # c => Succeeded(e)' /\ tasks'[e] = tasks[e]
  BY <1>2 DEF Succeeded
<1>4. /\ q \in TaskRecord /\ listed \in [Entries -> {"none", "old", "new"}] /\ held \in SUBSET AllPairs
      /\ names \in [Entries -> {"none", "old", "new", "gone"}]
  BY <1>1 DEF CatalogTyped
<1>5. /\ \A i \in Entries : i \notin WritesEntries(q) => listed'[i] = listed[i]
      /\ \A p \in AllPairs : p \notin WritesLinks(q) => (p \in held' <=> p \in held)
  BY <1>4, ListedAfterFacts, HeldAfterFacts
<1>6. \A e \in TaskIds : e # c =>
        /\ WritesEntries(q) \cap ChangesEntries(tasks[e]) \subseteq dirty
        /\ WritesLinks(q) \cap ChangesLinks(tasks[e]) \subseteq dirty
  BY <1>1 DEF MeetingsAreDirty
<1>7. /\ UNCHANGED names /\ Seen(names') = Seen(names)
      /\ \A i \in Entries : Seen(names)[i] = IF names[i] = "gone" THEN "none" ELSE names[i]
  BY DEF Seen
<1>8. ASSUME NEW i \in Entries, Going(i)
      PROVE  Going(i)' \/ (q.ok /\ q.op = "delete" /\ i \in q.items)
  BY <1>3, <1>8 DEF Going
<1>9. EntriesInv'
  <2> SUFFICES ASSUME NEW i \in Entries, i \notin dirty
               PROVE  /\ \A e \in TaskIds : Succeeded(e)' => Holds(e, i)'
                      /\ ~Awaited(i)' => listed'[i] = Seen(names)[i]
                      /\ i \in filters' => i \in Existing(names) \/ Going(i)'
    BY <1>7 DEF EntriesInv
  <2>1. /\ \A e \in TaskIds : Succeeded(e) => Holds(e, i)
        /\ ~Awaited(i) => listed[i] = Seen(names)[i]
        /\ i \in filters => i \in Existing(names) \/ Going(i)
    BY <1>1 DEF EntriesInv
  <2>2. ASSUME NEW e \in TaskIds, Succeeded(e)' PROVE Holds(e, i)'
    <3>1. e # c /\ Succeeded(e) /\ tasks'[e] = tasks[e] /\ Holds(e, i)
      BY <1>3, <2>1, <2>2
    <3>2. tasks[e].op = "rename" /\ i \in tasks[e].items => listed'[i] = listed[i]
      BY <1>5, <1>6, <3>1 DEF ChangesEntries
    <3> QED BY <1>7, <3>1, <3>2 DEF Holds
  <2>3. ASSUME ~Awaited(i)' PROVE listed'[i] = Seen(names)[i]
    <3>1. CASE q.ok /\ i \in ChangesEntries(q)
      <4>1. Holds(c, i)
        BY <1>3, <2>1, <3>1
      <4>2. listed'[i] = IF q.op = "create" THEN "old"
                         ELSE IF q.op = "rename" /\ listed[i] # "none" THEN "new" ELSE "none"
        BY <1>4, <3>1, ListedAfterFacts
      <4>3. q.op \in {"create", "rename", "delete"} /\ i \in q.items
        BY <3>1 DEF ChangesEntries
      <4> QED BY <1>7, <3>1, <4>1, <4>2, <4>3 DEF Holds
    <3>2. CASE ~(q.ok /\ i \in ChangesEntries(q))
      <4>1. ~Awaited(i)
        BY <1>3, <2>3, <3>2 DEF Awaited
      <4>2. listed[i] = Seen(names)[i]
        BY <2>1, <4>1
      <4>3. CASE q.ok /\ i \in WritesEntries(q)
        <5>1. Holds(c, i)
          BY <1>3, <2>1, <4>3
        <5>2. i \notin ChangesEntries(q)
          BY <3>2, <4>3
        <5>3. CASE q.op \in {"list", "title"}
          <6>1. listed'[i] \in {listed[i], q.told.names[i]}
            BY <1>4, <4>3, <5>2, ListedAfterFacts
          <6> QED BY <4>2, <4>3, <5>1, <5>3, <6>1 DEF Holds
        <5>4. CASE q.op \notin {"list", "title"}
          <6>1. listed'[i] = listed[i]
            BY <1>4, <4>3, <5>2, <5>4, ListedAfterFacts
          <6> QED BY <4>2, <6>1
        <5> QED BY <5>3, <5>4
      <4>4. CASE ~(q.ok /\ i \in WritesEntries(q))
        BY <1>5, <4>2, <4>4
      <4> QED BY <4>3, <4>4
    <3> QED BY <3>1, <3>2
  <2>4. ASSUME i \in filters' PROVE i \in Existing(names) \/ Going(i)'
    <3>1. i \in filters /\ ~(q.ok /\ q.op = "delete" /\ i \in q.items)
      BY <2>4 DEF FiltersAfter
    <3> QED BY <1>8, <2>1, <3>1
  <2> QED BY <2>2, <2>3, <2>4
<1>10. LinksInv'
  <2> SUFFICES ASSUME NEW p \in AllPairs, p \notin dirty
               PROVE  /\ \A e \in TaskIds : Succeeded(e)' => HoldsLink(e, p)'
                      /\ ~AwaitedLink(p)' /\ p[2] \in Existing(names) => (p \in held' <=> p \in links)
                      /\ p \in held' /\ p[2] \in Correspondents => p[2] \in Existing(names) \/ Going(p[2])'
    BY DEF LinksInv
  <2>1. /\ \A e \in TaskIds : Succeeded(e) => HoldsLink(e, p)
        /\ ~AwaitedLink(p) /\ p[2] \in Existing(names) => (p \in held <=> p \in links)
        /\ p \in held /\ p[2] \in Correspondents => p[2] \in Existing(names) \/ Going(p[2])
    BY <1>1 DEF LinksInv
  <2>2. p[1] \in Papers /\ p[2] \in Entries /\ p = <<p[1], p[2]>>
    BY DEF AllPairs, Pairs
  <2>3. ASSUME NEW e \in TaskIds, Succeeded(e)' PROVE HoldsLink(e, p)'
    <3>1. Succeeded(e) /\ tasks'[e] = tasks[e] /\ HoldsLink(e, p)
      BY <1>3, <2>1, <2>3
    <3> QED BY <3>1 DEF HoldsLink
  \* A success that was awaited, and is laid over the cache now.
  <2>4. ASSUME q.ok, p \in WritesLinks(q)
        PROVE  p[2] \in Existing(names) => (p \in held' <=> p \in links) \/ (q.op = "delete")
    <3>1. HoldsLink(c, p)
      BY <1>3, <2>1, <2>4
    <3>2. q.op \in {"link", "unlink", "title", "delete"}
      BY <2>4 DEF WritesLinks
    <3>3. /\ q.op = "link" => p \in held'
          /\ q.op = "unlink" => p \notin held'
          /\ q.op = "title" => (p \in held' <=> p \in q.told.links)
      BY <1>4, <2>4, HeldAfterFacts
    <3> QED BY <2>4, <3>1, <3>2, <3>3 DEF HoldsLink
  <2>5. ASSUME q.ok, q.op = "delete", p \in WritesLinks(q) PROVE p[2] \notin Existing(names)
    <3>1. p[2] \in q.items
      BY <2>5 DEF WritesLinks, Pairs
    <3>2. names[p[2]] = "gone"
      BY <1>1, <1>3, <2>5, <3>1 DEF AssignedExist
    <3> QED BY <3>2 DEF Existing
  <2>6. ASSUME ~AwaitedLink(p)', p[2] \in Existing(names) PROVE p \in held' <=> p \in links
    <3>1. CASE q.ok /\ p \in WritesLinks(q)
      BY <2>4, <2>5, <2>6, <3>1
    <3>2. CASE ~(q.ok /\ p \in WritesLinks(q))
      <4>1. ~(q.ok /\ p \in ChangesLinks(q))
        BY <3>2 DEF ChangesLinks
      <4>2. ~AwaitedLink(p)
        BY <1>3, <2>6, <4>1 DEF AwaitedLink
      <4> QED BY <1>5, <2>1, <2>6, <3>2, <4>2
    <3> QED BY <3>1, <3>2
  <2>7. ASSUME p \in held', p[2] \in Correspondents PROVE p[2] \in Existing(names) \/ Going(p[2])'
    <3>1. CASE p \in held
      <4>1. p[2] \in Existing(names) \/ Going(p[2])
        BY <2>1, <2>7, <3>1
      <4>2. ~(q.ok /\ q.op = "delete" /\ p[2] \in q.items)
        <5> SUFFICES ASSUME q.ok, q.op = "delete", p[2] \in q.items PROVE FALSE
          OBVIOUS
        <5>1. p \in WritesLinks(q)
          BY <2>2 DEF WritesLinks, Pairs
        <5>2. p[2] \in Tags
          BY <1>4, <2>7, <5>1, HeldAfterFacts
        <5> QED BY <2>7, <5>2, CatalogConstants
      <4> QED BY <1>8, <2>2, <4>1, <4>2
    <3>2. CASE p \notin held
      <4>1. q.ok /\ p \in WritesLinks(q)
        BY <1>5, <2>7, <3>2
      <4>2. q.op \in {"link", "title"}
        <5>1. (q.op = "link" /\ p[2] \in q.items) \/ (q.op = "title" /\ p \in q.told.links)
          BY <1>4, <2>7, <3>2, <4>1, HeldAfterFacts
        <5> QED BY <5>1
      <4>3. p \in links
        <5>1. HoldsLink(c, p)
          BY <1>3, <2>1, <4>1
        <5>2. q.op = "title" => p \in q.told.links
          BY <1>4, <2>7, <4>1, HeldAfterFacts
        <5> QED BY <4>1, <4>2, <5>1, <5>2 DEF HoldsLink
      <4> QED BY <1>1, <4>3 DEF AssignedExist
    <3> QED BY <3>1, <3>2
  <2> QED BY <2>3, <2>6, <2>7
<1>11. AssignedExist'
  <2>1. ASSUME NEW p \in held' PROVE names[p[2]] # "none"
    <3>1. CASE p \in held
      BY <1>1, <3>1 DEF AssignedExist
    <3>2. CASE p \notin held
      <4>1. q.ok /\ ((q.op = "link" /\ p[2] \in q.items) \/ (q.op = "title" /\ p \in q.told.links))
        BY <1>4, <2>1, <3>2, HeldAfterFacts
      <4> QED BY <1>1, <1>3, <4>1 DEF AssignedExist
    <3> QED BY <3>1, <3>2
  <2>2. ASSUME NEW e \in TaskIds, Succeeded(e)'
        PROVE  /\ tasks'[e].op = "link" => \A i \in tasks'[e].items : names[i] # "none"
               /\ tasks'[e].op = "title" => \A p \in tasks'[e].told.links : names[p[2]] # "none"
               /\ tasks'[e].op = "delete" => \A i \in tasks'[e].items : names[i] = "gone"
    BY <1>1, <1>3, <2>2 DEF AssignedExist
  <2>3. \A p \in links : p[2] \in Existing(names)
    BY <1>1 DEF AssignedExist
  <2> QED BY <2>1, <2>2, <2>3 DEF AssignedExist
<1> QED BY <1>9, <1>10, <1>11

\* The panel of a settled call: typed, and no button busy for that call's sake.
LEMMA PanelAfterFacts ==
    ASSUME CatalogTyped, NEW q \in TaskRecord, panel' = PanelAfter(q)
    PROVE  /\ panel' \in PanelRecord
           /\ (panel.editing \in PanelKind \cup {Nobody})' /\ (panel.deleting \in PanelKind \cup {Nobody})'
           /\ panel'.creating => panel.creating /\ ~(q.via = "panel" /\ q.op = "create")
           /\ panel'.saving => panel.saving /\ ~(q.via = "panel" /\ q.op = "rename")
           /\ panel'.deleting # Nobody => panel.deleting # Nobody /\ ~(q.via = "panel" /\ q.op = "delete")
<1>1. panel \in PanelRecord
  BY DEF CatalogTyped
<1>2. panel.editing \in PanelKind \cup {Nobody} /\ panel.deleting \in PanelKind \cup {Nobody}
  BY DEF CatalogTyped
<1>3. /\ EditOver(panel) \in PanelRecord /\ EditOver(panel).open = panel.open
      /\ EditOver(panel).editing = Nobody /\ ~EditOver(panel).saving
      /\ EditOver(panel).creating = panel.creating /\ EditOver(panel).deleting = panel.deleting
  BY <1>1 DEF EditOver, PanelRecord
<1>4. CASE q.via # "panel" \/ q.op \notin {"create", "rename", "delete"}
  <2>1. CASE q.via # "panel"
    <3>1. panel' = panel
      BY <2>1 DEF PanelAfter
    <3> QED BY <1>1, <1>2, <2>1, <3>1 DEF PanelKind
  <2>2. CASE q.op \notin {"create", "rename", "delete"}
    <3>1. panel' = panel
      BY <2>2 DEF PanelAfter
    <3> QED BY <1>1, <1>2, <2>2, <3>1 DEF PanelKind
  <2> QED BY <1>4, <2>1, <2>2
<1>5. CASE q.via = "panel" /\ q.op = "create"
  <2>1. panel' = [panel EXCEPT !.creating = FALSE]
    BY <1>5 DEF PanelAfter
  <2> QED BY <1>1, <1>2, <1>5, <2>1 DEF PanelKind, PanelRecord
<1>6. CASE q.via = "panel" /\ q.op = "rename"
  <2>1. panel' = EditOver(panel) \/ panel' = [panel EXCEPT !.saving = FALSE]
    BY <1>6 DEF PanelAfter
  <2>2. CASE panel' = EditOver(panel)
    BY <1>2, <1>3, <1>6, <2>2 DEF PanelKind
  <2>3. CASE panel' = [panel EXCEPT !.saving = FALSE]
    BY <1>1, <1>2, <1>6, <2>3 DEF PanelKind, PanelRecord
  <2> QED BY <2>1, <2>2, <2>3
<1>7. CASE q.via = "panel" /\ q.op = "delete"
  <2>1. PICK k : /\ panel' = [k EXCEPT !.deleting = Nobody]
                 /\ k = IF q.ok /\ q.edited \in q.items THEN EditOver(panel) ELSE panel
    BY <1>7 DEF PanelAfter
  <2>2. /\ k \in PanelRecord /\ k.open = panel.open /\ k.editing \in PanelKind \cup {Nobody}
        /\ k.creating = panel.creating /\ (k.saving => panel.saving)
    BY <1>1, <1>2, <1>3, <2>1
  <2>3. /\ panel' \in PanelRecord /\ panel'.open = panel.open /\ panel'.editing = k.editing
        /\ panel'.deleting = Nobody /\ panel'.creating = k.creating /\ panel'.saving = k.saving
    BY <2>1, <2>2 DEF PanelRecord
  <2> QED BY <1>7, <2>2, <2>3 DEF PanelKind
<1> QED BY <1>4, <1>5, <1>6, <1>7

LEMMA SettleTaskKeeps == ASSUME CatalogIInv, NEW c \in TaskIds, SettleTask(c) PROVE CatalogIInv'
<1>1. PICK q : q = tasks[c]
  OBVIOUS
<1>2. PICK next : next = IF Remaining(q) = <<>> THEN Resting ELSE [Head(Remaining(q)) EXCEPT !.then = Tail(Remaining(q))]
  OBVIOUS
<1>3. /\ q.stage = "answered"
      /\ listed' = IF q.ok THEN ListedAfter(q) ELSE listed
      /\ held' = IF q.ok THEN HeldAfter(q) ELSE held
      /\ filters' = IF q.ok THEN FiltersAfter(q) ELSE filters
      /\ panel' = PanelAfter(q)
      /\ drops' = DropsAfter(q)
      /\ tasks' = [tasks EXCEPT ![c] = next]
      /\ dirty' = IF next.op = "none" THEN dirty ELSE Dirtied(next, TaskIds \ {c})
      /\ UNCHANGED <<names, links>>
  BY <1>1, <1>2 DEF SettleTask
<1>4. CatalogTyped /\ MeetingsAreDirty /\ ButtonsWait
  BY DEF CatalogIInv
<1>5. tasks \in [TaskIds -> TaskRecord] /\ q \in TaskRecord
  BY <1>1, <1>4 DEF CatalogTyped
<1>6. /\ next \in TaskRecord /\ next.stage # "answered" /\ next.via = "document"
      /\ next.op = "none" => next = Resting
  BY <1>2, <1>5, NextTask
<1>7. \A e \in TaskIds : tasks'[e] = IF e = c THEN next ELSE tasks[e]
  BY <1>3, <1>5
<1>8. MeetingsAreDirty' /\ dirty \subseteq dirty'
  <2>1. CASE next.op # "none"
    <3>1. dirty' = Dirtied(next, TaskIds \ {c}) /\ TaskIds \ {c} \in SUBSET TaskIds
      BY <1>3, <2>1
    <3> QED BY <1>3, <1>4, <1>5, <3>1, MeetingsWithNew
  <2>2. CASE next.op = "none"
    <3>1. /\ WritesEntries(next) = {} /\ ChangesEntries(next) = {}
          /\ WritesLinks(next) = {} /\ ChangesLinks(next) = {}
      BY <2>2 DEF WritesEntries, ChangesEntries, WritesLinks, ChangesLinks
    <3>2. dirty' = dirty
      BY <1>3, <2>2
    <3> QED BY <1>4, <1>7, <3>1, <3>2 DEF MeetingsAreDirty
  <2> QED BY <2>1, <2>2
<1>9. EntriesInv' /\ LinksInv' /\ AssignedExist'
  BY <1>1, <1>3, <1>6, <1>8, SettleAnswersKeep
<1>10. /\ panel' \in PanelRecord
       /\ (panel.editing \in PanelKind \cup {Nobody})' /\ (panel.deleting \in PanelKind \cup {Nobody})'
       /\ panel'.creating => panel.creating /\ ~(q.via = "panel" /\ q.op = "create")
       /\ panel'.saving => panel.saving /\ ~(q.via = "panel" /\ q.op = "rename")
       /\ panel'.deleting # Nobody => panel.deleting # Nobody /\ ~(q.via = "panel" /\ q.op = "delete")
  BY <1>3, <1>4, <1>5, PanelAfterFacts
<1>11. ButtonsWait'
  BY <1>1, <1>4, <1>7, <1>10 DEF ButtonsWait
<1>12. CatalogTyped'
  <2>1. tasks' \in [TaskIds -> TaskRecord] /\ \A e \in TaskIds : tasks'[e].op = "none" => tasks'[e] = Resting
    BY <1>3, <1>4, <1>5, <1>6, <1>7 DEF CatalogTyped
  <2>2. listed' \in [Entries -> {"none", "old", "new"}] /\ held' \in SUBSET AllPairs /\ filters' \in SUBSET Tags
    BY <1>3, <1>4, <1>5, ListedAfterFacts, HeldAfterFacts DEF CatalogTyped, FiltersAfter
  <2>3. drops' \in [pending : Nat, results : SUBSET TaskOps] /\ drops'.pending = Cardinality(Dragging(tasks'))
    <3>1. /\ Cardinality(Dragging(tasks)) \in Nat
          /\ tasks[c].via = "drag" => Cardinality(Dragging(tasks)) > 0
          /\ Cardinality(Dragging(tasks')) =
               Cardinality(Dragging(tasks)) + (IF next.via = "drag" THEN 1 ELSE 0)
                                            - (IF tasks[c].via = "drag" THEN 1 ELSE 0)
      BY <1>3, <1>5, <1>6, DraggersChange
    <3>2. drops \in [pending : Nat, results : SUBSET TaskOps] /\ drops.pending = Cardinality(Dragging(tasks))
      BY <1>4 DEF CatalogTyped
    <3>3. q.op \in TaskOps
      BY <1>5 DEF TaskRecord
    <3>4. CASE q.via = "drag"
      <4>1. drops' = [pending |-> drops.pending - 1, results |-> drops.results \cup {q.op}]
        BY <1>3, <3>4 DEF DropsAfter
      <4>2. drops.pending > 0 /\ drops.pending \in Nat /\ Cardinality(Dragging(tasks')) = drops.pending - 1
        BY <1>1, <1>6, <3>1, <3>2, <3>4
      <4>3. drops.results \cup {q.op} \in SUBSET TaskOps /\ drops.pending - 1 \in Nat
        BY <3>2, <3>3, <4>2
      <4> QED BY <4>1, <4>2, <4>3
    <3>5. CASE q.via # "drag"
      <4>1. drops' = drops
        BY <1>3, <3>5 DEF DropsAfter
      <4> QED BY <1>1, <1>6, <3>1, <3>2, <3>5, <4>1
    <3> QED BY <3>4, <3>5
  <2> QED BY <1>3, <1>4, <1>10, <2>1, <2>2, <2>3 DEF CatalogTyped
<1> QED BY <1>8, <1>9, <1>11, <1>12 DEF CatalogIInv

-----------------------------------------------------------------------------
(* Tags and correspondents: the theorems.                                  *)

LEMMA CatalogInitInvariant == CatalogInit => CatalogIInv
<1> SUFFICES ASSUME CatalogInit PROVE CatalogIInv
  OBVIOUS
<1>1. /\ names \in [Entries -> {"none", "old"}] /\ links \in SUBSET Pairs(Papers, Existing(names))
      /\ listed = names /\ held = links /\ filters \in SUBSET (Tags \cap Existing(names))
      /\ tasks = [c \in TaskIds |-> Resting]
      /\ drops = [pending |-> 0, results |-> {}] /\ dirty = {}
  BY DEF CatalogInit
<1>2. PICK which \in {"none", "tags", "correspondents"} : panel = [ClosedPanel EXCEPT !.open = which]
  BY DEF CatalogInit
<1>3. panel \in PanelRecord /\ panel.editing = Nobody /\ panel.deleting = Nobody /\ ~panel.creating /\ ~panel.saving
  BY <1>2 DEF ClosedPanel, PanelRecord
<1>4. \A c \in TaskIds : tasks[c] = Resting /\ ~Succeeded(c)
  BY <1>1, RestingFields DEF Succeeded
<1>5. /\ links \in SUBSET AllPairs /\ \A p \in links : p[2] \in Existing(names)
      /\ \A i \in Entries : Seen(names)[i] = names[i]
  BY <1>1 DEF AllPairs, Pairs, Existing, Seen
<1>6. CatalogTyped
  <2>1. Dragging(tasks) = {}
    BY <1>4, RestingFields DEF Dragging
  <2>2. Cardinality(Dragging(tasks)) = 0
    BY <2>1, FS_EmptySet
  <2>3. tasks \in [TaskIds -> TaskRecord]
    BY <1>1, RestingFields
  <2> QED BY <1>1, <1>3, <1>4, <1>5, <2>2, <2>3 DEF CatalogTyped
<1>7. MeetingsAreDirty
  <2>1. WritesEntries(Resting) = {} /\ WritesLinks(Resting) = {}
    BY RestingFields DEF WritesEntries, WritesLinks
  <2> QED BY <1>4, <2>1 DEF MeetingsAreDirty
<1>8. EntriesInv
  BY <1>1, <1>4, <1>5 DEF EntriesInv
<1>9. LinksInv
  BY <1>1, <1>4, <1>5 DEF LinksInv
<1>10. AssignedExist
  BY <1>1, <1>4, <1>5 DEF AssignedExist, Existing
<1>11. ButtonsWait
  BY <1>3 DEF ButtonsWait
<1> QED BY <1>6, <1>7, <1>8, <1>9, <1>10, <1>11 DEF CatalogIInv

LEMMA CatalogStepInvariant == CatalogIInv /\ [CatalogNext]_catalogVars => CatalogIInv'
<1> SUFFICES ASSUME CatalogIInv, [CatalogNext]_catalogVars PROVE CatalogIInv'
  OBVIOUS
<1>1. CASE UNCHANGED catalogVars
  <2>1. CatalogTyped
    BY DEF CatalogIInv
  <2>2. UNCHANGED <<names, links, listed, held, filters, tasks, panel, drops, dirty>>
    BY <1>1 DEF catalogVars
  <2>3. (panel.editing \in PanelKind \cup {Nobody})' /\ (panel.deleting \in PanelKind \cup {Nobody})'
    BY <2>1, <2>2 DEF CatalogTyped, PanelKind
  <2> QED BY <2>1, <2>2, <2>3, IdleKeeps DEF CatalogTyped
<1>2. ASSUME NEW which \in {"tags", "correspondents"}, OpenPanel(which) PROVE CatalogIInv'
  BY <1>2, OpenPanelKeeps
<1>3. CASE ClosePanel
  BY <1>3, ClosePanelKeeps
<1>4. CASE CancelEdit
  BY <1>4, CancelEditKeeps
<1>5. CASE SaveEdit
  BY <1>5, SaveEditKeeps
<1>6. CASE RefreshTags \/ RefreshCorrespondents
  <2>1. Tags \in SUBSET Entries /\ Correspondents \in SUBSET Entries
    BY DEF Entries
  <2> QED BY <1>6, <2>1, RefreshKeeps DEF RefreshTags, RefreshCorrespondents
<1>7. CASE ReportDrops
  BY <1>7, ReportDropsKeeps
<1>8. ASSUME NEW i \in Entries, StartEdit(i) \/ DeleteEntry(i) \/ CreateEntry(i) \/ FilterByTag(i) PROVE CatalogIInv'
  BY <1>8, StartEditKeeps, DeleteEntryKeeps, CreateEntryKeeps, FilterByTagKeeps
<1>9. ASSUME NEW d \in Papers, UpdateFields(d) PROVE CatalogIInv'
  BY <1>9, UpdateFieldsKeeps
<1>10. ASSUME NEW d \in Papers, NEW i \in Entries,
              \/ AddTag(d, i) \/ AddCorrespondent(d, i) \/ DetachTag(d, i)
              \/ DetachCorrespondent(d, i) \/ CopyTag(d, i)
       PROVE  CatalogIInv'
  BY <1>10, AddTagKeeps, AddCorrespondentKeeps, AssignmentsKeep, CopyTagKeeps
<1>11. ASSUME NEW d \in Papers, NEW i \in Entries, NEW e \in Papers \ {d}, MoveTag(d, e, i) PROVE CatalogIInv'
  BY <1>11, MoveTagKeeps
<1>12. ASSUME NEW ds \in SUBSET Papers, NEW i \in Entries, ToggleTag(ds, i) \/ ToggleCorrespondent(ds, i)
       PROVE  CatalogIInv'
  BY <1>12, TogglesKeep
<1>13. ASSUME NEW c \in TaskIds, ServeTask(c) \/ SettleTask(c) PROVE CatalogIInv'
  BY <1>13, ServeTaskKeeps, SettleTaskKeeps
<1> QED BY <1>1, <1>2, <1>3, <1>4, <1>5, <1>6, <1>7, <1>8, <1>9, <1>10, <1>11, <1>12, <1>13 DEF CatalogNext

LEMMA CatalogInvariant == CatalogSpec => []CatalogIInv
BY CatalogInitInvariant, CatalogStepInvariant, PTL DEF CatalogSpec

LEMMA CatalogIInvIsTyped == CatalogIInv => CatalogTypeOK
BY DEF CatalogIInv, CatalogTyped, CatalogTypeOK, AllPairs

\* The shape of the catalog's state; an editor and a deletion are of the panel
\* that is open (TagsPanel.tsx:25-46).
THEOREM CatalogTypes == CatalogSpec => []CatalogTypeOK
  BY CatalogIInvIsTyped, CatalogInvariant, PTL

LEMMA CatalogIInvIsConsistent == CatalogIInv => CatalogIsConsistent
<1> SUFFICES ASSUME CatalogIInv, Quiet
             PROVE  /\ \A i \in Entries \ dirty : listed[i] = Seen(names)[i]
                    /\ \A p \in Pairs(Papers, Entries) \ dirty : p[2] \in Existing(names) => (p \in held <=> p \in links)
                    /\ filters \ dirty \subseteq Existing(names)
                    /\ \A p \in held \ dirty : p[2] \in Correspondents => p[2] \in Existing(names)
                    /\ ~panel.creating /\ ~panel.saving /\ panel.deleting = Nobody
  BY DEF CatalogIsConsistent, EntriesAgree, AssignmentsAgree, DeletedLeaveNothing, PanelReleases
<1>1. CatalogTyped /\ EntriesInv /\ LinksInv /\ ButtonsWait
  BY DEF CatalogIInv
<1>2. \A c \in TaskIds : tasks[c].op = "none" /\ ~Succeeded(c)
  BY <1>1, RestingFields DEF Quiet, CatalogTyped, Succeeded
<1>3. /\ \A i : ~Awaited(i) /\ ~Going(i)
      /\ \A p : ~AwaitedLink(p)
  BY <1>2 DEF Awaited, Going, AwaitedLink
<1>4. \A i \in Entries \ dirty : listed[i] = Seen(names)[i] /\ (i \in filters => i \in Existing(names))
  BY <1>1, <1>3 DEF EntriesInv
<1>5. filters \subseteq Entries /\ held \subseteq AllPairs
  BY <1>1 DEF CatalogTyped, Entries
<1>6. \A p \in AllPairs \ dirty :
        /\ p[2] \in Existing(names) => (p \in held <=> p \in links)
        /\ (p \in held /\ p[2] \in Correspondents) => p[2] \in Existing(names)
  BY <1>1, <1>3 DEF LinksInv
<1>7. ~panel.creating /\ ~panel.saving /\ panel.deleting = Nobody
  BY <1>1, <1>2 DEF ButtonsWait
<1>8. filters \ dirty \subseteq Existing(names)
  BY <1>4, <1>5
<1>9. \A p \in Pairs(Papers, Entries) \ dirty : p[2] \in Existing(names) => (p \in held <=> p \in links)
  <2> SUFFICES ASSUME NEW p \in AllPairs \ dirty PROVE p[2] \in Existing(names) => (p \in held <=> p \in links)
    BY DEF AllPairs
  <2> QED BY <1>6
<1>10. \A p \in held \ dirty : p[2] \in Correspondents => p[2] \in Existing(names)
  BY <1>5, <1>6
<1> QED BY <1>4, <1>7, <1>8, <1>9, <1>10

\* Once all is answered, entries and assignments no two calls met over agree
\* with the server, deleted entries filter nothing, correspondents deleted are
\* on no document, and the panel's buttons are free (TagManager.ts:49-142,
\* DocumentsManager.ts:189-200, 307-388, useTags.ts:95-117, TagsPanel.tsx:58-165).
THEOREM CatalogConsistent == CatalogSpec => []CatalogIsConsistent
  BY CatalogIInvIsConsistent, CatalogInvariant, PTL

-----------------------------------------------------------------------------
(* The settings window: the invariant.                                     *)

Called(op, k, i) == IF op = "prompt" THEN [Errand(op, k, i) EXCEPT !.stage = "asking"] ELSE Errand(op, k, i)

\* The requests a handler still makes are decided by the one it awaits.
ThenOf(q) ==
  IF q.op = "challenge"
  THEN <<Called("prompt", "passkeys", q.item), Called("finish", "passkeys", q.item), Listing("passkeys")>>
  ELSE IF q.op = "prompt" THEN <<Called("finish", "passkeys", q.item), Listing("passkeys")>>
  ELSE IF \/ q.op = "finish"
          \/ q.op = "delete" /\ q.hook \in {"tokens", "passkeys"}
          \/ q.op = "save" /\ q.hook = "tenant"
  THEN <<Listing(q.hook)>> ELSE <<>>

HooksOf(op) ==
  IF op = "create" THEN {"tokens", "sets"}
  ELSE IF op = "save" THEN {"tokens", "sets", "members", "tenant"}
  ELSE IF op = "delete" THEN Sections
  ELSE IF op \in {"challenge", "prompt", "finish"} THEN {"passkeys"} ELSE Hooks

ErrandOps == {"none", "list", "create", "save", "delete", "challenge", "prompt", "finish"}
Tales == UNION {[ItemsOf(k) -> {"none", "old", "new"}] : k \in Hooks}
Step == [op : ErrandOps, hook : Hooks, item : Items \cup {NoItem}, stage : {"free", "sent", "asking", "answered"},
         ok : BOOLEAN, told : Tales \cup {<<>>}, frees : {"nothing", "creating", "saving", "deleting"}, then : {<<>>}]
ErrandRecord ==
  [op : ErrandOps, hook : Hooks, item : Items \cup {NoItem}, stage : {"free", "sent", "asking", "answered"},
   ok : BOOLEAN, told : Tales \cup {<<>>}, frees : {"nothing", "creating", "saving", "deleting"}, then : Seq(Step)]

WellFormed(q) ==
  /\ q.op = "none" => q = NoErrand
  /\ q.hook \in HooksOf(q.op)
  /\ q.op \notin {"none", "list"} => q.item \in ItemsOf(q.hook)
  /\ q.then = ThenOf(q)
  /\ q.op # "none" => q.stage \in (IF q.op = "prompt" THEN {"asking", "answered"} ELSE {"sent", "answered"})
  /\ q.stage # "answered" => q.ok
  /\ q.op = "list" /\ q.stage = "answered" /\ q.ok => q.told \in [ItemsOf(q.hook) -> {"none", "old", "new"}]

BusyRecord == [loading : SUBSET Hooks, creating : SUBSET Hooks,
               saving : [Hooks -> Items \cup {NoItem}], deleting : [Hooks -> Items \cup {NoItem}]]

SettingsTyped ==
  /\ stored \in [Items -> {"none", "old", "new", "gone"}]
  /\ shown \in [Items -> {"none", "old", "new"}]
  /\ busy \in BusyRecord
  /\ section = "closed" => busy = Nothing
  /\ section \in Sections \cup {"closed"} /\ secret \in ApiTokens \cup {NoItem} /\ supported \in BOOLEAN
  /\ editing \in [Edited -> Items \cup {NoItem}]
  /\ \A k \in Edited : editing[k] # NoItem => section = k /\ editing[k] \in ShownOf(k)
  /\ ChosenSetIsListed
  /\ errands \in [ErrandIds -> ErrandRecord]
  /\ \A c \in ErrandIds : WellFormed(errands[c])

CrossingsAreMuddled ==
  \A c, e \in ErrandIds : c # e => Crossed(errands[c], errands[e]) \subseteq muddled

\* A flag that is up is that of an errand under way.
FlagsWait ==
  \A k \in Hooks :
     /\ k \in busy.loading => \E c \in ErrandIds : errands[c].op = "list" /\ errands[c].hook = k
     /\ k \in busy.creating => \E c \in ErrandIds : errands[c].frees = "creating" /\ errands[c].hook = k
     /\ busy.saving[k] # NoItem => \E c \in ErrandIds : errands[c].frees = "saving" /\ errands[c].hook = k
     /\ busy.deleting[k] # NoItem => \E c \in ErrandIds : errands[c].frees = "deleting" /\ errands[c].hook = k

Done(c) == errands[c].stage = "answered" /\ errands[c].ok
Alters(q) == IF q.op \in {"create", "save", "delete", "finish"} THEN {q.item} ELSE {}
\* Entry i of a list is not yet what the errands under way will make of it.
Awaits(i) == \E c \in ErrandIds : \/ Done(c) /\ i \in Alters(errands[c])
                                  \/ errands[c].op = "list" /\ i \in ItemsOf(errands[c].hook)

\* What errand c, which succeeded, says of item i is still so.
StillSo(c, i) ==
  /\ i \in Alters(errands[c]) => stored[i] = Writes(errands[c])
  /\ errands[c].op = "list" /\ i \in ItemsOf(errands[c].hook) => errands[c].told[i] = Unseen(stored[i])
  /\ errands[c].op = "save" /\ i = errands[c].item => shown[i] # "none"

ListsInv ==
  section # "closed" => \A i \in Items : i \notin muddled =>
     /\ \A c \in ErrandIds : Done(c) => StillSo(c, i)
     /\ ~Awaits(i) => shown[i] = Unseen(stored[i])

SettingsIInv == SettingsTyped /\ CrossingsAreMuddled /\ FlagsWait /\ ListsInv

Whole(op, k, i, stage, f, r) ==
  [op |-> op, hook |-> k, item |-> i, stage |-> stage, ok |-> TRUE, told |-> <<>>, frees |-> f, then |-> r]

LEMMA ErrandFields ==
    ASSUME NEW op, NEW k, NEW i
    PROVE  /\ Errand(op, k, i) = Whole(op, k, i, "sent", "nothing", <<>>)
           /\ \A f : Freeing(f, Errand(op, k, i)) = Whole(op, k, i, "sent", f, <<>>)
           /\ \A f, r : [Freeing(f, Errand(op, k, i)) EXCEPT !.then = r] = Whole(op, k, i, "sent", f, r)
           /\ [Errand(op, k, i) EXCEPT !.stage = "asking"] = Whole(op, k, i, "asking", "nothing", <<>>)
<1>1. PICK a : a = [NoErrand EXCEPT !.op = op]
  OBVIOUS
<1>2. PICK b : b = [a EXCEPT !.hook = k]
  OBVIOUS
<1>3. PICK c : c = [b EXCEPT !.item = i]
  OBVIOUS
<1>4. a = Whole(op, "tokens", NoItem, "free", "nothing", <<>>)
  BY <1>1 DEF NoErrand, Whole
<1>5. b = Whole(op, k, NoItem, "free", "nothing", <<>>)
  BY <1>2, <1>4 DEF Whole
<1>6. c = Whole(op, k, i, "free", "nothing", <<>>)
  BY <1>3, <1>5 DEF Whole
<1>7. Errand(op, k, i) = [c EXCEPT !.stage = "sent"]
  BY <1>1, <1>2, <1>3 DEF Errand
<1>8. Errand(op, k, i) = Whole(op, k, i, "sent", "nothing", <<>>)
  BY <1>6, <1>7 DEF Whole
<1>9. PICK d : d = Errand(op, k, i)
  OBVIOUS
<1>10. d = [op |-> op, hook |-> k, item |-> i, stage |-> "sent", ok |-> TRUE, told |-> <<>>,
           frees |-> "nothing", then |-> <<>>]
  BY <1>8, <1>9 DEF Whole
<1>11. ASSUME NEW f PROVE Freeing(f, d) = Whole(op, k, i, "sent", f, <<>>)
  <2>1. PICK g : g = [d EXCEPT !.frees = f]
    OBVIOUS
  <2>2. g = [op |-> op, hook |-> k, item |-> i, stage |-> "sent", ok |-> TRUE, told |-> <<>>,
             frees |-> f, then |-> <<>>]
    BY <1>10, <2>1
  <2> QED BY <2>1, <2>2 DEF Freeing, Whole
<1>12. ASSUME NEW f, NEW r PROVE [Freeing(f, d) EXCEPT !.then = r] = Whole(op, k, i, "sent", f, r)
  <2>1. PICK e : e = Freeing(f, d)
    OBVIOUS
  <2>2. e = [op |-> op, hook |-> k, item |-> i, stage |-> "sent", ok |-> TRUE, told |-> <<>>,
             frees |-> f, then |-> <<>>]
    BY <1>11, <2>1 DEF Whole
  <2>3. PICK g : g = [e EXCEPT !.then = r]
    OBVIOUS
  <2>4. g = [op |-> op, hook |-> k, item |-> i, stage |-> "sent", ok |-> TRUE, told |-> <<>>,
             frees |-> f, then |-> r]
    BY <2>2, <2>3
  <2> QED BY <2>1, <2>3, <2>4 DEF Whole
<1>13. [d EXCEPT !.stage = "asking"] = Whole(op, k, i, "asking", "nothing", <<>>)
  <2>1. PICK g : g = [d EXCEPT !.stage = "asking"]
    OBVIOUS
  <2>2. g = [op |-> op, hook |-> k, item |-> i, stage |-> "asking", ok |-> TRUE, told |-> <<>>,
             frees |-> "nothing", then |-> <<>>]
    BY <1>10, <2>1
  <2> QED BY <2>1, <2>2 DEF Whole
<1> QED BY <1>8, <1>9, <1>11, <1>12, <1>13

LEMMA ListingFields == ASSUME NEW k PROVE Listing(k) = Whole("list", k, NoItem, "sent", "nothing", <<>>)
BY ErrandFields DEF Listing

LEMMA CalledFields ==
    ASSUME NEW i
    PROVE  /\ Called("prompt", "passkeys", i) = Whole("prompt", "passkeys", i, "asking", "nothing", <<>>)
           /\ Called("finish", "passkeys", i) = Whole("finish", "passkeys", i, "sent", "nothing", <<>>)
BY ErrandFields DEF Called

LEMMA PartOfItems == \A k \in Hooks : ItemsOf(k) \subseteq Items
BY DEF Items

LEMMA ThenTyped ==
    ASSUME NEW q, q.hook \in Hooks, q.item \in Items \cup {NoItem}
    PROVE  ThenOf(q) \in Seq(Step)
<1>1. \A k \in Hooks : Listing(k) \in Step
  BY ListingFields DEF Step, Whole, ErrandOps
<1>2. "passkeys" \in Hooks
  BY DEF Hooks, Sections
<1>3. \A i \in Items \cup {NoItem} : Called("prompt", "passkeys", i) \in Step /\ Called("finish", "passkeys", i) \in Step
  <2> SUFFICES ASSUME NEW i \in Items \cup {NoItem}
               PROVE  Called("prompt", "passkeys", i) \in Step /\ Called("finish", "passkeys", i) \in Step
    OBVIOUS
  <2>1. /\ Called("prompt", "passkeys", i) = Whole("prompt", "passkeys", i, "asking", "nothing", <<>>)
        /\ Called("finish", "passkeys", i) = Whole("finish", "passkeys", i, "sent", "nothing", <<>>)
    BY CalledFields
  <2>2. /\ Whole("prompt", "passkeys", i, "asking", "nothing", <<>>) \in Step
        /\ Whole("finish", "passkeys", i, "sent", "nothing", <<>>) \in Step
    BY <1>2 DEF Step, Whole, ErrandOps
  <2> QED BY <2>1, <2>2
<1>4. /\ <<Called("prompt", "passkeys", q.item), Called("finish", "passkeys", q.item), Listing("passkeys")>> \in Seq(Step)
      /\ <<Called("finish", "passkeys", q.item), Listing("passkeys")>> \in Seq(Step)
      /\ <<Listing(q.hook)>> \in Seq(Step)
      /\ <<>> \in Seq(Step)
  <2> HIDE DEF Step
  <2>1. \A a, b, d \in Step : <<a, b, d>> \in Seq(Step) /\ <<a, b>> \in Seq(Step) /\ <<a>> \in Seq(Step)
    OBVIOUS
  <2> QED BY <1>1, <1>2, <1>3, <2>1, EmptySeq
<1> QED BY <1>4 DEF ThenOf

\* A request that a button sends: typed, and followed by what it says.
LEMMA SentTyped ==
    ASSUME NEW op \in ErrandOps \ {"none", "prompt"}, NEW k \in HooksOf(op), NEW i \in Items \cup {NoItem},
           op # "list" => i \in ItemsOf(k),
           NEW f \in {"nothing", "creating", "saving", "deleting"},
           NEW r, r = ThenOf([op |-> op, hook |-> k, item |-> i]),
           NEW q, q = Whole(op, k, i, "sent", f, r)
    PROVE  /\ q \in ErrandRecord /\ WellFormed(q) /\ q.stage = "sent"
           /\ q.op = op /\ q.hook = k /\ q.item = i /\ q.frees = f
<1>1. k \in Hooks
  BY DEF HooksOf, Hooks, Sections
<1>2. r \in Seq(Step)
  BY <1>1, ThenTyped
<1>3. q \in ErrandRecord
  BY <1>1, <1>2 DEF ErrandRecord, Whole
<1>4. /\ q.stage = "sent" /\ q.op = op /\ q.hook = k /\ q.item = i /\ q.frees = f /\ q.then = r /\ q.ok
  BY DEF Whole
<1>5. q.then = ThenOf(q)
  BY <1>4 DEF ThenOf
<1>6. WellFormed(q)
  BY <1>4, <1>5 DEF WellFormed
<1> QED BY <1>3, <1>4, <1>6

LEMMA NoErrandFacts ==
    /\ NoErrand \in ErrandRecord /\ WellFormed(NoErrand)
    /\ NoErrand.op = "none" /\ NoErrand.frees = "nothing" /\ NoErrand.stage = "free"
<1>1. NoErrand.op = "none" /\ NoErrand.frees = "nothing" /\ NoErrand.stage = "free" /\ NoErrand.ok
      /\ NoErrand.hook = "tokens" /\ NoErrand.item = NoItem /\ NoErrand.then = <<>>
  BY DEF NoErrand
<1>2. NoErrand \in ErrandRecord
  BY EmptySeq DEF NoErrand, ErrandRecord, ErrandOps, Hooks, Sections
<1>3. ThenOf(NoErrand) = <<>>
  BY <1>1 DEF ThenOf
<1>4. WellFormed(NoErrand)
  BY <1>1, <1>3 DEF WellFormed, HooksOf, Hooks, Sections
<1> QED BY <1>1, <1>2, <1>4

LEMMA IdlerFacts ==
    ASSUME SettingsTyped, Idlers # {}, NEW c, c = CHOOSE x \in Idlers : \A e \in Idlers : x <= e
    PROVE  c \in ErrandIds /\ errands[c] = NoErrand
<1>1. Idlers \in SUBSET Nat /\ Idlers \subseteq ErrandIds
  BY DEF Idlers, ErrandIds
<1>2. \E x \in Idlers : \A e \in Idlers : x <= e
  BY <1>1, LeastExists
<1>3. c \in Idlers
  BY <1>2
<1> QED BY <1>1, <1>3 DEF Idlers, SettingsTyped, WellFormed

\* What is known from answers persists while lists and server do.
LEMMA SayingsPersist ==
    ASSUME ListsInv, UNCHANGED <<stored, shown, section>>, muddled \subseteq muddled',
           \A c \in ErrandIds :
             /\ Done(c)' => (Done(c) /\ errands'[c] = errands[c]) \/ Touches(errands'[c]) = {}
             /\ Done(c) => errands'[c] = errands[c]
             /\ errands[c].op = "list" => errands'[c].op = "list" /\ errands'[c].hook = errands[c].hook
    PROVE  ListsInv'
<1> SUFFICES ASSUME section # "closed", NEW i \in Items, i \notin muddled'
             PROVE  /\ \A c \in ErrandIds : Done(c)' => StillSo(c, i)'
                    /\ ~Awaits(i)' => shown'[i] = Unseen(stored'[i])
  BY DEF ListsInv
<1>1. /\ \A c \in ErrandIds : Done(c) => StillSo(c, i)
      /\ ~Awaits(i) => shown[i] = Unseen(stored[i])
  BY DEF ListsInv
<1>2. ASSUME NEW c \in ErrandIds, Done(c)' PROVE StillSo(c, i)'
  <2>1. CASE Done(c) /\ errands'[c] = errands[c]
    BY <1>1, <2>1 DEF StillSo
  <2>2. CASE Touches(errands'[c]) = {}
    <3>1. /\ errands'[c].op \notin {"create", "save", "delete", "finish"}
          /\ errands'[c].op = "list" => i \notin ItemsOf(errands'[c].hook)
      BY <2>2 DEF Touches
    <3> QED BY <3>1 DEF StillSo, Alters
  <2> QED BY <1>2, <2>1, <2>2
<1>3. Awaits(i) => Awaits(i)'
  <2>1. \A c \in ErrandIds : Done(c) => Done(c)'
    BY DEF Done
  <2> QED BY <2>1 DEF Awaits
<1> QED BY <1>1, <1>2, <1>3

LEMMA CrossingsWithNew ==
    ASSUME CrossingsAreMuddled, NEW c \in ErrandIds, NEW q, NEW S \in SUBSET ErrandIds, ErrandIds \ {c} \subseteq S,
           errands' = [errands EXCEPT ![c] = q], errands \in [ErrandIds -> ErrandRecord], Muddled(q, S) \subseteq muddled'
    PROVE  CrossingsAreMuddled' /\ muddled \subseteq muddled'
<1>1. muddled \subseteq muddled' /\ \A e \in ErrandIds : e # c => Crossed(q, errands[e]) \subseteq muddled'
  BY DEF Muddled
<1>2. \A e \in ErrandIds : errands'[e] = IF e = c THEN q ELSE errands[e]
  OBVIOUS
<1>3. \A e : Crossed(q, e) = Crossed(e, q)
  BY DEF Crossed
<1>4. ASSUME NEW u \in ErrandIds, NEW e \in ErrandIds, u # e
      PROVE  Crossed(errands'[u], errands'[e]) \subseteq muddled'
  <2>1. CASE u = c
    BY <1>1, <1>2, <1>4, <2>1
  <2>2. CASE e = c
    <3>1. Crossed(errands'[u], errands'[e]) = Crossed(q, errands[u])
      BY <1>2, <1>3, <1>4, <2>2
    <3> QED BY <1>1, <1>4, <2>2, <3>1
  <2>3. CASE u # c /\ e # c
    <3>1. Crossed(errands'[u], errands'[e]) = Crossed(errands[u], errands[e])
      BY <1>2, <2>3
    <3> QED BY <1>1, <1>4, <3>1 DEF CrossingsAreMuddled
  <2> QED BY <2>1, <2>2, <2>3
<1> QED BY <1>1, <1>4 DEF CrossingsAreMuddled

\* The flags a request raises are its own.
FlagsRaised(q) ==
  /\ busy' \in BusyRecord
  /\ \A k \in Hooks :
       /\ k \in busy'.loading => k \in busy.loading \/ (q.op = "list" /\ q.hook = k)
       /\ k \in busy'.creating => k \in busy.creating \/ (q.frees = "creating" /\ q.hook = k)
       /\ busy'.saving[k] # NoItem => busy.saving[k] # NoItem \/ (q.frees = "saving" /\ q.hook = k)
       /\ busy'.deleting[k] # NoItem => busy.deleting[k] # NoItem \/ (q.frees = "deleting" /\ q.hook = k)

LEMMA RunKeeps ==
    ASSUME SettingsIInv, NEW q \in ErrandRecord, WellFormed(q), q.stage = "sent", section # "closed",
           RunErrand(q), FlagsRaised(q), Stays
    PROVE  SettingsIInv'
<1>1. PICK c : c = CHOOSE x \in Idlers : \A e \in Idlers : x <= e
  OBVIOUS
<1>2. /\ Idlers # {} /\ errands' = [errands EXCEPT ![c] = q] /\ muddled' = Muddled(q, ErrandIds)
      /\ UNCHANGED <<stored, shown, section, editing, chosen, secret, supported>>
  BY <1>1 DEF RunErrand, Stays
<1>3. SettingsTyped /\ CrossingsAreMuddled /\ FlagsWait /\ ListsInv
  BY DEF SettingsIInv
<1>4. c \in ErrandIds /\ errands[c] = NoErrand
  BY <1>1, <1>2, <1>3, IdlerFacts
<1>5. errands \in [ErrandIds -> ErrandRecord] /\ \A e \in ErrandIds : errands'[e] = IF e = c THEN q ELSE errands[e]
  BY <1>2, <1>3 DEF SettingsTyped
<1>6. CrossingsAreMuddled' /\ muddled \subseteq muddled'
  BY <1>2, <1>3, <1>4, <1>5, CrossingsWithNew
<1>7. ListsInv'
  <2>1. \A e \in ErrandIds :
          /\ Done(e)' => (Done(e) /\ errands'[e] = errands[e]) \/ Touches(errands'[e]) = {}
          /\ Done(e) => errands'[e] = errands[e]
          /\ errands[e].op = "list" => errands'[e].op = "list" /\ errands'[e].hook = errands[e].hook
    BY <1>4, <1>5, NoErrandFacts DEF Done
  <2> QED BY <1>2, <1>3, <1>6, <2>1, SayingsPersist
<1>8. FlagsWait'
  <2> SUFFICES ASSUME NEW k \in Hooks
               PROVE  /\ k \in busy'.loading => \E e \in ErrandIds : errands'[e].op = "list" /\ errands'[e].hook = k
                      /\ k \in busy'.creating => \E e \in ErrandIds : errands'[e].frees = "creating" /\ errands'[e].hook = k
                      /\ busy'.saving[k] # NoItem => \E e \in ErrandIds : errands'[e].frees = "saving" /\ errands'[e].hook = k
                      /\ busy'.deleting[k] # NoItem =>
                           \E e \in ErrandIds : errands'[e].frees = "deleting" /\ errands'[e].hook = k
    BY DEF FlagsWait
  <2>1. \A e \in ErrandIds : errands[e].op = "list" \/ errands[e].frees # "nothing" => e # c
    BY <1>4, NoErrandFacts
  <2>2. errands'[c] = q
    BY <1>4, <1>5
  <2> QED BY <1>3, <1>4, <1>5, <2>1, <2>2 DEF FlagsWait, FlagsRaised
<1>9. SettingsTyped'
  <2>1. errands' \in [ErrandIds -> ErrandRecord] /\ \A e \in ErrandIds : WellFormed(errands'[e])
    BY <1>2, <1>3, <1>5 DEF SettingsTyped
  <2>2. ChosenSetIsListed'
    BY <1>2, <1>3 DEF SettingsTyped, ChosenSetIsListed, ShownOf
  <2>3. \A k \in Edited : editing'[k] # NoItem => section' = k /\ editing'[k] \in ShownOf(k)'
    BY <1>2, <1>3 DEF SettingsTyped, ShownOf
  <2> QED BY <1>2, <1>3, <2>1, <2>2, <2>3 DEF SettingsTyped, FlagsRaised
<1> QED BY <1>6, <1>7, <1>8, <1>9 DEF SettingsIInv

LEMMA FlagFacts ==
    ASSUME busy \in BusyRecord, NEW k \in Hooks, NEW i \in Items, NEW q, q.hook = k
    PROVE  /\ busy' = [busy EXCEPT !.creating = @ \cup {k}] /\ q.frees = "creating" => FlagsRaised(q)
           /\ busy' = [busy EXCEPT !.saving[k] = i] /\ q.frees = "saving" => FlagsRaised(q)
           /\ busy' = [busy EXCEPT !.deleting[k] = i] /\ q.frees = "deleting" => FlagsRaised(q)
<1>1. ASSUME busy' = [busy EXCEPT !.creating = @ \cup {k}], q.frees = "creating" PROVE FlagsRaised(q)
  BY <1>1 DEF FlagsRaised, BusyRecord
<1>2. ASSUME busy' = [busy EXCEPT !.saving[k] = i], q.frees = "saving" PROVE FlagsRaised(q)
  BY <1>2 DEF FlagsRaised, BusyRecord
<1>3. ASSUME busy' = [busy EXCEPT !.deleting[k] = i], q.frees = "deleting" PROVE FlagsRaised(q)
  BY <1>3 DEF FlagsRaised, BusyRecord
<1> QED BY <1>1, <1>2, <1>3

LEMMA ButtonKeeps ==
    ASSUME SettingsIInv, section # "closed",
           NEW op \in ErrandOps \ {"none", "prompt", "list"}, NEW k \in HooksOf(op), NEW i \in ItemsOf(k),
           NEW r, r = ThenOf([op |-> op, hook |-> k, item |-> i]),
           NEW f \in {"creating", "saving", "deleting"},
           RunErrand(Whole(op, k, i, "sent", f, r)), Stays,
           f = "creating" => busy' = [busy EXCEPT !.creating = @ \cup {k}],
           f = "saving" => busy' = [busy EXCEPT !.saving[k] = i],
           f = "deleting" => busy' = [busy EXCEPT !.deleting[k] = i]
    PROVE  SettingsIInv'
<1>1. PICK q : q = Whole(op, k, i, "sent", f, r)
  OBVIOUS
<1>2. k \in Hooks
  BY DEF HooksOf, Hooks, Sections
<1>3. i \in Items
  BY <1>2, PartOfItems
<1>4. q \in ErrandRecord /\ WellFormed(q) /\ q.stage = "sent" /\ q.hook = k /\ q.frees = f
  BY <1>1, <1>3, SentTyped
<1>5. busy \in BusyRecord
  BY DEF SettingsIInv, SettingsTyped
<1>6. FlagsRaised(q)
  BY <1>2, <1>3, <1>4, <1>5, FlagFacts
<1> QED BY <1>1, <1>4, <1>6, RunKeeps

LEMMA RelistKeeps == ASSUME SettingsIInv, NEW k \in Hooks, Relist(k) PROVE SettingsIInv'
<1>1. PICK q : q = Listing(k)
  OBVIOUS
<1>2. q = Whole("list", k, NoItem, "sent", "nothing", <<>>)
  BY <1>1, ListingFields
<1>3. k \in HooksOf("list") /\ "list" \in ErrandOps \ {"none", "prompt"}
  BY DEF HooksOf, ErrandOps
<1>4. ThenOf([op |-> "list", hook |-> k, item |-> NoItem]) = <<>>
  BY DEF ThenOf
<1>5. q \in ErrandRecord /\ WellFormed(q) /\ q.stage = "sent" /\ q.op = "list" /\ q.hook = k
  BY <1>2, <1>3, <1>4, SentTyped
<1>6. busy \in BusyRecord
  BY DEF SettingsIInv, SettingsTyped
<1>7. /\ section # "closed" /\ RunErrand(q) /\ Stays
      /\ busy' = [busy EXCEPT !.loading = @ \cup ({k} \ {"tokens", "tenant"})]
  BY <1>1 DEF Relist, Stays
<1>8. FlagsRaised(q)
  BY <1>5, <1>6, <1>7 DEF FlagsRaised, BusyRecord
<1> QED BY <1>5, <1>7, <1>8, RunKeeps

LEMMA CreateTokenKeeps == ASSUME SettingsIInv, NEW i \in Items, CreateToken(i) PROVE SettingsIInv'
<1>1. Freeing("creating", Errand("create", "tokens", i)) = Whole("create", "tokens", i, "sent", "creating", <<>>)
  BY ErrandFields
<1>2. /\ "create" \in ErrandOps \ {"none", "prompt", "list"} /\ "tokens" \in HooksOf("create")
      /\ ThenOf([op |-> "create", hook |-> "tokens", item |-> i]) = <<>>
  BY DEF ErrandOps, HooksOf, ThenOf
<1>3. i \in ItemsOf("tokens")
  BY DEF CreateToken, ItemsOf
<1>4. /\ section # "closed" /\ Stays /\ RunErrand(Whole("create", "tokens", i, "sent", "creating", <<>>))
      /\ busy' = [busy EXCEPT !.creating = @ \cup {"tokens"}]
  BY <1>1 DEF CreateToken
<1> QED BY <1>2, <1>3, <1>4, ButtonKeeps

LEMMA CreateSetKeeps == ASSUME SettingsIInv, NEW i \in Items, CreateSet(i) PROVE SettingsIInv'
<1>1. Freeing("creating", Errand("create", "sets", i)) = Whole("create", "sets", i, "sent", "creating", <<>>)
  BY ErrandFields
<1>2. /\ "create" \in ErrandOps \ {"none", "prompt", "list"} /\ "sets" \in HooksOf("create")
      /\ ThenOf([op |-> "create", hook |-> "sets", item |-> i]) = <<>>
  BY DEF ErrandOps, HooksOf, ThenOf
<1>3. i \in ItemsOf("sets")
  BY DEF CreateSet, ItemsOf
<1>4. /\ section # "closed" /\ Stays /\ RunErrand(Whole("create", "sets", i, "sent", "creating", <<>>))
      /\ busy' = [busy EXCEPT !.creating = @ \cup {"sets"}]
  BY <1>1 DEF CreateSet
<1> QED BY <1>2, <1>3, <1>4, ButtonKeeps

LEMMA RegenerateTokenKeeps == ASSUME SettingsIInv, NEW i \in Items, RegenerateToken(i) PROVE SettingsIInv'
<1>1. Freeing("saving", Errand("save", "tokens", i)) = Whole("save", "tokens", i, "sent", "saving", <<>>)
  BY ErrandFields
<1>2. /\ "save" \in ErrandOps \ {"none", "prompt", "list"} /\ "tokens" \in HooksOf("save")
      /\ ThenOf([op |-> "save", hook |-> "tokens", item |-> i]) = <<>>
  BY DEF ErrandOps, HooksOf, ThenOf
<1>3. i \in ItemsOf("tokens") /\ section # "closed"
  BY DEF RegenerateToken, RowIsFree, ShownOf
<1>4. /\ Stays /\ RunErrand(Whole("save", "tokens", i, "sent", "saving", <<>>))
      /\ busy' = [busy EXCEPT !.saving["tokens"] = i]
  BY <1>1 DEF RegenerateToken
<1> QED BY <1>2, <1>3, <1>4, ButtonKeeps

LEMMA RevokeTokenKeeps == ASSUME SettingsIInv, NEW i \in Items, RevokeToken(i) PROVE SettingsIInv'
<1>1. [Freeing("deleting", Errand("delete", "tokens", i)) EXCEPT !.then = <<Listing("tokens")>>]
        = Whole("delete", "tokens", i, "sent", "deleting", <<Listing("tokens")>>)
  BY ErrandFields
<1>2. /\ "delete" \in ErrandOps \ {"none", "prompt", "list"} /\ "tokens" \in HooksOf("delete")
      /\ ThenOf([op |-> "delete", hook |-> "tokens", item |-> i]) = <<Listing("tokens")>>
  BY DEF ErrandOps, HooksOf, ThenOf, Sections
<1>3. i \in ItemsOf("tokens") /\ section # "closed"
  BY DEF RevokeToken, RowIsFree, ShownOf
<1>4. /\ Stays /\ RunErrand(Whole("delete", "tokens", i, "sent", "deleting", <<Listing("tokens")>>))
      /\ busy' = [busy EXCEPT !.deleting["tokens"] = i]
  BY <1>1 DEF RevokeToken
<1> QED BY <1>2, <1>3, <1>4, ButtonKeeps

LEMMA RevokePasskeyKeeps == ASSUME SettingsIInv, NEW i \in Items, RevokePasskey(i) PROVE SettingsIInv'
<1>1. [Freeing("deleting", Errand("delete", "passkeys", i)) EXCEPT !.then = <<Listing("passkeys")>>]
        = Whole("delete", "passkeys", i, "sent", "deleting", <<Listing("passkeys")>>)
  BY ErrandFields
<1>2. /\ "delete" \in ErrandOps \ {"none", "prompt", "list"} /\ "passkeys" \in HooksOf("delete")
      /\ ThenOf([op |-> "delete", hook |-> "passkeys", item |-> i]) = <<Listing("passkeys")>>
  BY DEF ErrandOps, HooksOf, ThenOf, Sections
<1>3. i \in ItemsOf("passkeys") /\ section # "closed"
  BY DEF RevokePasskey, RowIsFree, ShownOf
<1>4. /\ Stays /\ RunErrand(Whole("delete", "passkeys", i, "sent", "deleting", <<Listing("passkeys")>>))
      /\ busy' = [busy EXCEPT !.deleting["passkeys"] = i]
  BY <1>1 DEF RevokePasskey
<1> QED BY <1>2, <1>3, <1>4, ButtonKeeps

LEMMA RenameTenantKeeps == ASSUME SettingsIInv, NEW i \in Items, RenameTenant(i) PROVE SettingsIInv'
<1>1. [Freeing("saving", Errand("save", "tenant", i)) EXCEPT !.then = <<Listing("tenant")>>]
        = Whole("save", "tenant", i, "sent", "saving", <<Listing("tenant")>>)
  BY ErrandFields
<1>2. /\ "save" \in ErrandOps \ {"none", "prompt", "list"} /\ "tenant" \in HooksOf("save")
      /\ ThenOf([op |-> "save", hook |-> "tenant", item |-> i]) = <<Listing("tenant")>>
  BY DEF ErrandOps, HooksOf, ThenOf
<1>3. i \in ItemsOf("tenant") /\ section # "closed"
  BY DEF RenameTenant, ItemsOf
<1>4. /\ Stays /\ RunErrand(Whole("save", "tenant", i, "sent", "saving", <<Listing("tenant")>>))
      /\ busy' = [busy EXCEPT !.saving["tenant"] = i]
  BY <1>1 DEF RenameTenant
<1> QED BY <1>2, <1>3, <1>4, ButtonKeeps

LEMMA RegisterPasskeyKeeps == ASSUME SettingsIInv, NEW i \in Items, RegisterPasskey(i) PROVE SettingsIInv'
<1>1. PICK r : r = <<[Errand("prompt", "passkeys", i) EXCEPT !.stage = "asking"],
                     Errand("finish", "passkeys", i), Listing("passkeys")>>
  OBVIOUS
<1>2. r = <<Called("prompt", "passkeys", i), Called("finish", "passkeys", i), Listing("passkeys")>>
  BY <1>1 DEF Called
<1>3. [Freeing("creating", Errand("challenge", "passkeys", i)) EXCEPT !.then = r]
        = Whole("challenge", "passkeys", i, "sent", "creating", r)
  BY ErrandFields
<1>4. /\ "challenge" \in ErrandOps \ {"none", "prompt", "list"} /\ "passkeys" \in HooksOf("challenge")
      /\ r = ThenOf([op |-> "challenge", hook |-> "passkeys", item |-> i])
  BY <1>2 DEF ErrandOps, HooksOf, ThenOf
<1>5. i \in ItemsOf("passkeys") /\ section # "closed"
  BY DEF RegisterPasskey, ItemsOf
<1>6. /\ Stays /\ RunErrand(Whole("challenge", "passkeys", i, "sent", "creating", r))
      /\ busy' = [busy EXCEPT !.creating = @ \cup {"passkeys"}]
  BY <1>1, <1>3 DEF RegisterPasskey
<1> QED BY <1>4, <1>5, <1>6, ButtonKeeps

LEMMA RowsKeep ==
    ASSUME SettingsIInv, NEW k \in Edited
    PROVE  /\ SaveRow(k) => SettingsIInv'
           /\ \A i \in Items : DeleteRow(k, i) => SettingsIInv'
<1>1. k \in HooksOf("save") /\ k \in HooksOf("delete") /\ k \in {"sets", "members"}
  BY DEF Edited, HooksOf, Sections
<1>2. SaveRow(k) => SettingsIInv'
  <2> SUFFICES ASSUME SaveRow(k) PROVE SettingsIInv'
    OBVIOUS
  <2>1. PICK i : i = editing[k]
    OBVIOUS
  <2>2. i \in ItemsOf(k) /\ section # "closed"
    BY <1>1, <2>1 DEF SaveRow, SettingsIInv, SettingsTyped, ShownOf
  <2>3. Freeing("saving", Errand("save", k, i)) = Whole("save", k, i, "sent", "saving", <<>>)
    BY ErrandFields
  <2>4. /\ "save" \in ErrandOps \ {"none", "prompt", "list"}
        /\ ThenOf([op |-> "save", hook |-> k, item |-> i]) = <<>>
    BY <1>1 DEF ErrandOps, ThenOf
  <2>5. /\ Stays /\ RunErrand(Whole("save", k, i, "sent", "saving", <<>>))
        /\ busy' = [busy EXCEPT !.saving[k] = i]
    BY <2>1, <2>3 DEF SaveRow
  <2> QED BY <1>1, <2>2, <2>4, <2>5, ButtonKeeps
<1>3. ASSUME NEW i \in Items, DeleteRow(k, i) PROVE SettingsIInv'
  <2>1. i \in ItemsOf(k) /\ section # "closed"
    BY <1>1, <1>3 DEF DeleteRow, RowIsFree, ShownOf
  <2>2. Freeing("deleting", Errand("delete", k, i)) = Whole("delete", k, i, "sent", "deleting", <<>>)
    BY ErrandFields
  <2>3. /\ "delete" \in ErrandOps \ {"none", "prompt", "list"}
        /\ ThenOf([op |-> "delete", hook |-> k, item |-> i]) = <<>>
    BY <1>1 DEF ErrandOps, ThenOf
  <2>4. /\ Stays /\ RunErrand(Whole("delete", k, i, "sent", "deleting", <<>>))
        /\ busy' = [busy EXCEPT !.deleting[k] = i]
    BY <1>3, <2>2 DEF DeleteRow
  <2> QED BY <1>1, <2>1, <2>3, <2>4, ButtonKeeps
<1> QED BY <1>2, <1>3

-----------------------------------------------------------------------------
(* The settings window: sections, editors, and the prompt.                 *)

\* A step that leaves the errands alone.
LEMMA StillErrandsKeep ==
    ASSUME SettingsIInv, UNCHANGED <<stored, shown, supported, errands, muddled>>,
           section' = section \/ (section' # "closed" /\ section # "closed") \/ section' = "closed",
           busy' = busy \/ busy' = Nothing,
           section' = "closed" => busy' = Nothing,
           section' \in Sections \cup {"closed"}, secret' \in ApiTokens \cup {NoItem},
           editing' \in [Edited -> Items \cup {NoItem}],
           \A k \in Edited : editing'[k] # NoItem => section' = k /\ editing'[k] \in ShownOf(k),
           ChosenSetIsListed'
    PROVE  SettingsIInv'
<1>1. SettingsTyped /\ CrossingsAreMuddled /\ FlagsWait /\ ListsInv
  BY DEF SettingsIInv
<1>2. Nothing \in BusyRecord
  BY DEF Nothing, BusyRecord
<1>3. SettingsTyped'
  BY <1>1, <1>2 DEF SettingsTyped, ShownOf
<1>4. CrossingsAreMuddled'
  BY <1>1 DEF CrossingsAreMuddled
<1>5. FlagsWait'
  <2>1. CASE busy' = busy
    BY <1>1, <2>1 DEF FlagsWait
  <2>2. CASE busy' = Nothing
    BY <2>2 DEF FlagsWait, Nothing
  <2> QED BY <2>1, <2>2
<1>6. ListsInv'
  BY <1>1 DEF ListsInv, StillSo, Done, Awaits
<1> QED BY <1>3, <1>4, <1>5, <1>6 DEF SettingsIInv

LEMMA FormShows ==
    ASSUME NEW list, NEW old, NEW s, NEW x \in FormOf(s, list, old), s = "tokens"
    PROVE  LET there == {i \in SetIds : list[i] # "none"} IN IF there = {} THEN x = NoItem ELSE x \in there
BY DEF FormOf, ChoiceAfter

LEMMA SectionsKeep ==
    ASSUME SettingsIInv
    PROVE  /\ \A s \in Sections : SelectSection(s) => SettingsIInv'
           /\ CloseSettings => SettingsIInv'
           /\ DismissSecret => SettingsIInv'
<1>1. SettingsTyped
  BY DEF SettingsIInv
<1>2. ASSUME NEW s \in Sections, SelectSection(s) PROVE SettingsIInv'
  <2>1. /\ section # "closed" /\ section' = s /\ editing' = [k \in Edited |-> NoItem]
        /\ chosen' \in FormOf(s, shown, NoItem)
        /\ UNCHANGED <<stored, shown, busy, secret, supported, errands, muddled>>
    BY <1>2 DEF SelectSection
  <2>2. section' # "closed"
    BY <2>1 DEF Sections
  <2>3. ShownOf("sets")' = {i \in SetIds : shown[i] # "none"}
    BY <2>1 DEF ShownOf, ItemsOf
  <2>4. ChosenSetIsListed'
    BY <2>1, <2>3, FormShows DEF ChosenSetIsListed
  <2> QED BY <1>1, <2>1, <2>2, <2>4, StillErrandsKeep DEF SettingsTyped
<1>3. ASSUME CloseSettings PROVE SettingsIInv'
  <2>1. /\ section' = "closed" /\ busy' = Nothing /\ secret' = NoItem
        /\ editing' = [k \in Edited |-> NoItem]
        /\ UNCHANGED <<stored, shown, supported, errands, muddled>>
    BY <1>3 DEF CloseSettings
  <2>2. ChosenSetIsListed'
    BY <2>1 DEF ChosenSetIsListed
  <2> QED BY <1>1, <2>1, <2>2, StillErrandsKeep
<1>4. ASSUME DismissSecret PROVE SettingsIInv'
  <2>1. /\ secret' = NoItem
        /\ UNCHANGED <<stored, shown, busy, section, editing, chosen, supported, errands, muddled>>
    BY <1>4 DEF DismissSecret
  <2>2. ChosenSetIsListed'
    BY <1>1, <2>1 DEF ChosenSetIsListed, ShownOf, SettingsTyped
  <2> QED BY <1>1, <2>1, <2>2, StillErrandsKeep DEF SettingsTyped
<1> QED BY <1>2, <1>3, <1>4

LEMMA EditorsKeep ==
    ASSUME SettingsIInv, NEW k \in Edited
    PROVE  /\ LeaveRow(k) => SettingsIInv'
           /\ \A i \in ItemsOf(k) : EditRow(k, i) => SettingsIInv'
<1>1. SettingsTyped
  BY DEF SettingsIInv
<1>2. ASSUME LeaveRow(k) PROVE SettingsIInv'
  <2>1. /\ editing' = [editing EXCEPT ![k] = NoItem]
        /\ UNCHANGED <<stored, shown, busy, section, chosen, secret, supported, errands, muddled>>
    BY <1>2 DEF LeaveRow
  <2>2. ChosenSetIsListed'
    BY <1>1, <2>1 DEF ChosenSetIsListed, ShownOf, SettingsTyped
  <2> QED BY <1>1, <2>1, <2>2, StillErrandsKeep DEF SettingsTyped
<1>3. ASSUME NEW i \in ItemsOf(k), EditRow(k, i) PROVE SettingsIInv'
  <2>1. /\ editing' = [editing EXCEPT ![k] = i] /\ section = k /\ i \in ShownOf(k)
        /\ UNCHANGED <<stored, shown, busy, section, chosen, secret, supported, errands, muddled>>
    BY <1>3 DEF EditRow, RowIsFree
  <2>2. ChosenSetIsListed'
    BY <1>1, <2>1 DEF ChosenSetIsListed, ShownOf, SettingsTyped
  <2>3. i \in Items
    <3>1. k \in Hooks
      BY DEF Edited, Hooks, Sections
    <3> QED BY <3>1, PartOfItems
  <2> QED BY <1>1, <2>1, <2>2, <2>3, StillErrandsKeep DEF SettingsTyped
<1> QED BY <1>2, <1>3

-----------------------------------------------------------------------------
(* The settings window: answers.                                           *)

\* An answer in place of its request, the call itself being the same.
Answers(r, q) ==
  /\ r \in ErrandRecord /\ WellFormed(r)
  /\ r.op = q.op /\ r.hook = q.hook /\ r.item = q.item /\ r.frees = q.frees /\ r.stage = "answered"

LEMMA AnsweredKeepsShape ==
    ASSUME SettingsIInv, NEW c \in ErrandIds, NEW r, Answers(r, errands[c]),
           errands' = [errands EXCEPT ![c] = r], stored' \in [Items -> {"none", "old", "new", "gone"}],
           UNCHANGED <<shown, busy, section, editing, chosen, secret, supported, muddled>>
    PROVE  SettingsTyped' /\ CrossingsAreMuddled' /\ FlagsWait'
<1>1. SettingsTyped /\ CrossingsAreMuddled /\ FlagsWait
  BY DEF SettingsIInv
<1>2. errands \in [ErrandIds -> ErrandRecord] /\ \A e \in ErrandIds : errands'[e] = IF e = c THEN r ELSE errands[e]
  BY <1>1 DEF SettingsTyped
<1>3. \A e \in ErrandIds : /\ errands'[e].op = errands[e].op /\ errands'[e].hook = errands[e].hook
                           /\ errands'[e].item = errands[e].item /\ errands'[e].frees = errands[e].frees
  BY <1>2 DEF Answers
<1>4. CrossingsAreMuddled'
  <2>1. \A u, e \in ErrandIds : Crossed(errands'[u], errands'[e]) = Crossed(errands[u], errands[e])
    BY <1>3 DEF Crossed, Touches
  <2> QED BY <1>1, <2>1 DEF CrossingsAreMuddled
<1>5. FlagsWait'
  BY <1>1, <1>3 DEF FlagsWait
<1>6. SettingsTyped'
  <2>1. errands' \in [ErrandIds -> ErrandRecord] /\ \A e \in ErrandIds : WellFormed(errands'[e])
    BY <1>1, <1>2 DEF SettingsTyped, Answers
  <2>2. ChosenSetIsListed'
    BY <1>1 DEF SettingsTyped, ChosenSetIsListed, ShownOf
  <2>3. \A k \in Edited : editing'[k] # NoItem => section' = k /\ editing'[k] \in ShownOf(k)'
    BY <1>1 DEF SettingsTyped, ShownOf
  <2> QED BY <1>1, <2>1, <2>2, <2>3 DEF SettingsTyped
<1> QED BY <1>4, <1>5, <1>6

\* An errand that is answered as another one, or fails.
LEMMA AnswerFields ==
    ASSUME NEW q \in ErrandRecord, WellFormed(q), q.stage \in {"sent", "asking"}
    PROVE  /\ \A yes \in BOOLEAN : q.op = "prompt" \/ ~yes =>
                 /\ Answers([q EXCEPT !.stage = "answered", !.ok = yes], q)
                 /\ [q EXCEPT !.stage = "answered", !.ok = yes].ok = yes
           /\ \A t \in Tales \cup {<<>>} : (q.op = "list" => t \in [ItemsOf(q.hook) -> {"none", "old", "new"}]) =>
                 /\ Answers([q EXCEPT !.stage = "answered", !.told = t], q)
                 /\ [q EXCEPT !.stage = "answered", !.told = t].told = t
                 /\ [q EXCEPT !.stage = "answered", !.told = t].ok
<1>1. q.op # "none" /\ q.ok
  BY NoErrandFacts DEF WellFormed
<1>2. ASSUME NEW yes \in BOOLEAN, q.op = "prompt" \/ ~yes
      PROVE  /\ Answers([q EXCEPT !.stage = "answered", !.ok = yes], q)
             /\ [q EXCEPT !.stage = "answered", !.ok = yes].ok = yes
  <2>1. PICK r : r = [q EXCEPT !.stage = "answered", !.ok = yes]
    OBVIOUS
  <2>2. /\ r \in ErrandRecord /\ r.op = q.op /\ r.hook = q.hook /\ r.item = q.item /\ r.frees = q.frees
        /\ r.stage = "answered" /\ r.then = q.then /\ r.ok = yes
    BY <2>1 DEF ErrandRecord
  <2>3. ThenOf(r) = ThenOf(q)
    BY <2>2 DEF ThenOf
  <2>4. WellFormed(r)
    BY <1>1, <1>2, <2>2, <2>3 DEF WellFormed
  <2> QED BY <2>1, <2>2, <2>4 DEF Answers
<1>3. ASSUME NEW t \in Tales \cup {<<>>}, q.op = "list" => t \in [ItemsOf(q.hook) -> {"none", "old", "new"}]
      PROVE  /\ Answers([q EXCEPT !.stage = "answered", !.told = t], q)
             /\ [q EXCEPT !.stage = "answered", !.told = t].told = t
             /\ [q EXCEPT !.stage = "answered", !.told = t].ok
  <2>1. PICK r : r = [q EXCEPT !.stage = "answered", !.told = t]
    OBVIOUS
  <2>2. /\ r \in ErrandRecord /\ r.op = q.op /\ r.hook = q.hook /\ r.item = q.item /\ r.frees = q.frees
        /\ r.stage = "answered" /\ r.then = q.then /\ r.ok = q.ok /\ r.told = t
    BY <2>1 DEF ErrandRecord
  <2>3. ThenOf(r) = ThenOf(q)
    BY <2>2 DEF ThenOf
  <2>4. WellFormed(r)
    BY <1>1, <1>3, <2>2, <2>3 DEF WellFormed
  <2> QED BY <1>1, <2>1, <2>2, <2>4 DEF Answers
<1> QED BY <1>2, <1>3

\* A refusal, or the end of a prompt, says nothing of the lists.
LEMMA MuteAnswerKeeps ==
    ASSUME SettingsIInv, NEW c \in ErrandIds, errands[c].stage \in {"sent", "asking"}, NEW r, Answers(r, errands[c]),
           ~r.ok \/ r.op = "prompt", errands' = [errands EXCEPT ![c] = r],
           UNCHANGED <<stored, shown, busy, section, editing, chosen, secret, supported, muddled>>
    PROVE  SettingsIInv'
<1>1. SettingsTyped /\ ListsInv
  BY DEF SettingsIInv
<1>2. SettingsTyped' /\ CrossingsAreMuddled' /\ FlagsWait'
  BY <1>1, AnsweredKeepsShape DEF SettingsTyped
<1>3. \A e \in ErrandIds : errands'[e] = IF e = c THEN r ELSE errands[e]
  BY <1>1 DEF SettingsTyped
<1>4. \A e \in ErrandIds :
        /\ Done(e)' => (Done(e) /\ errands'[e] = errands[e]) \/ Touches(errands'[e]) = {}
        /\ Done(e) => errands'[e] = errands[e]
        /\ errands[e].op = "list" => errands'[e].op = "list" /\ errands'[e].hook = errands[e].hook
  BY <1>3 DEF Done, Touches, Answers
<1>5. ListsInv'
  BY <1>1, <1>4, SayingsPersist
<1> QED BY <1>2, <1>5 DEF SettingsIInv

LEMMA AnswerPromptKeeps == ASSUME SettingsIInv, NEW c \in ErrandIds, AnswerPrompt(c) PROVE SettingsIInv'
<1>1. PICK q : q = errands[c]
  OBVIOUS
<1>2. PICK yes \in BOOLEAN : errands' = [errands EXCEPT ![c].stage = "answered", ![c].ok = yes]
  BY DEF AnswerPrompt
<1>3. /\ q.stage = "asking"
      /\ UNCHANGED <<stored, shown, busy, section, editing, chosen, secret, supported, muddled>>
  BY <1>1 DEF AnswerPrompt
<1>4. errands \in [ErrandIds -> ErrandRecord] /\ q \in ErrandRecord /\ WellFormed(q)
  BY <1>1 DEF SettingsIInv, SettingsTyped
<1>5. q.op = "prompt"
  BY <1>3, <1>4, NoErrandFacts DEF WellFormed
<1>6. PICK r : r = [q EXCEPT !.stage = "answered", !.ok = yes]
  OBVIOUS
<1>7. errands' = [errands EXCEPT ![c] = r]
  BY <1>1, <1>2, <1>4, <1>6
<1>8. Answers(r, q)
  BY <1>3, <1>4, <1>5, <1>6, AnswerFields
<1>9. r.op = "prompt"
  BY <1>5, <1>8 DEF Answers
<1> QED BY <1>1, <1>3, <1>7, <1>8, <1>9, MuteAnswerKeeps

\* A request that succeeds: what it says is so, and what was said before stays so.
LEMMA GrantedListsKeep ==
    ASSUME SettingsIInv, NEW c \in ErrandIds, NEW q, q = errands[c], q.stage = "sent", Possible(q),
           NEW r, Answers(r, q), r.ok,
           stored' = IF q.op \in {"list", "challenge"} THEN stored ELSE [stored EXCEPT ![q.item] = Writes(q)],
           q.op = "list" => r.told = [i \in ItemsOf(q.hook) |-> Unseen(stored[i])],
           errands' = [errands EXCEPT ![c] = r], UNCHANGED <<shown, section, muddled>>
    PROVE  ListsInv' /\ stored' \in [Items -> {"none", "old", "new", "gone"}]
<1>1. SettingsTyped /\ CrossingsAreMuddled /\ ListsInv
  BY DEF SettingsIInv
<1>2. /\ errands \in [ErrandIds -> ErrandRecord] /\ stored \in [Items -> {"none", "old", "new", "gone"}]
      /\ q \in ErrandRecord /\ WellFormed(q)
      /\ \A e \in ErrandIds : errands'[e] = IF e = c THEN r ELSE errands[e]
  BY <1>1 DEF SettingsTyped
<1>3. /\ r.op = q.op /\ r.hook = q.hook /\ r.item = q.item /\ Alters(r) = Alters(q) /\ Writes(r) = Writes(q)
      /\ r.stage = "answered"
  BY DEF Answers, Alters, Writes
<1>4. q.op \in {"list", "challenge", "create", "save", "delete", "finish"}
  BY <1>2, NoErrandFacts DEF WellFormed, ErrandRecord, ErrandOps
<1>5. /\ \A i \in Items : i \notin Alters(q) => stored'[i] = stored[i]
      /\ \A i \in Items : i \in Alters(q) => stored'[i] = Writes(q)
      /\ stored' \in [Items -> {"none", "old", "new", "gone"}]
  <2>1. CASE q.op \in {"list", "challenge"}
    BY <1>2, <2>1 DEF Alters
  <2>2. CASE q.op \in {"create", "save", "delete", "finish"}
    <3>1. stored' = [stored EXCEPT ![q.item] = Writes(q)] /\ Alters(q) = {q.item}
      BY <2>2 DEF Alters
    <3>2. Writes(q) \in {"old", "new", "gone"}
      BY DEF Writes
    <3> QED BY <1>2, <3>1, <3>2, ZenonT(60)
  <2> QED BY <1>4, <2>1, <2>2
<1>6. /\ ~Done(c) /\ Done(c)' /\ errands'[c] = r
      /\ \A e \in ErrandIds : e # c => errands'[e] = errands[e] /\ (Done(e)' <=> Done(e))
  BY <1>2, <1>3 DEF Done
<1>7. \A e \in ErrandIds : e # c => Crossed(q, errands[e]) \subseteq muddled
  BY <1>1 DEF CrossingsAreMuddled
<1>8. ListsInv'
  <2> SUFFICES ASSUME section # "closed", NEW i \in Items, i \notin muddled
               PROVE  /\ \A e \in ErrandIds : Done(e)' => StillSo(e, i)'
                      /\ ~Awaits(i)' => shown[i] = Unseen(stored'[i])
    BY DEF ListsInv
  <2>1. /\ \A e \in ErrandIds : Done(e) => StillSo(e, i)
        /\ ~Awaits(i) => shown[i] = Unseen(stored[i])
    BY <1>1 DEF ListsInv
  <2>2. ASSUME NEW e \in ErrandIds, Done(e)', e # c PROVE StillSo(e, i)'
    <3>1. StillSo(e, i) /\ errands'[e] = errands[e]
      BY <1>6, <2>1, <2>2
    <3>2. i \in Touches(errands[e]) => i \notin Alters(q)
      BY <1>7, <2>2 DEF Touches, Alters, Crossed
    <3>3. i \in Touches(errands[e]) => stored'[i] = stored[i]
      BY <1>5, <3>2
    <3> QED BY <3>1, <3>3 DEF StillSo, Touches, Alters
  <2>3. StillSo(c, i)'
    <3>1. i \in Alters(r) => stored'[i] = Writes(r)
      BY <1>3, <1>5
    <3>2. r.op = "list" /\ i \in ItemsOf(r.hook) => r.told[i] = Unseen(stored'[i])
      BY <1>3, <1>5 DEF Alters
    <3>3. r.op = "save" /\ i = r.item => shown[i] # "none"
      <4> SUFFICES ASSUME q.op = "save", i = q.item PROVE shown[i] # "none"
        BY <1>3
      <4>1. stored[i] \in {"old", "new"}
        BY DEF Possible
      <4>2. \A e \in ErrandIds : e # c => i \notin Touches(errands[e])
        BY <1>7 DEF Crossed, Touches
      <4>3. ~Awaits(i)
        BY <1>6, <4>2 DEF Awaits, Touches, Alters
      <4> QED BY <2>1, <4>1, <4>3 DEF Unseen
    <3> QED BY <1>6, <3>1, <3>2, <3>3 DEF StillSo
  <2>4. ASSUME ~Awaits(i)' PROVE shown[i] = Unseen(stored'[i])
    <3>1. i \notin Alters(q)
      BY <1>3, <1>6, <2>4 DEF Awaits
    <3>2. ~Awaits(i)
      BY <1>3, <1>6, <2>4 DEF Awaits
    <3> QED BY <1>5, <2>1, <3>1, <3>2
  <2> QED BY <2>2, <2>3, <2>4
<1> QED BY <1>5, <1>8

LEMMA ServeErrandKeeps == ASSUME SettingsIInv, NEW c \in ErrandIds, ServeErrand(c) PROVE SettingsIInv'
<1>1. PICK q : q = errands[c]
  OBVIOUS
<1>2. q.stage = "sent" /\ UNCHANGED <<shown, busy, section, editing, chosen, secret, supported, muddled>>
  BY <1>1 DEF ServeErrand
<1>3. /\ errands \in [ErrandIds -> ErrandRecord] /\ q \in ErrandRecord /\ WellFormed(q)
      /\ stored \in [Items -> {"none", "old", "new", "gone"}]
  BY <1>1 DEF SettingsIInv, SettingsTyped
<1>4. CASE /\ Possible(q)
           /\ stored' = IF q.op \in {"list", "challenge"} THEN stored ELSE [stored EXCEPT ![q.item] = Writes(q)]
           /\ errands' = [errands EXCEPT ![c].stage = "answered",
                            ![c].told = IF q.op = "list" THEN [i \in ItemsOf(q.hook) |-> Unseen(stored[i])] ELSE @]
  <2>1. PICK t : t = IF q.op = "list" THEN [i \in ItemsOf(q.hook) |-> Unseen(stored[i])] ELSE q.told
    OBVIOUS
  <2>2. q.hook \in Hooks /\ ItemsOf(q.hook) \subseteq Items
    BY <1>3, PartOfItems DEF ErrandRecord
  <2>3. q.op = "list" => t \in [ItemsOf(q.hook) -> {"none", "old", "new"}]
    BY <1>3, <2>1, <2>2 DEF Unseen
  <2>4. t \in Tales \cup {<<>>}
    BY <1>3, <2>1, <2>2, <2>3 DEF Tales, ErrandRecord
  <2>5. PICK r : r = [q EXCEPT !.stage = "answered", !.told = t]
    OBVIOUS
  <2>6. errands' = [errands EXCEPT ![c] = r]
    BY <1>1, <1>3, <1>4, <2>1, <2>5
  <2>7. Answers(r, q) /\ r.told = t /\ r.ok
    BY <1>2, <1>3, <2>3, <2>4, <2>5, AnswerFields
  <2>8. ListsInv' /\ stored' \in [Items -> {"none", "old", "new", "gone"}]
    BY <1>1, <1>2, <1>4, <2>1, <2>6, <2>7, GrantedListsKeep
  <2>9. SettingsTyped' /\ CrossingsAreMuddled' /\ FlagsWait'
    BY <1>1, <1>2, <2>6, <2>7, <2>8, AnsweredKeepsShape
  <2> QED BY <2>8, <2>9 DEF SettingsIInv
<1>5. CASE /\ errands' = [errands EXCEPT ![c].stage = "answered", ![c].ok = FALSE]
           /\ UNCHANGED stored
  <2>1. PICK r : r = [q EXCEPT !.stage = "answered", !.ok = FALSE]
    OBVIOUS
  <2>2. errands' = [errands EXCEPT ![c] = r]
    BY <1>1, <1>3, <1>5, <2>1
  <2>3. Answers(r, q) /\ r.ok = FALSE
    BY <1>2, <1>3, <2>1, AnswerFields
  <2> QED BY <1>1, <1>2, <1>5, <2>2, <2>3, MuteAnswerKeeps
<1> QED BY <1>1, <1>4, <1>5 DEF ServeErrand

-----------------------------------------------------------------------------
(* The settings window: handlers resume.                                   *)

IsLast(q) == q.then = <<>> \/ ~q.ok
NextOf(q) == IF IsLast(q) THEN NoErrand ELSE [Head(q.then) EXCEPT !.then = Tail(q.then), !.frees = q.frees]

\* The first of the requests a handler still makes, and those after it.
LEMMA ThenHeads ==
    /\ \A a, b, d : /\ Head(<<a>>) = a /\ Tail(<<a>>) = <<>>
                    /\ Head(<<a, b>>) = a /\ Tail(<<a, b>>) = <<b>>
                    /\ Head(<<a, b, d>>) = a /\ Tail(<<a, b, d>>) = <<b, d>>
    /\ \A a, b, d : <<a>> # <<>> /\ <<a, b>> # <<>> /\ <<a, b, d>> # <<>>
OBVIOUS

LEMMA LaterTyped ==
    ASSUME NEW op \in {"prompt", "finish", "list"}, NEW k \in HooksOf(op), NEW i \in Items \cup {NoItem},
           op # "list" => i \in ItemsOf(k),
           NEW stage, stage = IF op = "prompt" THEN "asking" ELSE "sent",
           NEW f \in {"nothing", "creating", "saving", "deleting"},
           NEW r, r = ThenOf([op |-> op, hook |-> k, item |-> i]),
           NEW q, q = Whole(op, k, i, stage, f, r)
    PROVE  /\ q \in ErrandRecord /\ WellFormed(q) /\ q.stage # "answered"
           /\ q.op = op /\ q.hook = k /\ q.item = i /\ q.frees = f
<1>1. k \in Hooks
  BY DEF HooksOf, Hooks, Sections
<1>2. r \in Seq(Step)
  BY <1>1, ThenTyped
<1>3. q \in ErrandRecord
  BY <1>1, <1>2 DEF ErrandRecord, ErrandOps, Whole
<1>4. /\ q.stage = stage /\ q.op = op /\ q.hook = k /\ q.item = i /\ q.frees = f /\ q.then = r /\ q.ok
  BY DEF Whole
<1>5. q.then = ThenOf(q)
  BY <1>4 DEF ThenOf
<1>6. WellFormed(q)
  BY <1>4, <1>5 DEF WellFormed
<1> QED BY <1>3, <1>4, <1>6

\* What a handler does next; the listing that shows a change follows it.
LEMMA NextFacts ==
    ASSUME NEW q \in ErrandRecord, WellFormed(q), q.stage = "answered"
    PROVE  /\ NextOf(q) \in ErrandRecord /\ WellFormed(NextOf(q)) /\ NextOf(q).stage # "answered"
           /\ ~IsLast(q) => NextOf(q).hook = q.hook /\ NextOf(q).frees = q.frees
           /\ IsLast(q) => NextOf(q) = NoErrand
           /\ (q.ok /\ \/ q.op = "finish"
                       \/ q.op = "delete" /\ q.hook \in {"tokens", "passkeys"}
                       \/ q.op = "save" /\ q.hook = "tenant")
                => NextOf(q).op = "list" /\ NextOf(q).hook = q.hook
<1>1. PICK n : n = NextOf(q)
  OBVIOUS
<1>2. /\ q.then = ThenOf(q) /\ q.hook \in HooksOf(q.op) /\ q.hook \in Hooks /\ q.item \in Items \cup {NoItem}
      /\ q.op \notin {"none", "list"} => q.item \in ItemsOf(q.hook)
      /\ q.frees \in {"nothing", "creating", "saving", "deleting"}
  BY DEF WellFormed, ErrandRecord
<1>3. CASE IsLast(q)
  <2>1. n = NoErrand
    BY <1>1, <1>3 DEF NextOf
  <2>2. ~(q.ok /\ \/ q.op = "finish"
                  \/ q.op = "delete" /\ q.hook \in {"tokens", "passkeys"}
                  \/ q.op = "save" /\ q.hook = "tenant")
    BY <1>2, <1>3, ThenHeads DEF IsLast, ThenOf
  <2> QED BY <1>1, <1>3, <2>1, <2>2, NoErrandFacts
<1>4. CASE ~IsLast(q)
  <2> DEFINE h == Head(q.then)
  <2>1. ASSUME NEW op, NEW k, NEW i, NEW stage, h = Whole(op, k, i, stage, "nothing", <<>>)
        PROVE  n = Whole(op, k, i, stage, q.frees, Tail(q.then))
    <3>1. PICK r : r = Tail(q.then)
      OBVIOUS
    <3>2. PICK f : f = q.frees
      OBVIOUS
    <3>3. PICK b : b = [h EXCEPT !.then = r]
      OBVIOUS
    <3>4. h = [op |-> op, hook |-> k, item |-> i, stage |-> stage, ok |-> TRUE, told |-> <<>>,
               frees |-> "nothing", then |-> <<>>]
      BY <2>1 DEF Whole
    <3> HIDE DEF h
    <3>5. b = [op |-> op, hook |-> k, item |-> i, stage |-> stage, ok |-> TRUE, told |-> <<>>,
               frees |-> "nothing", then |-> r]
      BY <3>3, <3>4
    <3>6. PICK d : d = [b EXCEPT !.frees = f]
      OBVIOUS
    <3>7. d = [op |-> op, hook |-> k, item |-> i, stage |-> stage, ok |-> TRUE, told |-> <<>>,
               frees |-> f, then |-> r]
      BY <3>5, <3>6
    <3>8. n = d
      BY <1>1, <1>4, <3>1, <3>2, <3>3, <3>6 DEF NextOf, h
    <3> QED BY <3>1, <3>2, <3>7, <3>8 DEF Whole
  <2> HIDE DEF h
  <2>2. CASE q.op = "challenge"
    <3>1. PICK a : a = Called("prompt", "passkeys", q.item)
      OBVIOUS
    <3>2. PICK r : r = <<Called("finish", "passkeys", q.item), Listing("passkeys")>>
      OBVIOUS
    <3>3. q.then = <<a, Called("finish", "passkeys", q.item), Listing("passkeys")>>
      BY <1>2, <2>2, <3>1 DEF ThenOf
    <3>4. h = a /\ Tail(q.then) = r
      BY <3>2, <3>3, ThenHeads DEF h
    <3>5. q.hook = "passkeys" /\ "passkeys" \in HooksOf("prompt")
      BY <1>2, <2>2 DEF HooksOf
    <3>6. r = ThenOf([op |-> "prompt", hook |-> "passkeys", item |-> q.item])
      BY <3>2 DEF ThenOf
    <3>7. n = Whole("prompt", "passkeys", q.item, "asking", q.frees, r)
      <4>1. a = Whole("prompt", "passkeys", q.item, "asking", "nothing", <<>>)
        BY <3>1, CalledFields
      <4> QED BY <2>1, <3>4, <4>1
    <3>8. /\ n \in ErrandRecord /\ WellFormed(n) /\ n.stage # "answered"
          /\ n.op = "prompt" /\ n.hook = "passkeys" /\ n.frees = q.frees
      BY <1>2, <2>2, <3>5, <3>6, <3>7, LaterTyped
    <3> QED BY <1>1, <1>4, <2>2, <3>5, <3>8
  <2>3. CASE q.op = "prompt"
    <3>1. PICK a : a = Called("finish", "passkeys", q.item)
      OBVIOUS
    <3>2. PICK r : r = <<Listing("passkeys")>>
      OBVIOUS
    <3>3. q.then = <<a, Listing("passkeys")>>
      BY <1>2, <2>3, <3>1 DEF ThenOf
    <3>4. h = a /\ Tail(q.then) = r
      BY <3>2, <3>3, ThenHeads DEF h
    <3>5. q.hook = "passkeys" /\ "passkeys" \in HooksOf("finish")
      BY <1>2, <2>3 DEF HooksOf
    <3>6. r = ThenOf([op |-> "finish", hook |-> "passkeys", item |-> q.item])
      BY <3>2 DEF ThenOf
    <3>7. n = Whole("finish", "passkeys", q.item, "sent", q.frees, r)
      <4>1. a = Whole("finish", "passkeys", q.item, "sent", "nothing", <<>>)
        BY <3>1, CalledFields
      <4> QED BY <2>1, <3>4, <4>1
    <3>8. /\ n \in ErrandRecord /\ WellFormed(n) /\ n.stage # "answered"
          /\ n.op = "finish" /\ n.hook = "passkeys" /\ n.frees = q.frees
      BY <1>2, <2>3, <3>5, <3>6, <3>7, LaterTyped
    <3> QED BY <1>1, <1>4, <2>3, <3>5, <3>8
  <2>4. CASE q.op \notin {"challenge", "prompt"}
    <3>1. PICK a : a = Listing(q.hook)
      OBVIOUS
    <3>2. PICK r : r = <<>>
      OBVIOUS
    <3>3. q.then = <<a>>
      BY <1>2, <1>4, <2>4, <3>1 DEF ThenOf, IsLast
    <3>4. h = a /\ Tail(q.then) = r
      BY <3>2, <3>3, ThenHeads DEF h
    <3>5. q.hook \in HooksOf("list") /\ NoItem \in Items \cup {NoItem}
      BY <1>2 DEF HooksOf
    <3>6. r = ThenOf([op |-> "list", hook |-> q.hook, item |-> NoItem])
      BY <3>2 DEF ThenOf
    <3>7. n = Whole("list", q.hook, NoItem, "sent", q.frees, r)
      <4>1. a = Whole("list", q.hook, NoItem, "sent", "nothing", <<>>)
        BY <3>1, ListingFields
      <4> QED BY <2>1, <3>4, <4>1
    <3>8. /\ n \in ErrandRecord /\ WellFormed(n) /\ n.stage # "answered"
          /\ n.op = "list" /\ n.hook = q.hook /\ n.frees = q.frees
      BY <1>2, <3>5, <3>6, <3>7, LaterTyped
    <3> QED BY <1>1, <1>4, <3>8
  <2> QED BY <2>2, <2>3, <2>4
<1> QED BY <1>3, <1>4

\* What an answer makes of the lists: nothing but what its request is about; a
\* change is shown at once, or by the listing that follows.
Shows(q) ==
  IF q.hook = "passkeys" /\ q.op = "list" /\ ~q.ok /\ ~supported'
  THEN [i \in Items |-> IF i \in Passkeys THEN "none" ELSE shown[i]] ELSE ShownAfter(q)

LEMMA ShownFacts ==
    ASSUME shown \in [Items -> {"none", "old", "new"}], NEW q \in ErrandRecord, WellFormed(q), q.stage = "answered",
           NEW list, list = Shows(q)
    PROVE  /\ list \in [Items -> {"none", "old", "new"}]
           /\ \A i \in Items : i \notin Touches(q) => list[i] = shown[i]
           /\ q.op = "list" /\ q.ok => \A i \in ItemsOf(q.hook) : list[i] = q.told[i]
           /\ \A i \in Items : q.ok /\ i \in Alters(q) =>
                \/ list[i] = Unseen(Writes(q))
                \/ q.op = "save" /\ shown[i] = "none"
                \/ NextOf(q).op = "list" /\ NextOf(q).hook = q.hook /\ i \in ItemsOf(q.hook)
           /\ q.op # "list" /\ ~q.ok => list = shown
           /\ q.op \in {"challenge", "prompt"} => list = shown
<1>1. /\ q.hook \in Hooks /\ q.hook \in HooksOf(q.op) /\ q.op \in ErrandOps /\ q.op # "none"
      /\ q.op \notin {"none", "list"} => q.item \in ItemsOf(q.hook)
  BY NoErrandFacts DEF WellFormed, ErrandRecord
<1>2. ItemsOf(q.hook) \subseteq Items
  BY <1>1, PartOfItems
<1>3. CASE q.op = "list"
  <2>1. Touches(q) = ItemsOf(q.hook) /\ Alters(q) = {}
    BY <1>3 DEF Touches, Alters
  <2>2. CASE q.ok
    <3>1. list = [i \in Items |-> IF i \in ItemsOf(q.hook) THEN q.told[i] ELSE shown[i]]
      BY <1>3, <2>2 DEF Shows, ShownAfter
    <3>2. q.told \in [ItemsOf(q.hook) -> {"none", "old", "new"}]
      BY <1>3, <2>2 DEF WellFormed
    <3> QED BY <1>2, <1>3, <2>1, <2>2, <3>1, <3>2
  <2>3. CASE ~q.ok /\ q.hook = "passkeys" /\ ~supported'
    <3>1. list = [i \in Items |-> IF i \in Passkeys THEN "none" ELSE shown[i]]
      BY <1>3, <2>3 DEF Shows
    <3>2. ItemsOf(q.hook) = Passkeys
      BY <2>3 DEF ItemsOf
    <3> QED BY <1>3, <2>1, <2>3, <3>1, <3>2
  <2>4. CASE ~q.ok /\ q.hook = "capabilities"
    <3>1. list = [i \in Items |-> IF i \in Capabilities THEN "none" ELSE shown[i]]
      BY <1>3, <2>4 DEF Shows, ShownAfter
    <3>2. ItemsOf(q.hook) = Capabilities
      BY <2>4 DEF ItemsOf
    <3> QED BY <1>3, <2>1, <2>4, <3>1, <3>2
  <2>5. CASE ~q.ok /\ q.hook # "capabilities" /\ ~(q.hook = "passkeys" /\ ~supported')
    <3>1. list = shown
      BY <1>3, <2>5 DEF Shows, ShownAfter
    <3> QED BY <1>3, <2>1, <2>5, <3>1
  <2> QED BY <2>2, <2>3, <2>4, <2>5
<1>4. CASE q.op # "list"
  <2>1. list = ShownAfter(q)
    BY <1>4 DEF Shows
  <2>2. Alters(q) \subseteq Touches(q) /\ (q.op \notin {"challenge", "prompt"} => Touches(q) = {q.item} /\ q.item \in Items)
    BY <1>1, <1>2, <1>4 DEF Alters, Touches, ErrandOps
  <2>3. CASE ~q.ok \/ q.op \in {"challenge", "prompt"}
    <3>1. list = shown
      BY <1>4, <2>1, <2>3 DEF ShownAfter
    <3>2. q.op \in {"challenge", "prompt"} => Alters(q) = {}
      BY DEF Alters
    <3> QED BY <1>4, <2>3, <3>1, <3>2
  <2>4. CASE q.ok /\ q.op = "create"
    <3>1. list = [shown EXCEPT ![q.item] = "old"]
      BY <2>1, <2>4 DEF ShownAfter, Put
    <3>2. Writes(q) = "old" /\ Unseen(Writes(q)) = "old"
      BY <2>4 DEF Writes, Unseen
    <3> QED BY <2>2, <2>4, <3>1, <3>2
  <2>5. CASE q.ok /\ q.op = "save" /\ q.hook \in {"tokens", "sets"}
    <3>1. list = [shown EXCEPT ![q.item] = "new"]
      BY <2>1, <2>5 DEF ShownAfter, Put
    <3>2. Writes(q) = "new" /\ Unseen(Writes(q)) = "new"
      BY <2>5 DEF Writes, Unseen
    <3> QED BY <2>2, <2>5, <3>1, <3>2
  <2>6. CASE q.ok /\ q.op = "save" /\ q.hook = "members"
    <3>1. Writes(q) = "new" /\ Unseen(Writes(q)) = "new"
      BY <2>6 DEF Writes, Unseen
    <3>2. CASE q.item \in ShownOf("members")
      <4>1. list = [shown EXCEPT ![q.item] = "new"]
        BY <2>1, <2>6, <3>2 DEF ShownAfter, Put
      <4> QED BY <2>2, <2>6, <3>1, <4>1
    <3>3. CASE q.item \notin ShownOf("members")
      <4>1. list = shown
        BY <2>1, <2>6, <3>3 DEF ShownAfter
      <4>2. shown[q.item] = "none"
        BY <1>1, <2>6, <3>3 DEF ShownOf
      <4> QED BY <2>2, <2>6, <4>1, <4>2
    <3> QED BY <3>2, <3>3
  <2>7. CASE q.ok /\ q.op = "delete" /\ q.hook \in Edited
    <3>1. list = [shown EXCEPT ![q.item] = "none"]
      BY <2>1, <2>7 DEF ShownAfter, Put
    <3>2. Writes(q) = "gone" /\ Unseen(Writes(q)) = "none"
      BY <2>7 DEF Writes, Unseen
    <3> QED BY <2>2, <2>7, <3>1, <3>2
  <2>8. CASE q.ok /\ \/ q.op = "finish"
                     \/ q.op = "delete" /\ q.hook \notin Edited
                     \/ q.op = "save" /\ q.hook = "tenant"
    <3>1. list = shown
      BY <2>1, <2>8 DEF ShownAfter
    <3>2. \/ q.op = "finish"
          \/ q.op = "delete" /\ q.hook \in {"tokens", "passkeys"}
          \/ q.op = "save" /\ q.hook = "tenant"
      BY <1>1, <2>8 DEF HooksOf, Edited, Sections
    <3>3. NextOf(q).op = "list" /\ NextOf(q).hook = q.hook
      BY <2>8, <3>2, NextFacts
    <3> QED BY <1>1, <2>2, <2>8, <3>1, <3>3
  <2> QED BY <1>1, <1>4, <2>3, <2>4, <2>5, <2>6, <2>7, <2>8 DEF HooksOf, ErrandOps
<1> QED BY <1>3, <1>4

\* The flags a handler leaves up are those of the errands still under way.
LEMMA ReleaseKeepsFlags ==
    ASSUME SettingsTyped, FlagsWait, NEW c \in ErrandIds, NEW q, q = errands[c], q.stage = "answered",
           errands' = [errands EXCEPT ![c] = NextOf(q)],
           NEW began, began = IF NextOf(q).op = "list" /\ NextOf(q).hook = "passkeys" THEN {"passkeys"} ELSE {},
           busy' = [Released(q, IsLast(q)) EXCEPT !.loading = @ \cup began]
    PROVE  busy' \in BusyRecord /\ FlagsWait'
<1>1. PICK n : n = NextOf(q)
  OBVIOUS
<1>2. /\ errands \in [ErrandIds -> ErrandRecord] /\ busy \in BusyRecord /\ q \in ErrandRecord /\ WellFormed(q)
      /\ \A e \in ErrandIds : errands'[e] = IF e = c THEN n ELSE errands[e]
  BY <1>1 DEF SettingsTyped
<1>3. q.hook \in Hooks /\ (~IsLast(q) => n.hook = q.hook /\ n.frees = q.frees)
  BY <1>1, <1>2, NextFacts DEF ErrandRecord
<1>4. "passkeys" \in Hooks /\ began \subseteq Hooks
  BY DEF Hooks, Sections
<1>5. /\ busy'.loading = (IF q.op = "list" THEN busy.loading \ {q.hook} ELSE busy.loading) \cup began
      /\ busy'.creating = IF IsLast(q) /\ q.frees = "creating" THEN busy.creating \ {q.hook} ELSE busy.creating
      /\ busy'.saving = IF IsLast(q) /\ q.frees = "saving" THEN [busy.saving EXCEPT ![q.hook] = NoItem] ELSE busy.saving
      /\ busy'.deleting = IF IsLast(q) /\ q.frees = "deleting"
                          THEN [busy.deleting EXCEPT ![q.hook] = NoItem] ELSE busy.deleting
      /\ busy' = [loading |-> busy'.loading, creating |-> busy'.creating,
                  saving |-> busy'.saving, deleting |-> busy'.deleting]
  BY DEF Released
<1>6. busy' \in BusyRecord
  <2>1. busy'.loading \subseteq Hooks /\ busy'.creating \subseteq Hooks
    BY <1>2, <1>4, <1>5 DEF BusyRecord
  <2>2. busy'.saving \in [Hooks -> Items \cup {NoItem}] /\ busy'.deleting \in [Hooks -> Items \cup {NoItem}]
    BY <1>2, <1>5 DEF BusyRecord
  <2> QED BY <1>5, <2>1, <2>2 DEF BusyRecord
<1>7. ASSUME NEW k \in Hooks
      PROVE  /\ k \in busy'.loading => \E e \in ErrandIds : errands'[e].op = "list" /\ errands'[e].hook = k
             /\ k \in busy'.creating => \E e \in ErrandIds : errands'[e].frees = "creating" /\ errands'[e].hook = k
             /\ busy'.saving[k] # NoItem => \E e \in ErrandIds : errands'[e].frees = "saving" /\ errands'[e].hook = k
             /\ busy'.deleting[k] # NoItem => \E e \in ErrandIds : errands'[e].frees = "deleting" /\ errands'[e].hook = k
  <2>1. /\ k \in busy.loading => \E e \in ErrandIds : errands[e].op = "list" /\ errands[e].hook = k
        /\ k \in busy.creating => \E e \in ErrandIds : errands[e].frees = "creating" /\ errands[e].hook = k
        /\ busy.saving[k] # NoItem => \E e \in ErrandIds : errands[e].frees = "saving" /\ errands[e].hook = k
        /\ busy.deleting[k] # NoItem => \E e \in ErrandIds : errands[e].frees = "deleting" /\ errands[e].hook = k
    BY DEF FlagsWait
  <2>2. ASSUME k \in busy'.loading PROVE \E e \in ErrandIds : errands'[e].op = "list" /\ errands'[e].hook = k
    <3>1. CASE k \in began
      BY <1>1, <1>2, <3>1
    <3>2. CASE k \in busy.loading /\ ~(q.op = "list" /\ q.hook = k)
      BY <1>2, <2>1, <3>2
    <3> QED BY <1>5, <2>2, <3>1, <3>2
  <2>3. ASSUME k \in busy'.creating
        PROVE  \E e \in ErrandIds : errands'[e].frees = "creating" /\ errands'[e].hook = k
    <3>1. k \in busy.creating /\ ~(IsLast(q) /\ q.frees = "creating" /\ q.hook = k)
      BY <1>5, <2>3
    <3> QED BY <1>2, <1>3, <2>1, <3>1
  <2>4. ASSUME busy'.saving[k] # NoItem
        PROVE  \E e \in ErrandIds : errands'[e].frees = "saving" /\ errands'[e].hook = k
    <3>1. busy.saving[k] # NoItem /\ ~(IsLast(q) /\ q.frees = "saving" /\ q.hook = k)
      BY <1>2, <1>5, <2>4 DEF BusyRecord
    <3> QED BY <1>2, <1>3, <2>1, <3>1
  <2>5. ASSUME busy'.deleting[k] # NoItem
        PROVE  \E e \in ErrandIds : errands'[e].frees = "deleting" /\ errands'[e].hook = k
    <3>1. busy.deleting[k] # NoItem /\ ~(IsLast(q) /\ q.frees = "deleting" /\ q.hook = k)
      BY <1>2, <1>5, <2>5 DEF BusyRecord
    <3> QED BY <1>2, <1>3, <2>1, <3>1
  <2> QED BY <2>2, <2>3, <2>4, <2>5
<1> QED BY <1>6, <1>7 DEF FlagsWait

\* The lists after an answer: what it says of an item nothing else is about is so.
LEMMA AnswerKeepsLists ==
    ASSUME SettingsTyped, CrossingsAreMuddled, ListsInv, section # "closed",
           NEW c \in ErrandIds, NEW q, q = errands[c], q.stage = "answered",
           errands' = [errands EXCEPT ![c] = NextOf(q)], UNCHANGED <<stored, section>>,
           shown' = Shows(q), muddled \subseteq muddled',
           q.op = "list" /\ ~q.ok => ItemsOf(q.hook) \subseteq muddled'
    PROVE  ListsInv'
<1>1. PICK n : n = NextOf(q)
  OBVIOUS
<1>2. PICK list : list = shown'
  OBVIOUS
<1>3. /\ errands \in [ErrandIds -> ErrandRecord] /\ q \in ErrandRecord /\ WellFormed(q)
      /\ shown \in [Items -> {"none", "old", "new"}]
      /\ \A e \in ErrandIds : errands'[e] = IF e = c THEN n ELSE errands[e]
  BY <1>1 DEF SettingsTyped
<1>4. /\ \A i \in Items : i \notin Touches(q) => list[i] = shown[i]
      /\ q.op = "list" /\ q.ok => \A i \in ItemsOf(q.hook) : list[i] = q.told[i]
      /\ \A i \in Items : q.ok /\ i \in Alters(q) =>
           \/ list[i] = Unseen(Writes(q))
           \/ q.op = "save" /\ shown[i] = "none"
           \/ n.op = "list" /\ n.hook = q.hook /\ i \in ItemsOf(q.hook)
      /\ q.op # "list" /\ ~q.ok => list = shown
      /\ q.op \in {"challenge", "prompt"} => list = shown
  <2> HIDE DEF Shows
  <2> QED BY <1>1, <1>2, <1>3, ShownFacts
<1>5. n.stage # "answered"
  BY <1>1, <1>3, NextFacts
<1>6. \A e \in ErrandIds : e # c => Crossed(q, errands[e]) \subseteq muddled
  BY DEF CrossingsAreMuddled
<1>7. \A e \in ErrandIds : Done(e)' => e # c /\ Done(e) /\ errands'[e] = errands[e]
  BY <1>3, <1>5 DEF Done
<1> SUFFICES ASSUME NEW i \in Items, i \notin muddled'
             PROVE  /\ \A e \in ErrandIds : Done(e)' => StillSo(e, i)'
                    /\ ~Awaits(i)' => list[i] = Unseen(stored[i])
  BY <1>2 DEF ListsInv
<1>8. /\ \A e \in ErrandIds : Done(e) => StillSo(e, i)
      /\ ~Awaits(i) => shown[i] = Unseen(stored[i])
  BY DEF ListsInv
<1>9. ASSUME NEW e \in ErrandIds, Done(e)' PROVE StillSo(e, i)'
  <2>1. e # c /\ Done(e) /\ errands'[e] = errands[e] /\ StillSo(e, i)
    BY <1>7, <1>8, <1>9
  <2>2. errands[e].op = "save" /\ i = errands[e].item => list[i] = shown[i]
    <3> SUFFICES ASSUME errands[e].op = "save", i = errands[e].item PROVE i \notin Touches(q)
      BY <1>4
    <3>1. i \in Touches(errands[e])
      BY DEF Touches
    <3> QED BY <1>6, <2>1, <3>1 DEF Crossed
  <2> QED BY <1>2, <2>1, <2>2 DEF StillSo
<1>10. ASSUME ~Awaits(i)' PROVE list[i] = Unseen(stored[i])
  <2>1. ~(n.op = "list" /\ i \in ItemsOf(n.hook))
    BY <1>3, <1>10 DEF Awaits
  <2>2. CASE q.op = "list" /\ i \in ItemsOf(q.hook)
    <3>1. q.ok
      BY <2>2
    <3>2. StillSo(c, i)
      BY <1>8, <3>1 DEF Done
    <3> QED BY <1>4, <2>2, <3>1, <3>2 DEF StillSo
  <2>3. CASE q.ok /\ i \in Alters(q)
    <3>1. StillSo(c, i)
      BY <1>8, <2>3 DEF Done
    <3>2. stored[i] = Writes(q) /\ (q.op = "save" => shown[i] # "none")
      BY <2>3, <3>1 DEF StillSo, Alters
    <3> QED BY <1>4, <2>1, <2>3, <3>2
  <2>4. CASE ~(q.op = "list" /\ i \in ItemsOf(q.hook)) /\ ~(q.ok /\ i \in Alters(q))
    <3>1. ~Awaits(i)
      <4>1. \A e \in ErrandIds : e # c => errands'[e] = errands[e] /\ (Done(e)' <=> Done(e))
        BY <1>3 DEF Done
      <4>2. \A e \in ErrandIds : ~(Done(e) /\ i \in Alters(errands[e]))
        BY <1>10, <2>4, <4>1 DEF Awaits, Done
      <4>3. \A e \in ErrandIds : ~(errands[e].op = "list" /\ i \in ItemsOf(errands[e].hook))
        BY <1>10, <2>4, <4>1 DEF Awaits
      <4> QED BY <4>2, <4>3 DEF Awaits
    <3>2. list[i] = shown[i]
      BY <1>4, <2>4 DEF Touches, Alters
    <3> QED BY <1>8, <3>1, <3>2
  <2> QED BY <2>2, <2>3, <2>4
<1> QED BY <1>9, <1>10

LEMMA SettleErrandKeeps == ASSUME SettingsIInv, NEW c \in ErrandIds, SettleErrand(c) PROVE SettingsIInv'
<1>1. PICK q : q = errands[c]
  OBVIOUS
<1>2. PICK n : n = NextOf(q)
  OBVIOUS
<1>3. SettingsTyped /\ CrossingsAreMuddled /\ FlagsWait /\ ListsInv
  BY DEF SettingsIInv
<1>4. /\ q.stage = "answered" /\ errands' = [errands EXCEPT ![c] = n]
      /\ muddled' = Muddled(n, ErrandIds \ {c}) \cup (IF q.op = "list" /\ ~q.ok THEN ItemsOf(q.hook) ELSE {})
      /\ UNCHANGED <<stored, section, settingsActs>>
  BY <1>1, <1>2 DEF SettleErrand, NextOf, IsLast
<1>5. /\ errands \in [ErrandIds -> ErrandRecord] /\ q \in ErrandRecord /\ WellFormed(q)
      /\ n \in ErrandRecord /\ WellFormed(n)
  BY <1>1, <1>2, <1>3, <1>4, NextFacts DEF SettingsTyped
<1>6. errands' \in [ErrandIds -> ErrandRecord] /\ \A e \in ErrandIds : WellFormed(errands'[e])
  BY <1>3, <1>4, <1>5 DEF SettingsTyped
<1>7. CrossingsAreMuddled' /\ muddled \subseteq muddled'
  BY <1>3, <1>4, <1>5, CrossingsWithNew, ZenonT(60)
<1>8. CASE section = "closed"
  <2>1. UNCHANGED <<shown, busy, editing, chosen, secret, supported>>
    BY <1>8 DEF SettleErrand
  <2>2. busy = Nothing
    BY <1>3, <1>8 DEF SettingsTyped
  <2>3. FlagsWait'
    BY <2>1, <2>2 DEF FlagsWait, Nothing
  <2>4. ListsInv'
    BY <1>4, <1>8 DEF ListsInv
  <2>5. SettingsTyped'
    <3>1. ChosenSetIsListed'
      BY <1>4, <1>8 DEF ChosenSetIsListed
    <3>2. \A k \in Edited : editing'[k] # NoItem => section' = k /\ editing'[k] \in ShownOf(k)'
      BY <1>3, <1>4, <2>1 DEF SettingsTyped, ShownOf
    <3> QED BY <1>3, <1>4, <1>6, <2>1, <3>1, <3>2 DEF SettingsTyped
  <2> QED BY <1>7, <2>3, <2>4, <2>5 DEF SettingsIInv
<1>9. CASE section # "closed"
  <2>1. PICK began : began = IF NextOf(q).op = "list" /\ NextOf(q).hook = "passkeys" THEN {"passkeys"} ELSE {}
    OBVIOUS
  <2>2. /\ \E refused \in BOOLEAN : supported' = SupportAfter(q, refused)
        /\ shown' = Shows(q)
        /\ busy' = [Released(q, IsLast(q)) EXCEPT !.loading = @ \cup began]
        /\ editing' = EditorsAfter(shown', EditorsOf(q))
        /\ chosen' \in FormOf(section, shown', chosen)
        /\ secret' = SecretAfter(q)
    BY <1>1, <1>9, <2>1 DEF SettleErrand, Shows, IsLast, NextOf
  <2>3. busy' \in BusyRecord /\ FlagsWait'
    BY <1>1, <1>2, <1>3, <1>4, <2>1, <2>2, ReleaseKeepsFlags
  <2>4. ListsInv'
    <3>1. q.op = "list" /\ ~q.ok => ItemsOf(q.hook) \subseteq muddled'
      BY <1>4
    <3> QED BY <1>1, <1>2, <1>3, <1>4, <1>7, <1>9, <2>2, <3>1, AnswerKeepsLists
  <2>5. shown' \in [Items -> {"none", "old", "new"}]
    <3> HIDE DEF Shows
    <3> QED BY <1>3, <1>4, <1>5, <2>2, ShownFacts DEF SettingsTyped
  <2>6. /\ editing' \in [Edited -> Items \cup {NoItem}]
        /\ \A k \in Edited : editing'[k] # NoItem => section' = k /\ editing'[k] \in ShownOf(k)'
    <3>1. PICK list : list = shown'
      OBVIOUS
    <3>2. PICK open : open = EditorsOf(q)
      OBVIOUS
    <3>3. open \in [Edited -> Items \cup {NoItem}] /\ \A k \in Edited : open[k] \in {NoItem, editing[k]}
      BY <1>3, <3>2 DEF EditorsOf, SettingsTyped
    <3>4. editing' = [k \in Edited |-> IF open[k] # NoItem /\ list[open[k]] = "none" THEN NoItem ELSE open[k]]
      BY <2>2, <3>1, <3>2 DEF EditorsAfter
    <3>5. \A k \in Edited : editing'[k] # NoItem => editing'[k] = editing[k] /\ list[editing[k]] # "none"
      BY <3>3, <3>4
    <3>6. \A k \in Edited : editing[k] # NoItem => section = k /\ editing[k] \in ItemsOf(k)
      BY <1>3 DEF SettingsTyped, ShownOf
    <3>7. editing' \in [Edited -> Items \cup {NoItem}]
      BY <3>3, <3>4
    <3> QED BY <1>4, <3>1, <3>5, <3>6, <3>7 DEF ShownOf
  <2>7. ChosenSetIsListed'
    <3>1. ShownOf("sets")' = {i \in SetIds : shown'[i] # "none"}
      BY DEF ShownOf, ItemsOf
    <3> QED BY <1>4, <2>2, <3>1, FormShows DEF ChosenSetIsListed
  <2>8. secret' \in ApiTokens \cup {NoItem}
    <3>1. q.hook = "tokens" /\ q.op \in {"create", "save"} => q.item \in ApiTokens
      BY <1>5 DEF WellFormed, ItemsOf
    <3> QED BY <1>3, <2>2, <3>1 DEF SecretAfter, SettingsTyped
  <2>9. supported' \in BOOLEAN
    BY <1>3, <2>2 DEF SupportAfter, SettingsTyped
  <2>10. SettingsTyped'
    BY <1>3, <1>4, <1>6, <1>9, <2>3, <2>5, <2>6, <2>7, <2>8, <2>9 DEF SettingsTyped
  <2> QED BY <1>7, <2>3, <2>4, <2>10 DEF SettingsIInv
<1> QED BY <1>8, <1>9

-----------------------------------------------------------------------------
(* The settings window: the theorems.                                      *)

LEMMA SettingsInitInvariant == SettingsInit => SettingsIInv
<1> SUFFICES ASSUME SettingsInit PROVE SettingsIInv
  OBVIOUS
<1>1. PICK late \in SUBSET (Sections \cup {"capabilities"}) :
        /\ errands \in {f \in [ErrandIds -> {NoErrand} \cup {Listing(k) : k \in late}] :
                          \A k \in late : \E c \in ErrandIds : f[c] = Listing(k)}
        /\ shown = [i \in Items |-> IF \E k \in late : i \in ItemsOf(k) THEN "none" ELSE stored[i]]
        /\ busy = [Nothing EXCEPT !.loading = late \ {"tokens"}]
  BY DEF SettingsInit
<1>2. /\ stored \in [Items -> {"none", "old"}]
      /\ section = "tokens" /\ editing = [k \in Edited |-> NoItem] /\ chosen \in FormOf("tokens", shown, NoItem)
      /\ secret = NoItem /\ supported = TRUE /\ muddled = {}
  BY DEF SettingsInit
<1>3. late \subseteq Hooks
  BY DEF Hooks
<1>4. ASSUME NEW k \in late
      PROVE  /\ Listing(k) \in ErrandRecord /\ WellFormed(Listing(k)) /\ Listing(k).stage = "sent"
             /\ Listing(k).op = "list" /\ Listing(k).hook = k
  <2>1. PICK q : q = Listing(k)
    OBVIOUS
  <2>2. q = Whole("list", k, NoItem, "sent", "nothing", <<>>)
    BY <2>1, ListingFields
  <2>3. k \in HooksOf("list") /\ "list" \in ErrandOps \ {"none", "prompt"}
    BY <1>3 DEF HooksOf, ErrandOps
  <2>4. ThenOf([op |-> "list", hook |-> k, item |-> NoItem]) = <<>>
    BY DEF ThenOf
  <2> QED BY <2>1, <2>2, <2>3, <2>4, SentTyped
<1>5. /\ errands \in [ErrandIds -> ErrandRecord]
      /\ \A c \in ErrandIds : WellFormed(errands[c]) /\ errands[c].stage # "answered" /\ errands[c].op \in {"none", "list"}
  <2>1. \A c \in ErrandIds : errands[c] = NoErrand \/ \E k \in late : errands[c] = Listing(k)
    BY <1>1
  <2>2. \A c \in ErrandIds : /\ errands[c] \in ErrandRecord /\ WellFormed(errands[c])
                             /\ errands[c].stage # "answered" /\ errands[c].op \in {"none", "list"}
    BY <1>4, <2>1, NoErrandFacts
  <2>3. errands = [c \in ErrandIds |-> errands[c]]
    BY <1>1
  <2> QED BY <2>2, <2>3
<1>6. busy = [loading |-> late \ {"tokens"}, creating |-> {},
              saving |-> [k \in Hooks |-> NoItem], deleting |-> [k \in Hooks |-> NoItem]]
  BY <1>1 DEF Nothing
<1>7. SettingsTyped
  <2>1. shown \in [Items -> {"none", "old", "new"}]
    BY <1>1, <1>2
  <2>2. ChosenSetIsListed
    <3>1. ShownOf("sets") = {i \in SetIds : shown[i] # "none"}
      BY DEF ShownOf, ItemsOf
    <3> QED BY <1>2, <3>1, FormShows DEF ChosenSetIsListed
  <2>3. busy \in BusyRecord
    BY <1>3, <1>6 DEF BusyRecord
  <2>4. section \in Sections
    BY <1>2 DEF Sections
  <2> QED BY <1>2, <1>5, <2>1, <2>2, <2>3, <2>4 DEF SettingsTyped
<1>8. CrossingsAreMuddled
  BY <1>5 DEF CrossingsAreMuddled, Crossed, Touches
<1>9. FlagsWait
  BY <1>1, <1>4, <1>6 DEF FlagsWait
<1>10. ListsInv
  <2>1. \A c \in ErrandIds : ~Done(c)
    BY <1>5 DEF Done
  <2>2. ASSUME NEW i \in Items, ~Awaits(i) PROVE shown[i] = Unseen(stored[i])
    <3>1. ~\E k \in late : i \in ItemsOf(k)
      BY <1>1, <1>4, <2>2 DEF Awaits
    <3> QED BY <1>1, <1>2, <3>1 DEF Unseen
  <2> QED BY <2>1, <2>2 DEF ListsInv
<1> QED BY <1>7, <1>8, <1>9, <1>10 DEF SettingsIInv

LEMMA SettingsStepInvariant == SettingsIInv /\ [SettingsNext]_settingsVars => SettingsIInv'
<1> SUFFICES ASSUME SettingsIInv, [SettingsNext]_settingsVars PROVE SettingsIInv'
  OBVIOUS
<1>1. ASSUME NEW s \in Sections, SelectSection(s) PROVE SettingsIInv'
  BY <1>1, SectionsKeep
<1>2. ASSUME CloseSettings \/ DismissSecret PROVE SettingsIInv'
  BY <1>2, SectionsKeep
<1>3. ASSUME SaveSet \/ SaveMember PROVE SettingsIInv'
  BY <1>3, RowsKeep DEF SaveSet, SaveMember, Edited
<1>4. ASSUME NEW k \in Hooks, Relist(k) PROVE SettingsIInv'
  BY <1>4, RelistKeeps
<1>5. ASSUME NEW k \in Edited, LeaveRow(k) \/ \E i \in ItemsOf(k) : EditRow(k, i) PROVE SettingsIInv'
  BY <1>5, EditorsKeep
<1>6. ASSUME NEW i \in Items, CreateToken(i) \/ RegenerateToken(i) \/ RevokeToken(i) \/ CreateSet(i) PROVE SettingsIInv'
  BY <1>6, CreateTokenKeeps, RegenerateTokenKeeps, RevokeTokenKeeps, CreateSetKeeps
<1>7. ASSUME NEW i \in Items, DeleteSet(i) \/ RemoveMember(i) PROVE SettingsIInv'
  BY <1>7, RowsKeep DEF DeleteSet, RemoveMember, Edited
<1>8. ASSUME NEW i \in Items, RenameTenant(i) \/ RegisterPasskey(i) \/ RevokePasskey(i) PROVE SettingsIInv'
  BY <1>8, RenameTenantKeeps, RegisterPasskeyKeeps, RevokePasskeyKeeps
<1>9. ASSUME NEW c \in ErrandIds, AnswerPrompt(c) \/ ServeErrand(c) \/ SettleErrand(c) PROVE SettingsIInv'
  BY <1>9, AnswerPromptKeeps, ServeErrandKeeps, SettleErrandKeeps
<1>10. ASSUME UNCHANGED settingsVars PROVE SettingsIInv'
  <2>1. UNCHANGED <<stored, shown, busy, section, editing, chosen, secret, supported, errands, muddled>>
    BY <1>10 DEF settingsVars
  <2>2. ChosenSetIsListed'
    BY <2>1 DEF SettingsIInv, SettingsTyped, ChosenSetIsListed, ShownOf
  <2>3. section \in Sections \cup {"closed"}
    BY DEF SettingsIInv, SettingsTyped
  <2> QED BY <2>1, <2>2, <2>3, StillErrandsKeep DEF SettingsIInv, SettingsTyped
<1> QED BY <1>1, <1>2, <1>3, <1>4, <1>5, <1>6, <1>7, <1>8, <1>9, <1>10 DEF SettingsNext

LEMMA SettingsInvariant == SettingsSpec => []SettingsIInv
<1>1. SettingsInit => SettingsIInv
  BY SettingsInitInvariant
<1>2. SettingsIInv /\ [SettingsNext]_settingsVars => SettingsIInv'
  BY SettingsStepInvariant
<1> QED BY <1>1, <1>2, PTL DEF SettingsSpec

LEMMA SettingsIInvIsTyped == SettingsIInv => SettingsTypeOK
BY DEF SettingsIInv, SettingsTyped, SettingsTypeOK, BusyRecord

\* In every reachable state the shapes are those of SettingsTypeOK: in particular
\* an editor is open only in the section on the screen, on a row of its list.
THEOREM SettingsTypes == SettingsSpec => []SettingsTypeOK
  BY SettingsIInvIsTyped, SettingsInvariant, PTL

LEMMA SettingsIInvIsConsistent == SettingsIInv => SettingsAreConsistent
<1> SUFFICES ASSUME SettingsIInv PROVE SettingsAreConsistent
  OBVIOUS
<1>1. SettingsTyped /\ FlagsWait /\ ListsInv
  BY DEF SettingsIInv
<1>2. ASSUME AllSettled PROVE \A c \in ErrandIds : errands[c] = NoErrand
  BY <1>1, <1>2 DEF SettingsTyped, WellFormed, AllSettled
<1>3. ASSUME AllSettled PROVE busy = Nothing
  <2>1. \A k \in Hooks : /\ k \notin busy.loading /\ k \notin busy.creating
                          /\ busy.saving[k] = NoItem /\ busy.deleting[k] = NoItem
    BY <1>1, <1>2, <1>3, NoErrandFacts DEF FlagsWait
  <2>2. busy \in BusyRecord
    BY <1>1 DEF SettingsTyped
  <2>3. /\ busy.loading = {} /\ busy.creating = {}
        /\ busy.saving = [k \in Hooks |-> NoItem] /\ busy.deleting = [k \in Hooks |-> NoItem]
    BY <2>1, <2>2 DEF BusyRecord
  <2>4. busy = [loading |-> busy.loading, creating |-> busy.creating, saving |-> busy.saving, deleting |-> busy.deleting]
    BY <2>2 DEF BusyRecord
  <2> QED BY <2>3, <2>4 DEF Nothing
<1>4. ASSUME AllSettled, section # "closed", NEW i \in Items \ muddled PROVE shown[i] = Unseen(stored[i])
  <2>1. ~Awaits(i)
    BY <1>2, <1>4, NoErrandFacts DEF Awaits, Done
  <2> QED BY <1>1, <1>4, <2>1 DEF ListsInv
<1>5. ChosenSetIsListed
  BY <1>1 DEF SettingsTyped
<1> QED BY <1>3, <1>4, <1>5 DEF SettingsAreConsistent, SettingsRelease, ListsAgree

\* However errands overlap and whichever fail: the token form offers a set that is
\* listed, and once all is answered every button is back and every list is the
\* server's, but for what requests met over or could not be read.
THEOREM SettingsConsistent == SettingsSpec => []SettingsAreConsistent
  BY SettingsIInvIsConsistent, SettingsInvariant, PTL

-----------------------------------------------------------------------------
(* The PDF viewer: loads.                                                  *)

LoadKinds == {"loading", "ready", "error", "closed"}
LoadStatus == [kind : LoadKinds, of : Nat, prompt : Nat]
LoadStages == {"opening", "asking", "describing", "ended"}

LoadsTyped ==
  /\ loads \in Seq([stage : LoadStages, cancelled : BOOLEAN])
  /\ Latest \in Nat \ {0}
  /\ status \in LoadStatus /\ status.prompt \in 0..Latest

\* All loads but the latest are cancelled, and the latest one is when the
\* viewer goes; what is shown and open is of the latest one.
LatestOnly ==
  /\ \A l \in 1..Latest : l < Latest => loads[l].cancelled
  /\ loads[Latest].cancelled <=> status.kind = "closed"
  /\ \A l \in 1..Latest : loads[l].stage = "asking" => ~loads[l].cancelled
  /\ status.of = Latest
  /\ opened \subseteq {Latest}
  /\ status.kind = "closed" => opened = {}
  /\ loads[Latest].stage = "describing" /\ ~loads[Latest].cancelled => Latest \in opened

\* A document is shown when its load has ended, and then it is open.
ShownIsReady ==
  /\ pdf \in {0, Latest}
  /\ pdf = Latest <=> status.kind = "ready"
  /\ status.kind = "ready" => loads[Latest].stage = "ended" /\ Latest \in opened

LoadInv == LoadsTyped /\ LatestOnly /\ ShownIsReady

-----------------------------------------------------------------------------
(* The PDF viewer: pages and their slots.                                  *)

CanvasStates == {"none", "allowed", "blank", "drawn"}

\* A stack of requests q and pages a with a slot, out of the pages w whose
\* effect has asked for one; a page that waits has no canvas yet.
Slots(q, a, w, c) ==
  /\ w \in SUBSET PageNumbers
  /\ a \in SUBSET w
  /\ q \in Seq(PageNumbers)
  /\ c \in [PageNumbers -> CanvasStates]
  /\ Cardinality(a) <= MaxRenders
  /\ \A i \in 1..Len(q) : q[i] \in w /\ q[i] \notin a /\ c[q[i]] = "none"
  /\ \A i, j \in 1..Len(q) : q[i] = q[j] => i = j
  /\ \A p \in PageNumbers : c[p] # "none" => p \in w

RunRecord == [page : 0..NumPages, stage : {"free", "getting", "drawing"}, own : BOOLEAN, load : Nat]
RunsTyped ==
  /\ runs \in [RunIds -> RunRecord]
  /\ task \in [PageNumbers -> 0..MaxRuns]
  /\ rendered \in [PageNumbers -> BOOLEAN]
  /\ overtaken \in BOOLEAN
  /\ \A r \in RunIds : runs[r].page = 0 <=> runs[r].stage = "free"

\* Runs rs, of which t draw, pages d that were drawn, pages a with a slot and
\* canvases c, for the document shown: a page has one run at most, which owns its
\* mounted, blank canvas; what was drawn is there; a page with a slot uses it.
Owned(rs, t, d, a, c) ==
  /\ \A r \in RunIds : rs[r].page # 0 => rs[r].own /\ rs[r].load = pdf /\ c[rs[r].page] = "blank"
  /\ \A r, o \in RunIds : rs[r].page # 0 /\ rs[r].page = rs[o].page => r = o
  /\ \A p \in PageNumbers : t[p] # 0 => rs[t[p]].page = p
  /\ \A p \in PageNumbers : d[p] => c[p] = "drawn"
  /\ \A p \in a : c[p] = "allowed" \/ \E r \in RunIds : rs[r].page = p

RunsOwnCanvases == Owned(runs, task, rendered, active, canvas)

PageInv ==
  /\ Slots(stack, active, wanted, canvas)
  /\ NoIdleSlot
  /\ wanted # {} => status.kind = "ready"
  /\ RunsTyped
  /\ ~overtaken => RunsOwnCanvases

PdfIInv == LoadInv /\ PageInv

-----------------------------------------------------------------------------
(* Lemmas about the slots.                                                 *)

LEMMA PagesFinite ==
    ASSUME NEW S \in SUBSET PageNumbers
    PROVE  IsFiniteSet(S) /\ Cardinality(S) \in Nat
<1>1. IsFiniteSet(PageNumbers)
  BY PdfConstants, FS_Interval DEF PageNumbers
<1> QED BY <1>1, FS_Subset, FS_CardinalityType

\* The loop of requestQueueFlush ends.
LEMMA PoppedExists ==
    ASSUME NEW q \in Seq(PageNumbers), NEW a \in SUBSET PageNumbers
    PROVE  /\ Popped(q, a) \in 0..Len(q)
           /\ Popped(q, a) = Len(q) \/ Cardinality(a \cup Top(q, Popped(q, a))) >= MaxRenders
           /\ \A j \in 0..(Popped(q, a) - 1) : Cardinality(a \cup Top(q, j)) < MaxRenders
<1> DEFINE Enough(k) == k = Len(q) \/ Cardinality(a \cup Top(q, k)) >= MaxRenders
           T == {k \in 0..Len(q) : Enough(k)}
<1>1. Len(q) \in Nat
  BY LenProperties
<1>2. Len(q) \in T /\ T \in SUBSET Nat
  BY <1>1
<1>3. \E x \in T : \A y \in T : x <= y
  <2> HIDE DEF T
  <2> QED BY <1>2, LeastExists
<1>4. PICK x \in T : \A y \in T : x <= y
  BY <1>3
<1>5. ASSUME NEW j \in 0..(x - 1) PROVE Cardinality(a \cup Top(q, j)) < MaxRenders
  <2>1. x \in 0..Len(q) /\ j \in 0..Len(q) /\ j # Len(q) /\ ~(x <= j)
    BY <1>1, <1>4
  <2>2. ~Enough(j)
    BY <1>4, <2>1
  <2>3. \A i \in (Len(q) - j + 1)..Len(q) : q[i] \in PageNumbers
    <3>1. \A i \in (Len(q) - j + 1)..Len(q) : i \in 1..Len(q)
      BY <1>1, <2>1
    <3> QED BY <3>1, LenProperties
  <2>4. Cardinality(a \cup Top(q, j)) \in Nat
    <3>1. a \cup Top(q, j) \in SUBSET PageNumbers
      BY <2>3 DEF Top
    <3> QED BY <3>1, PagesFinite
  <2> QED BY <2>2, <2>4, PdfConstants
<1>6. /\ x \in 0..Len(q)
      /\ x = Len(q) \/ Cardinality(a \cup Top(q, x)) >= MaxRenders
      /\ \A j \in 0..(x - 1) : Cardinality(a \cup Top(q, j)) < MaxRenders
  BY <1>4, <1>5
<1> QED BY <1>6 DEF Popped

\* What requestQueueFlush leaves: the slots are full or nothing waits, and
\* requests that were not served wait on.
LEMMA ServedSlots ==
    ASSUME NEW q, NEW a, NEW w, NEW c, Slots(q, a, w, c)
    PROVE  LET s == Served(q, a) IN
           /\ s.resumed \in SUBSET w
           /\ s.active = a \cup s.resumed
           /\ \A p \in s.resumed : p \notin a /\ c[p] = "none"
           /\ Cardinality(s.active) <= MaxRenders
           /\ s.stack \in Seq(PageNumbers)
           /\ \A i \in 1..Len(s.stack) : s.stack[i] \in w /\ s.stack[i] \notin s.active /\ c[s.stack[i]] = "none"
           /\ \A i, j \in 1..Len(s.stack) : s.stack[i] = s.stack[j] => i = j
           /\ s.stack # <<>> => Cardinality(s.active) = MaxRenders
<1> DEFINE k == Popped(q, a)
           n == Len(q)
<1>1. /\ q \in Seq(PageNumbers) /\ a \in SUBSET PageNumbers /\ n \in Nat
      /\ \A i \in 1..n : q[i] \in PageNumbers /\ q[i] \in w /\ q[i] \notin a /\ c[q[i]] = "none"
      /\ \A i, j \in 1..n : q[i] = q[j] => i = j
  BY LenProperties DEF Slots
<1>2. /\ k \in 0..n
      /\ k = n \/ Cardinality(a \cup Top(q, k)) >= MaxRenders
      /\ \A j \in 0..(k - 1) : Cardinality(a \cup Top(q, j)) < MaxRenders
  BY <1>1, PoppedExists
<1> HIDE DEF k
<1>3. PICK s : s = Served(q, a)
  OBVIOUS
<1>4. s.stack = SubSeq(q, 1, n - k) /\ s.active = a \cup Top(q, k) /\ s.resumed = Top(q, k) \ a
  BY <1>3 DEF Served, k
<1> HIDE DEF n
<1>5. \A p \in Top(q, k) : p \in PageNumbers /\ p \in w /\ p \notin a /\ c[p] = "none"
  <2>1. \A i \in (n - k + 1)..n : i \in 1..n
    BY <1>1, <1>2
  <2> QED BY <1>1, <2>1 DEF Top, n
<1>6. s.resumed = Top(q, k) /\ s.active = a \cup s.resumed
  BY <1>4, <1>5
<1>7. /\ s.stack \in Seq(PageNumbers)
      /\ Len(s.stack) = n - k
      /\ \A i \in 1..(n - k) : s.stack[i] = q[i]
  <2>1. \A i \in 1..(n - k) : i \in 1..n
    BY <1>1, <1>2
  <2>2. \A i \in 1..(n - k) : q[i] \in PageNumbers
    BY <1>1, <2>1
  <2>3. n - k \in Int /\ 1 \in Int
    BY <1>1, <1>2
  <2>4. /\ SubSeq(q, 1, n - k) \in Seq(PageNumbers)
        /\ Len(SubSeq(q, 1, n - k)) = IF 1 <= n - k THEN n - k - 1 + 1 ELSE 0
        /\ \A i \in 1..(n - k - 1 + 1) : SubSeq(q, 1, n - k)[i] = q[1 + i - 1]
    BY <2>2, <2>3, SubSeqProperties
  <2>5. n - k - 1 + 1 = n - k /\ (~(1 <= n - k) => n - k = 0)
    BY <1>1, <1>2
  <2>6. \A i \in 1..(n - k) : 1 + i - 1 = i
    OBVIOUS
  <2> QED BY <1>4, <2>4, <2>5, <2>6
<1>8. \A i \in 1..Len(s.stack) : s.stack[i] \in w /\ s.stack[i] \notin s.active /\ c[s.stack[i]] = "none"
  <2> SUFFICES ASSUME NEW i \in 1..(n - k)
               PROVE  q[i] \in w /\ q[i] \notin s.active /\ c[q[i]] = "none"
    BY <1>7
  <2>1. i \in 1..n /\ \A j \in (n - k + 1)..n : j \in 1..n /\ j # i
    BY <1>1, <1>2
  <2>2. \A j \in (n - k + 1)..n : q[j] # q[i]
    BY <1>1, <2>1
  <2>3. q[i] \notin Top(q, k)
    BY <2>2 DEF Top, n
  <2> QED BY <1>1, <1>6, <2>1, <2>3
<1>9. \A i, j \in 1..Len(s.stack) : s.stack[i] = s.stack[j] => i = j
  <2>1. \A i \in 1..(n - k) : i \in 1..n
    BY <1>1, <1>2
  <2> QED BY <1>1, <1>7, <2>1
<1>10. Cardinality(s.active) <= MaxRenders /\ Cardinality(s.active) \in Nat
  <2>1. \A j \in 0..n : a \cup Top(q, j) \in SUBSET PageNumbers
    <3> SUFFICES ASSUME NEW j \in 0..n, NEW i \in (n - j + 1)..n PROVE q[i] \in PageNumbers
      BY <1>1 DEF Top, n
    <3>1. i \in 1..n
      BY <1>1
    <3> QED BY <1>1, <3>1
  <2>2. \A j \in 0..n : IsFiniteSet(a \cup Top(q, j)) /\ Cardinality(a \cup Top(q, j)) \in Nat
    BY <2>1, PagesFinite
  <2>3. CASE k = 0
    <3>1. Top(q, k) = {}
      <4>1. (n - k + 1)..n = {}
        BY <1>1, <2>3
      <4> QED BY <4>1 DEF Top, n
    <3>2. s.active = a
      BY <1>4, <3>1
    <3> QED BY <3>2, <2>2, <1>2, <1>4 DEF Slots
  <2>4. CASE k # 0
    <3>1. k - 1 \in 0..n /\ k - 1 \in 0..(k - 1) /\ n - k + 1 \in 1..n
      BY <1>1, <1>2, <2>4
    <3>2. Cardinality(a \cup Top(q, k - 1)) < MaxRenders
      BY <1>2, <3>1
    <3>3. \A i : i \in (n - k + 1)..n <=> (i = n - k + 1 \/ i \in (n - (k - 1) + 1)..n)
      BY <1>1, <1>2, <3>1
    <3>4. Top(q, k) = Top(q, k - 1) \cup {q[n - k + 1]}
      BY <3>3 DEF Top, n
    <3> DEFINE S == a \cup Top(q, k - 1)
    <3>5. s.active = S \cup {q[n - k + 1]}
      BY <1>4, <3>4
    <3>6. IsFiniteSet(S) /\ Cardinality(S) \in Nat /\ Cardinality(S) < MaxRenders
      BY <2>2, <3>1, <3>2
    <3> HIDE DEF S
    <3>7. Cardinality(S \cup {q[n - k + 1]}) = IF q[n - k + 1] \in S THEN Cardinality(S) ELSE Cardinality(S) + 1
      BY <3>6, FS_AddElement
    <3> QED BY <3>5, <3>6, <3>7, PdfConstants
  <2> QED BY <2>3, <2>4
<1>11. s.stack # <<>> => Cardinality(s.active) = MaxRenders
  <2> SUFFICES ASSUME s.stack # <<>> PROVE Cardinality(s.active) = MaxRenders
    OBVIOUS
  <2>1. Len(s.stack) # 0
    BY <1>7, EmptySeq
  <2>2. k # n
    BY <1>1, <1>2, <1>7, <2>1
  <2>3. Cardinality(s.active) >= MaxRenders
    BY <1>2, <1>4, <2>2
  <2> QED BY <1>10, <2>3, PdfConstants
<1>12. s.resumed \in SUBSET w /\ \A p \in s.resumed : p \notin a /\ c[p] = "none"
  BY <1>5, <1>6
<1> QED BY <1>3, <1>6, <1>7, <1>8, <1>9, <1>10, <1>11, <1>12

\* Granting changes the canvas of pages without one, and gives them a slot.
Granted(a, c) ==
  /\ \A p \in PageNumbers : canvas'[p] = c[p] \/ (c[p] = "none" /\ canvas'[p] = "allowed")
  /\ \A p \in active' : p \in a \/ canvas'[p] = "allowed"

LEMMA GrantServed ==
    ASSUME NEW q, NEW a, NEW w, NEW c, Slots(q, a, w, c), Grant(Served(q, a), c)
    PROVE  Slots(stack', active', w, canvas') /\ NoIdleSlot' /\ Granted(a, c)
<1>1. PICK s : s = Served(q, a)
  OBVIOUS
<1>2. /\ s.resumed \in SUBSET w
      /\ s.active = a \cup s.resumed
      /\ \A p \in s.resumed : p \notin a /\ c[p] = "none"
      /\ Cardinality(s.active) <= MaxRenders
      /\ s.stack \in Seq(PageNumbers)
      /\ \A i \in 1..Len(s.stack) : s.stack[i] \in w /\ s.stack[i] \notin s.active /\ c[s.stack[i]] = "none"
      /\ \A i, j \in 1..Len(s.stack) : s.stack[i] = s.stack[j] => i = j
      /\ s.stack # <<>> => Cardinality(s.active) = MaxRenders
  BY <1>1, ServedSlots
<1>3. /\ stack' = s.stack /\ active' = s.active
      /\ canvas' = [p \in PageNumbers |-> IF p \in s.resumed THEN "allowed" ELSE c[p]]
  BY <1>1 DEF Grant
<1>4. /\ w \in SUBSET PageNumbers /\ a \in SUBSET w /\ c \in [PageNumbers -> CanvasStates]
      /\ \A p \in PageNumbers : c[p] # "none" => p \in w
  BY DEF Slots
<1>5. \A p \in PageNumbers : canvas'[p] = IF p \in s.resumed THEN "allowed" ELSE c[p]
  BY <1>3
<1>6. canvas' \in [PageNumbers -> CanvasStates]
  BY <1>3, <1>4 DEF CanvasStates
<1>7. \A p \in PageNumbers : canvas'[p] # "none" => p \in w
  BY <1>2, <1>4, <1>5
<1>8. \A i \in 1..Len(stack') : stack'[i] \in w /\ stack'[i] \notin active' /\ canvas'[stack'[i]] = "none"
  <2> SUFFICES ASSUME NEW i \in 1..Len(s.stack)
               PROVE  s.stack[i] \in w /\ s.stack[i] \notin s.active /\ canvas'[s.stack[i]] = "none"
    BY <1>3
  <2>1. s.stack[i] \in w /\ s.stack[i] \notin s.active /\ c[s.stack[i]] = "none"
    BY <1>2
  <2>2. s.stack[i] \in PageNumbers /\ s.stack[i] \notin s.resumed
    BY <1>2, <1>4, <2>1
  <2> QED BY <1>5, <2>1, <2>2
<1>9. Slots(stack', active', w, canvas')
  BY <1>2, <1>3, <1>4, <1>6, <1>7, <1>8 DEF Slots
<1>10. Granted(a, c)
  BY <1>2, <1>3, <1>4, <1>5 DEF Granted
<1>11. NoIdleSlot'
  BY <1>2, <1>3 DEF NoIdleSlot
<1> QED BY <1>9, <1>10, <1>11

LEMMA GrantNone ==
    ASSUME NEW q, NEW a, NEW w, NEW c, Slots(q, a, w, c), q # <<>> => Cardinality(a) = MaxRenders,
           Grant([stack |-> q, active |-> a, resumed |-> {}], c)
    PROVE  Slots(stack', active', w, canvas') /\ NoIdleSlot' /\ Granted(a, c)
<1>1. stack' = q /\ active' = a /\ canvas' = [p \in PageNumbers |-> c[p]]
  BY DEF Grant
<1>2. c \in [PageNumbers -> CanvasStates]
  BY DEF Slots
<1>3. canvas' = c
  BY <1>1, <1>2
<1> QED BY <1>1, <1>3 DEF Slots, NoIdleSlot, Granted

\* A slot given back goes to the requests that wait.
LEMMA GrantFreed ==
    ASSUME NEW p \in PageNumbers, NEW q, NEW w, NEW c, Slots(q, active \ {p}, w, c),
           q # <<>> => Cardinality(active) = MaxRenders, Grant(Freed(p, q), c)
    PROVE  Slots(stack', active', w, canvas') /\ NoIdleSlot' /\ Granted(active \ {p}, c)
<1>1. CASE p \in active
  <2>1. Grant(Served(q, active \ {p}), c)
    BY <1>1 DEF Freed
  <2> QED BY <2>1, GrantServed
<1>2. CASE p \notin active
  <2>1. Freed(p, q) = [stack |-> q, active |-> active, resumed |-> {}] /\ active \ {p} = active
    BY <1>2 DEF Freed
  <2> QED BY <2>1, GrantNone
<1> QED BY <1>1, <1>2

\* cancelRenderRequest takes the page's request off the stack.
LEMMA RequestRemoved ==
    ASSUME NEW p \in PageNumbers, NEW q \in Seq(PageNumbers),
           \A i, j \in 1..Len(q) : q[i] = q[j] => i = j
    PROVE  LET e == RemoveFirst(q, p) IN
           /\ e \in Seq(PageNumbers)
           /\ \A i \in 1..Len(e) : e[i] # p /\ \E o \in 1..Len(q) : e[i] = q[o]
           /\ \A i, j \in 1..Len(e) : e[i] = e[j] => i = j
           /\ e # <<>> => q # <<>>
<1> DEFINE n == Len(q)
<1>1. n \in Nat /\ \A i \in 1..n : q[i] \in PageNumbers
  BY LenProperties
<1>2. CASE ~\E i \in 1..n : q[i] = p
  <2>1. RemoveFirst(q, p) = q
    BY <1>2 DEF RemoveFirst
  <2> QED BY <1>2, <2>1
<1>3. CASE \E i \in 1..n : q[i] = p
  <2>1. PICK k \in 1..n : q[k] = p
    BY <1>3
  <2>2. {i \in 1..n : q[i] = p} = {k}
    BY <2>1
  <2>3. SelectInSeq(q, LAMBDA v : v = p) = k
    <3>1. SelectInSeq(q, LAMBDA v : v = p) = Min({k})
      BY <2>2 DEF SelectInSeq
    <3>2. Min({k}) = k
      BY <1>1, <2>1 DEF Min
    <3> QED BY <3>1, <3>2
  <2> DEFINE head == SubSeq(q, 1, k - 1)
             rest == SubSeq(q, k + 1, n)
  <2>4. RemoveFirst(q, p) = head \o rest
    BY <1>3, <2>3 DEF RemoveFirst, RemoveAt
  <2>5. k \in Nat /\ k - 1 \in Int /\ k + 1 \in Int /\ 1 <= k /\ k <= n
    BY <1>1, <2>1
  <2>6. /\ head \in Seq(PageNumbers) /\ Len(head) = k - 1
        /\ \A i \in 1..(k - 1) : head[i] = q[i]
    <3>1. \A i \in 1..(k - 1) : q[i] \in PageNumbers
      BY <1>1, <2>5
    <3>2. /\ SubSeq(q, 1, k - 1) \in Seq(PageNumbers)
          /\ Len(SubSeq(q, 1, k - 1)) = IF 1 <= k - 1 THEN k - 1 - 1 + 1 ELSE 0
          /\ \A i \in 1..(k - 1 - 1 + 1) : SubSeq(q, 1, k - 1)[i] = q[1 + i - 1]
      BY <3>1, <2>5, SubSeqProperties
    <3>3. k - 1 - 1 + 1 = k - 1 /\ (~(1 <= k - 1) => k - 1 = 0)
      BY SMTT(60), <2>5
    <3>4. ASSUME NEW i \in 1..(k - 1) PROVE 1 + i - 1 = i
      BY <2>5
    <3> QED BY <3>2, <3>3, <3>4
  <2>7. /\ rest \in Seq(PageNumbers) /\ Len(rest) = n - k
        /\ \A i \in 1..(n - k) : rest[i] = q[k + i]
    <3>1. \A i \in (k + 1)..n : q[i] \in PageNumbers
      BY <1>1, <2>5
    <3>2. /\ SubSeq(q, k + 1, n) \in Seq(PageNumbers)
          /\ Len(SubSeq(q, k + 1, n)) = IF k + 1 <= n THEN n - (k + 1) + 1 ELSE 0
          /\ \A i \in 1..(n - (k + 1) + 1) : SubSeq(q, k + 1, n)[i] = q[k + 1 + i - 1]
      BY <3>1, <2>5, <1>1, SubSeqProperties
    <3>3. n - (k + 1) + 1 = n - k /\ (~(k + 1 <= n) => n - k = 0)
      BY <1>1, <2>5
    <3>4. \A i \in 1..(n - k) : k + 1 + i - 1 = k + i
      BY <2>5
    <3> QED BY <3>2, <3>3, <3>4
  <2> HIDE DEF head, rest, n
  <2>8. PICK e : e = head \o rest
    OBVIOUS
  <2>9. /\ e \in Seq(PageNumbers) /\ Len(e) = n - 1
        /\ \A i \in 1..(n - 1) : e[i] = IF i <= k - 1 THEN head[i] ELSE rest[i - (k - 1)]
    <3>1. /\ head \o rest \in Seq(PageNumbers)
          /\ Len(head \o rest) = Len(head) + Len(rest)
          /\ \A i \in 1..(Len(head) + Len(rest)) :
               (head \o rest)[i] = IF i <= Len(head) THEN head[i] ELSE rest[i - Len(head)]
      BY ONLY <2>6, <2>7, ConcatProperties
    <3>2. Len(head) + Len(rest) = n - 1
      BY <1>1, <2>5, <2>6, <2>7
    <3> QED BY <2>6, <2>8, <3>1, <3>2
  <2>10. \A i \in 1..(n - 1) : i \in 1..n /\ i + 1 \in 1..n
    BY <1>1
  <2>11. \A i \in 1..(n - 1) : e[i] = IF i < k THEN q[i] ELSE q[i + 1]
    <3> SUFFICES ASSUME NEW i \in 1..(n - 1) PROVE e[i] = IF i < k THEN q[i] ELSE q[i + 1]
      OBVIOUS
    <3>1. CASE i < k
      <4>1. i <= k - 1 /\ i \in 1..(k - 1)
        BY <3>1, <2>5
      <4> QED BY <4>1, <3>1, <2>6, <2>9
    <3>2. CASE ~(i < k)
      <4>1. ~(i <= k - 1) /\ i - (k - 1) \in 1..(n - k) /\ k + (i - (k - 1)) = i + 1
        BY <3>2, <2>5, <1>1
      <4>2. rest[i - (k - 1)] = q[i + 1]
        BY <4>1, <2>7
      <4> QED BY <4>1, <4>2, <3>2, <2>9
    <3> QED BY <3>1, <3>2
  <2>12. \A i \in 1..Len(e) : e[i] # p /\ \E o \in 1..n : e[i] = q[o]
    <3> SUFFICES ASSUME NEW i \in 1..(n - 1) PROVE e[i] # p /\ \E o \in 1..n : e[i] = q[o]
      BY <2>9
    <3>1. PICK o \in 1..n : e[i] = q[o] /\ o # k
      BY <2>5, <2>10, <2>11
    <3> QED BY <3>1, <2>1 DEF n
  <2>13. \A i, j \in 1..Len(e) : e[i] = e[j] => i = j
    <3> SUFFICES ASSUME NEW i \in 1..(n - 1), NEW j \in 1..(n - 1), e[i] = e[j] PROVE i = j
      BY <2>9
    <3>1. PICK o \in 1..n : e[i] = q[o] /\ o = IF i < k THEN i ELSE i + 1
      BY <2>10, <2>11
    <3>2. PICK u \in 1..n : e[j] = q[u] /\ u = IF j < k THEN j ELSE j + 1
      BY <2>10, <2>11
    <3>3. o = u
      BY <3>1, <3>2 DEF n
    <3> QED BY <3>1, <3>2, <3>3, <2>5
  <2>14. q # <<>>
    <3>1. n # 0
      BY <2>5
    <3> QED BY <3>1, EmptySeq DEF n
  <2>15. RemoveFirst(q, p) = e
    BY <2>4, <2>8
  <2>16. /\ e \in Seq(PageNumbers)
         /\ \A i \in 1..Len(e) : e[i] # p /\ \E o \in 1..Len(q) : e[i] = q[o]
         /\ \A i, j \in 1..Len(e) : e[i] = e[j] => i = j
         /\ e # <<>> => q # <<>>
    BY <2>9, <2>12, <2>13, <2>14 DEF n
  <2> QED BY <2>15, <2>16
<1> QED BY <1>2, <1>3

-----------------------------------------------------------------------------
(* The PDF viewer: loading.                                                *)

LoadRecord == [stage : LoadStages, cancelled : BOOLEAN]

LEMMA LoadChanged ==
    ASSUME LoadsTyped, NEW l \in 1..Latest, NEW e \in LoadRecord, loads' = [loads EXCEPT ![l] = e]
    PROVE  /\ loads' \in Seq(LoadRecord) /\ Latest' = Latest
           /\ \A j \in 1..Latest : loads'[j] = IF j = l THEN e ELSE loads[j]
<1>1. loads \in Seq(LoadRecord)
  BY DEF LoadsTyped, LoadRecord
<1>2. /\ [loads EXCEPT ![l] = e] \in Seq(LoadRecord)
      /\ Len([loads EXCEPT ![l] = e]) = Len(loads)
      /\ \A j \in 1..Len(loads) : [loads EXCEPT ![l] = e][j] = IF j = l THEN e ELSE loads[j]
  BY <1>1, ExceptSeq DEF Latest
<1> QED BY <1>2 DEF Latest

LEMMA LoadFacts ==
    ASSUME LoadInv
    PROVE  /\ Latest \in Nat \ {0} /\ Latest \in 1..Latest /\ DOMAIN loads = 1..Latest
           /\ \A l \in 1..Latest : loads[l] \in LoadRecord
           /\ \A l \in 1..Latest : ~loads[l].cancelled => l = Latest
<1>1. loads \in Seq(LoadRecord) /\ Latest \in Nat \ {0}
  BY DEF LoadInv, LoadsTyped, LoadRecord
<1>2. DOMAIN loads = 1..Latest /\ \A l \in 1..Latest : loads[l] \in LoadRecord
  BY <1>1, LenProperties DEF Latest
<1>3. \A l \in 1..Latest : l < Latest \/ l = Latest
  BY <1>1
<1>4. \A l \in 1..Latest : l < Latest => loads[l].cancelled
  BY DEF LoadInv, LatestOnly
<1> QED BY <1>1, <1>2, <1>3, <1>4

LEMMA StageChanged ==
    ASSUME LoadInv, NEW l \in 1..Latest, NEW st \in LoadStages, loads' = [loads EXCEPT ![l].stage = st]
    PROVE  /\ loads' \in Seq(LoadRecord) /\ Latest' = Latest
           /\ \A j \in 1..Latest : /\ loads'[j].cancelled = loads[j].cancelled
                                    /\ loads'[j].stage = IF j = l THEN st ELSE loads[j].stage
<1>1. PICK e : e = [loads[l] EXCEPT !.stage = st]
  OBVIOUS
<1>2. loads[l] \in LoadRecord
  BY LoadFacts
<1>3. e \in LoadRecord /\ e.stage = st /\ e.cancelled = loads[l].cancelled
  BY <1>1, <1>2 DEF LoadRecord
<1>4. loads' = [loads EXCEPT ![l] = e]
  BY <1>1
<1>5. LoadsTyped
  BY DEF LoadInv
<1>6. /\ loads' \in Seq(LoadRecord) /\ Latest' = Latest
      /\ \A j \in 1..Latest : loads'[j] = IF j = l THEN e ELSE loads[j]
  BY <1>3, <1>4, <1>5, LoadChanged
<1> QED BY <1>3, <1>6

LEMMA CancelledLoads ==
    ASSUME LoadInv
    PROVE  /\ Cancelled(Latest) \in Seq(LoadRecord) /\ Len(Cancelled(Latest)) = Latest
           /\ \A j \in 1..Latest : Cancelled(Latest)[j].cancelled /\ Cancelled(Latest)[j].stage # "asking"
<1>1. Latest \in 1..Latest /\ loads[Latest] \in LoadRecord /\ loads \in Seq(LoadRecord)
  BY LoadFacts DEF LoadInv, LoadsTyped, LoadRecord
<1>2. PICK d : d = [loads[Latest] EXCEPT !.cancelled = TRUE]
  OBVIOUS
<1>3. d \in LoadRecord /\ d.cancelled = TRUE /\ d.stage = loads[Latest].stage
  BY <1>1, <1>2 DEF LoadRecord
<1>4. PICK e : e = [d EXCEPT !.stage = IF @ = "asking" THEN "ended" ELSE @]
  OBVIOUS
<1>5. e \in LoadRecord /\ e.cancelled = TRUE /\ e.stage # "asking"
  BY <1>3, <1>4 DEF LoadRecord, LoadStages
<1>6. DOMAIN loads = 1..Latest
  BY LoadFacts
<1>7. PICK f : f = [loads EXCEPT ![Latest] = d]
  OBVIOUS
<1>8. f[Latest] = d /\ [f EXCEPT ![Latest] = e] = [loads EXCEPT ![Latest] = e]
  BY <1>1, <1>6, <1>7
<1>9. Cancelled(Latest) = [f EXCEPT ![Latest].stage = IF @ = "asking" THEN "ended" ELSE @]
  BY <1>2, <1>7 DEF Cancelled
<1>10. Cancelled(Latest) = [loads EXCEPT ![Latest] = e]
  BY <1>4, <1>8, <1>9
<1>11. /\ [loads EXCEPT ![Latest] = e] \in Seq(LoadRecord)
       /\ Len([loads EXCEPT ![Latest] = e]) = Len(loads)
       /\ \A j \in 1..Len(loads) : [loads EXCEPT ![Latest] = e][j] = IF j = Latest THEN e ELSE loads[j]
  BY <1>1, <1>5, ExceptSeq DEF Latest
<1>12. \A j \in 1..Latest : j # Latest => loads[j].cancelled /\ loads[j].stage # "asking"
  BY LoadFacts DEF LoadInv, LatestOnly
<1> QED BY <1>5, <1>10, <1>11, <1>12 DEF Latest

LEMMA OpenKeepsLoads ==
    ASSUME LoadInv, OpenPdf
    PROVE  LoadInv'
<1>1. Latest \in Nat \ {0}
  BY LoadFacts
<1>2. PICK c : c = Cancelled(Latest)
  OBVIOUS
<1>3. /\ c \in Seq(LoadRecord) /\ Len(c) = Latest
      /\ \A j \in 1..Latest : c[j].cancelled /\ c[j].stage # "asking"
  BY <1>2, CancelledLoads
<1>4. PICK e : e = [stage |-> "opening", cancelled |-> FALSE]
  OBVIOUS
<1>5. e \in LoadRecord /\ e.stage = "opening" /\ e.cancelled = FALSE
  BY <1>4 DEF LoadRecord, LoadStages
<1>6. loads' = Append(c, e) /\ opened' = opened \ {Latest, pdf} /\ pdf' = 0
      /\ status' = Starting(Latest + 1)
  BY <1>2, <1>4 DEF OpenPdf, ClosedBy
<1>7. /\ loads' \in Seq(LoadRecord) /\ Len(loads') = Latest + 1
      /\ \A j \in 1..Latest : loads'[j] = c[j]
      /\ loads'[Latest + 1] = e
  BY <1>3, <1>5, <1>6, AppendProperties
<1>8. Latest' = Latest + 1
  BY <1>7 DEF Latest
<1>9. opened \subseteq {Latest}
  BY DEF LoadInv, LatestOnly
<1>10. \A j \in 1..(Latest + 1) : j \in 1..Latest \/ j = Latest + 1
  BY <1>1
<1>11. status' \in LoadStatus /\ status'.kind = "loading" /\ status'.of = Latest + 1 /\ status'.prompt = 0
  BY <1>1, <1>6 DEF LoadStatus, LoadKinds, Starting
<1>12. LoadsTyped'
  BY <1>1, <1>7, <1>8, <1>11 DEF LoadsTyped, LoadRecord
<1>13. LatestOnly'
  <2>1. \A l \in 1..Latest' : l < Latest' => loads'[l].cancelled
    <3> SUFFICES ASSUME NEW l \in 1..(Latest + 1), l < Latest + 1 PROVE loads'[l].cancelled
      BY <1>8
    <3>1. l \in 1..Latest
      BY <1>1
    <3> QED BY <3>1, <1>3, <1>7
  <2>2. \A l \in 1..Latest' : loads'[l].stage = "asking" => ~loads'[l].cancelled
    <3> SUFFICES ASSUME NEW l \in 1..(Latest + 1) PROVE loads'[l].stage # "asking"
      BY <1>8
    <3>1. l \in 1..Latest \/ l = Latest + 1
      BY <1>10
    <3> QED BY <3>1, <1>3, <1>5, <1>7
  <2>3. loads'[Latest'] = e
    BY <1>7, <1>8
  <2>4. opened' = {}
    BY <1>6, <1>9
  <2> QED BY <2>1, <2>2, <2>3, <2>4, <1>5, <1>8, <1>11 DEF LatestOnly
<1>14. ShownIsReady'
  BY <1>1, <1>6, <1>8, <1>11 DEF ShownIsReady
<1> QED BY <1>12, <1>13, <1>14 DEF LoadInv

LEMMA CloseKeepsLoads ==
    ASSUME LoadInv, ClosePdf
    PROVE  LoadInv'
<1>1. Latest \in Nat \ {0} /\ Latest \in 1..Latest
  BY LoadFacts
<1>2. PICK c : c = Cancelled(Latest)
  OBVIOUS
<1>3. /\ c \in Seq(LoadRecord) /\ Len(c) = Latest
      /\ \A j \in 1..Latest : c[j].cancelled /\ c[j].stage # "asking"
  BY <1>2, CancelledLoads
<1>4. loads' = c /\ opened' = opened \ {Latest, pdf} /\ pdf' = 0
      /\ status' = [status EXCEPT !.kind = "closed", !.prompt = 0]
  BY <1>2 DEF ClosePdf, ClosedBy
<1>5. Latest' = Latest
  BY <1>3, <1>4 DEF Latest
<1>6. status \in LoadStatus /\ status.of = Latest /\ opened \subseteq {Latest}
  BY DEF LoadInv, LoadsTyped, LatestOnly
<1>7. status' \in LoadStatus /\ status'.kind = "closed" /\ status'.of = Latest /\ status'.prompt = 0
  <2>1. PICK k, n, t : k = "closed" /\ n = 0 /\ t = [status EXCEPT !.kind = k, !.prompt = n]
    BY Zenon
  <2>2. k \in LoadKinds /\ n \in Nat
    BY <2>1 DEF LoadKinds
  <2>3. t \in LoadStatus /\ t.kind = k /\ t.of = status.of /\ t.prompt = n
    BY <1>6, <2>1, <2>2 DEF LoadStatus
  <2>4. status' = t
    BY <1>4, <2>1, Zenon
  <2> QED BY <1>6, <2>1, <2>3, <2>4
<1>8. LoadsTyped'
  BY <1>1, <1>3, <1>4, <1>5, <1>7 DEF LoadsTyped, LoadRecord
<1>9. opened' = {}
  BY <1>4, <1>6
<1>10. LatestOnly'
  BY <1>1, <1>3, <1>4, <1>5, <1>7, <1>9 DEF LatestOnly
<1>11. ShownIsReady'
  BY <1>1, <1>4, <1>5, <1>7 DEF ShownIsReady
<1> QED BY <1>8, <1>10, <1>11 DEF LoadInv

\* A load goes on to another stage: what it may show and open.  One that was
\* cancelled may still bring up a prompt.
LEMMA StageKeepsLoads ==
    ASSUME LoadInv, NEW l \in 1..Latest, NEW st \in LoadStages, loads' = [loads EXCEPT ![l].stage = st],
           st = "asking" => ~loads[l].cancelled,
           status' \in LoadStatus, status'.prompt \in 0..Latest,
           \/ /\ loads[l].cancelled /\ st # "asking"
              /\ opened' \in {opened, opened \ {l}} /\ pdf' = pdf
              /\ status'.kind = status.kind /\ status'.of = status.of
           \/ /\ ~loads[l].cancelled /\ loads[l].stage # "ended"
              /\ opened' = (IF st = "describing" THEN opened \cup {l} ELSE opened)
              /\ IF st = "ended" /\ status'.kind = "ready" THEN pdf' = l /\ Latest \in opened ELSE pdf' = pdf
              /\ \/ status'.kind # "closed" /\ status'.of = l
                 \/ status'.kind = status.kind /\ status'.of = status.of
              /\ status'.kind = "ready" => st = "ended"
    PROVE  LoadInv' /\ (status.kind = "ready" => status'.kind = "ready" /\ pdf' = pdf)
<1>1. /\ Latest \in Nat \ {0} /\ Latest \in 1..Latest
      /\ \A j \in 1..Latest : loads[j] \in LoadRecord
      /\ \A j \in 1..Latest : ~loads[j].cancelled => j = Latest
  BY LoadFacts
<1>2. /\ loads' \in Seq(LoadRecord) /\ Latest' = Latest
      /\ \A j \in 1..Latest : /\ loads'[j].cancelled = loads[j].cancelled
                               /\ loads'[j].stage = IF j = l THEN st ELSE loads[j].stage
  BY StageChanged
<1>3. LoadsTyped /\ LatestOnly /\ ShownIsReady
  BY DEF LoadInv
<1>5. LoadsTyped'
  BY <1>1, <1>2 DEF LoadsTyped, LoadRecord
<1>6. CASE loads[l].cancelled
  <2>1. /\ status'.kind = status.kind /\ status'.of = status.of /\ pdf' = pdf
        /\ opened' \subseteq opened /\ (opened' = opened \/ opened' = opened \ {l})
    BY <1>6
  <2>2. status.kind = "ready" => l # Latest
    BY <1>3, <1>6 DEF LatestOnly
  <2>3. loads[Latest].cancelled => opened = {}
    BY <1>3 DEF LatestOnly
  <2>4. ~loads[Latest].cancelled => opened' = opened /\ loads'[Latest].stage = loads[Latest].stage
    <3> SUFFICES ASSUME ~loads[Latest].cancelled
                 PROVE  opened' = opened /\ loads'[Latest].stage = loads[Latest].stage
      OBVIOUS
    <3>1. l # Latest
      BY <1>6
    <3>2. opened \subseteq {Latest}
      BY <1>3 DEF LatestOnly
    <3>3. opened' = opened
      BY <2>1, <3>1, <3>2
    <3>4. loads'[Latest].stage = loads[Latest].stage
      BY <1>1, <1>2, <3>1
    <3> QED BY <3>3, <3>4
  <2>5. LatestOnly'
    BY <1>1, <1>2, <1>3, <1>6, <2>1, <2>3, <2>4 DEF LatestOnly
  <2>6. ShownIsReady'
    BY <1>1, <1>2, <1>3, <1>6, <2>1, <2>2, <2>3, <2>4 DEF ShownIsReady, LatestOnly
  <2> QED BY <1>5, <2>1, <2>5, <2>6 DEF LoadInv
<1>7. CASE ~loads[l].cancelled
  <2>1. l = Latest /\ status.kind # "closed" /\ loads[l].stage # "ended"
    BY <1>1, <1>3, <1>7 DEF LatestOnly
  <2>2. status.kind # "ready" /\ pdf = 0
    BY <1>1, <1>3, <2>1 DEF ShownIsReady
  <2>3. status'.kind # "closed" /\ status'.of = Latest
    BY <1>3, <1>7, <2>1 DEF LatestOnly
  <2>4. /\ opened' = (IF st = "describing" THEN opened \cup {l} ELSE opened)
        /\ IF st = "ended" /\ status'.kind = "ready" THEN pdf' = l /\ Latest \in opened ELSE pdf' = pdf
        /\ status'.kind = "ready" => st = "ended"
    BY <1>7
  <2>5. LatestOnly'
    BY <1>1, <1>2, <1>3, <1>7, <2>1, <2>3, <2>4 DEF LatestOnly
  <2>6. ShownIsReady'
    BY <1>1, <1>2, <1>3, <2>1, <2>2, <2>4 DEF ShownIsReady
  <2> QED BY <1>5, <2>2, <2>5, <2>6 DEF LoadInv
<1> QED BY <1>6, <1>7

LEMMA LoadingKeepsLoads ==
    ASSUME LoadInv, NEW l \in 1..Latest, AskPassword(l) \/ GivePassword(l) \/ LoadStep(l)
    PROVE  LoadInv' /\ (status.kind = "ready" => status'.kind = "ready" /\ pdf' = pdf)
<1>1. loads[l] \in LoadRecord /\ (loads[l].stage = "asking" => ~loads[l].cancelled)
      /\ (~loads[l].cancelled => l = Latest /\ status.kind # "closed")
      /\ (~loads[l].cancelled /\ loads[l].stage # "ended" => status.kind # "ready")
      /\ Latest \in Nat /\ l \in Nat
      /\ status \in LoadStatus /\ status.prompt \in 0..Latest
  BY LoadFacts DEF LoadInv, LoadsTyped, LatestOnly, ShownIsReady
<1>2. CASE AskPassword(l)
  <2>1. PICK st : st = IF loads[l].cancelled THEN "ended" ELSE "asking"
    OBVIOUS
  <2>2. /\ loads[l].stage = "opening" /\ loads' = [loads EXCEPT ![l].stage = st]
        /\ status' = IF status.kind = "closed" THEN status ELSE [status EXCEPT !.prompt = l]
        /\ UNCHANGED <<pdf, opened>>
    BY <1>2, <2>1 DEF AskPassword
  <2>3. /\ status' \in LoadStatus /\ status'.prompt \in 0..Latest
        /\ status'.kind = status.kind /\ status'.of = status.of
    <3>1. PICK t : t = [status EXCEPT !.prompt = l]
      OBVIOUS
    <3>2. t \in LoadStatus /\ t.kind = status.kind /\ t.of = status.of /\ t.prompt = l
      BY <1>1, <3>1 DEF LoadStatus
    <3>3. status' = status \/ status' = t
      BY <2>2, <3>1, Zenon
    <3> QED BY <1>1, <3>2, <3>3
  <2>4. st \in LoadStages /\ st # "describing"
    BY <2>1 DEF LoadStages
  <2>5. CASE loads[l].cancelled
    <3>1. st # "asking" /\ opened' \in {opened, opened \ {l}} /\ pdf' = pdf
      BY <2>1, <2>2, <2>5
    <3> QED BY <2>2, <2>3, <2>4, <2>5, <3>1, StageKeepsLoads
  <2>6. CASE ~loads[l].cancelled
    <3>1. loads[l].stage # "ended" /\ status'.kind # "ready" /\ st # "ended"
      BY <1>1, <2>1, <2>2, <2>3, <2>6
    <3> QED BY <2>2, <2>3, <2>4, <2>6, <3>1, StageKeepsLoads
  <2> QED BY <2>5, <2>6
<1>3. CASE GivePassword(l)
  <2>1. /\ loads[l].stage = "asking" /\ loads' = [loads EXCEPT ![l].stage = "opening"]
        /\ UNCHANGED <<status, pdf, opened>>
    BY <1>3 DEF GivePassword
  <2>2. "opening" \in LoadStages /\ ~loads[l].cancelled /\ status'.kind # "ready"
        /\ status' \in LoadStatus /\ status'.prompt \in 0..Latest
    BY <1>1, <2>1 DEF LoadStages
  <2> QED BY <2>1, <2>2, StageKeepsLoads
<1>4. CASE Opened(l)
  <2>1. /\ loads[l].stage = "opening" /\ ~loads[l].cancelled /\ loads' = [loads EXCEPT ![l].stage = "describing"]
        /\ opened' = opened \cup {l} /\ UNCHANGED <<status, pdf>>
    BY <1>4 DEF Opened
  <2>2. "describing" \in LoadStages /\ status'.kind # "ready"
        /\ status' \in LoadStatus /\ status'.prompt \in 0..Latest
    BY <1>1, <2>1 DEF LoadStages
  <2> QED BY <2>1, <2>2, StageKeepsLoads
<1>5. CASE Described(l)
  <2>1. /\ loads[l].stage = "describing" /\ loads' = [loads EXCEPT ![l].stage = "ended"]
        /\ IF loads[l].cancelled THEN opened' = opened \ {l} /\ UNCHANGED <<status, pdf>>
           ELSE status' = [status EXCEPT !.kind = "ready", !.of = l] /\ pdf' = l /\ UNCHANGED opened
    BY <1>5 DEF Described
  <2>2. "ended" \in LoadStages
    BY DEF LoadStages
  <2>3. CASE loads[l].cancelled
    <3>1. /\ opened' \in {opened, opened \ {l}} /\ UNCHANGED <<status, pdf>>
          /\ status' \in LoadStatus /\ status'.prompt \in 0..Latest
      BY <1>1, <2>1, <2>3
    <3> QED BY <2>1, <2>2, <2>3, <3>1, StageKeepsLoads
  <2>4. CASE ~loads[l].cancelled
    <3>1. /\ status' \in LoadStatus /\ status'.prompt \in 0..Latest
          /\ status'.kind = "ready" /\ status'.of = l /\ pdf' = l /\ opened' = opened
      <4>1. PICK k, t : k = "ready" /\ t = [status EXCEPT !.kind = k, !.of = l]
        BY Zenon
      <4>2. k \in LoadKinds
        BY <4>1 DEF LoadKinds
      <4>3. t \in LoadStatus /\ t.kind = k /\ t.of = l /\ t.prompt = status.prompt
        BY <1>1, <4>1, <4>2 DEF LoadStatus
      <4>4. status' = t
        BY <2>1, <2>4, <4>1, Zenon
      <4> QED BY <1>1, <2>1, <2>4, <4>1, <4>3, <4>4
    <3>2. Latest \in opened
      BY <1>1, <2>1, <2>4 DEF LoadInv, LatestOnly
    <3>3. IF "ended" = "ended" /\ status'.kind = "ready" THEN pdf' = l /\ Latest \in opened ELSE pdf' = pdf
      BY <2>1, <2>4, <3>1, <3>2
    <3> QED BY <2>1, <2>2, <2>4, <3>1, <3>3, StageKeepsLoads
  <2> QED BY <2>3, <2>4
<1>6. CASE LoadFails(l)
  <2>1. /\ loads[l].stage \in {"opening", "describing"} /\ loads' = [loads EXCEPT ![l].stage = "ended"]
        /\ status' = ErrorOf(l) /\ UNCHANGED <<pdf, opened>>
    BY <1>6 DEF LoadFails
  <2>2. "ended" \in LoadStages
    BY DEF LoadStages
  <2>3. CASE loads[l].cancelled
    <3>1. /\ opened' \in {opened, opened \ {l}} /\ UNCHANGED <<status, pdf>>
          /\ status' \in LoadStatus /\ status'.prompt \in 0..Latest
      BY <1>1, <2>1, <2>3 DEF ErrorOf
    <3> QED BY <2>1, <2>2, <2>3, <3>1, StageKeepsLoads
  <2>4. CASE ~loads[l].cancelled
    <3>1. /\ status' \in LoadStatus /\ status'.prompt \in 0..Latest
          /\ status'.kind = "error" /\ status'.of = l
      <4>1. PICK k, t : k = "error" /\ t = [status EXCEPT !.kind = k, !.of = l]
        BY Zenon
      <4>2. k \in LoadKinds
        BY <4>1 DEF LoadKinds
      <4>3. t \in LoadStatus /\ t.kind = k /\ t.of = l /\ t.prompt = status.prompt
        BY <1>1, <4>1, <4>2 DEF LoadStatus
      <4>4. status' = t
        BY <2>1, <2>4, <4>1, Zenon DEF ErrorOf
      <4> QED BY <1>1, <2>1, <2>4, <4>1, <4>3, <4>4
    <3> QED BY <2>1, <2>2, <2>4, <3>1, StageKeepsLoads
  <2> QED BY <2>3, <2>4
<1> QED BY <1>2, <1>3, <1>4, <1>5, <1>6 DEF LoadStep

-----------------------------------------------------------------------------
(* The PDF viewer: what loading does to the pages.                         *)

LEMMA PagesOutlive ==
    ASSUME PageInv, UNCHANGED pageVars, status.kind = "ready" => status'.kind = "ready" /\ pdf' = pdf
    PROVE  PageInv'
<1>1. UNCHANGED <<wanted, stack, active, canvas, task, rendered, runs, overtaken>>
  BY DEF pageVars
<1>2. wanted' # {} => status'.kind = "ready"
  BY <1>1 DEF PageInv
<1>3. Slots(stack, active, wanted, canvas)' /\ NoIdleSlot' /\ RunsTyped'
  BY <1>1 DEF PageInv, NoIdleSlot, RunsTyped, Slots
<1>4. ~overtaken => RunsOwnCanvases'
  <2> SUFFICES ASSUME ~overtaken PROVE RunsOwnCanvases'
    OBVIOUS
  <2>1. RunsOwnCanvases /\ RunsTyped /\ Slots(stack, active, wanted, canvas)
    BY DEF PageInv
  <2>2. \A r \in RunIds : runs[r].page # 0 => pdf' = pdf
    <3> SUFFICES ASSUME NEW r \in RunIds, runs[r].page # 0 PROVE pdf' = pdf
      OBVIOUS
    <3>1. runs[r].page \in PageNumbers
      BY <2>1, PdfConstants DEF RunsTyped, RunRecord, PageNumbers
    <3>2. canvas[runs[r].page] # "none"
      BY <2>1, <3>1 DEF RunsOwnCanvases, Owned
    <3>3. runs[r].page \in wanted
      BY <2>1, <3>1, <3>2 DEF Slots
    <3> QED BY <3>3 DEF PageInv
  <2> QED BY <1>1, <2>1, <2>2 DEF RunsOwnCanvases, Owned
<1> QED BY <1>1, <1>2, <1>3, <1>4 DEF PageInv

LEMMA PagesGo ==
    ASSUME PageInv, Unmounted
    PROVE  PageInv'
<1>1. /\ wanted' = {} /\ stack' = <<>> /\ active' = {}
      /\ canvas' = [p \in PageNumbers |-> "none"]
      /\ task' = [p \in PageNumbers |-> 0] /\ rendered' = [p \in PageNumbers |-> FALSE]
      /\ runs' = [r \in RunIds |-> IF runs[r].stage = "getting" THEN [runs[r] EXCEPT !.own = FALSE] ELSE NoRun]
      /\ overtaken' = (overtaken \/ \E r \in RunIds : runs[r].stage = "getting")
  BY DEF Unmounted, NoPages
<1>2. Slots(stack, active, wanted, canvas)'
  <2>1. <<>> \in Seq(PageNumbers) /\ Len(<<>>) = 0 /\ Cardinality({}) = 0
    BY EmptySeq, FS_EmptySet
  <2>2. canvas' \in [PageNumbers -> CanvasStates] /\ \A p \in PageNumbers : canvas'[p] = "none"
    BY <1>1 DEF CanvasStates
  <2>3. 1..0 = {} /\ 0 <= MaxRenders
    BY PdfConstants
  <2> QED BY <1>1, <2>1, <2>2, <2>3 DEF Slots
<1>3. RunsTyped'
  <2>1. runs \in [RunIds -> RunRecord]
        /\ \A r \in RunIds : runs[r].page = 0 <=> runs[r].stage = "free"
    BY DEF PageInv, RunsTyped
  <2>2. \A r \in RunIds : runs'[r] \in RunRecord /\ (runs'[r].page = 0 <=> runs'[r].stage = "free")
    <3> SUFFICES ASSUME NEW r \in RunIds
                 PROVE  /\ runs'[r] \in RunRecord
                        /\ runs'[r].page = 0 <=> runs'[r].stage = "free"
      OBVIOUS
    <3>1. CASE runs[r].stage = "getting"
      <4>1. runs'[r] = [runs[r] EXCEPT !.own = FALSE]
        BY <1>1, <3>1
      <4>2. PICK o : o = runs[r]
        OBVIOUS
      <4>3. o \in RunRecord /\ (o.page = 0 <=> o.stage = "free") /\ runs'[r] = [o EXCEPT !.own = FALSE]
        BY <2>1, <4>1, <4>2
      <4> QED BY <4>3 DEF RunRecord
    <3>2. CASE runs[r].stage # "getting"
      <4>1. runs'[r] = NoRun
        BY <1>1, <3>2
      <4> QED BY <4>1, PdfConstants DEF NoRun, RunRecord
    <3> QED BY <3>1, <3>2
  <2>3. runs' \in [RunIds -> RunRecord]
    <3>1. DOMAIN runs' = RunIds /\ runs' = [r \in DOMAIN runs' |-> runs'[r]]
      BY <1>1
    <3>2. \A r \in RunIds : runs'[r] \in RunRecord
      BY <2>2
    <3> QED BY <3>1, <3>2, Zenon
  <2>4. task' \in [PageNumbers -> 0..MaxRuns] /\ rendered' \in [PageNumbers -> BOOLEAN] /\ overtaken' \in BOOLEAN
    <3>1. 0 \in 0..MaxRuns
      BY PdfConstants
    <3>2. overtaken \in BOOLEAN
      BY DEF PageInv, RunsTyped
    <3> QED BY <1>1, <3>1, <3>2
  <2> QED BY <2>2, <2>3, <2>4 DEF RunsTyped
<1>4. ~overtaken' => RunsOwnCanvases'
  <2> SUFFICES ASSUME ~overtaken' PROVE RunsOwnCanvases'
    OBVIOUS
  <2>1. \A r \in RunIds : runs'[r].page = 0
    <3>1. \A r \in RunIds : runs[r].stage # "getting"
      BY <1>1
    <3> QED BY <1>1, <3>1 DEF NoRun
  <2> QED BY <1>1, <2>1 DEF RunsOwnCanvases, Owned
<1> QED BY <1>1, <1>2, <1>3, <1>4 DEF PageInv, NoIdleSlot

-----------------------------------------------------------------------------
(* The PDF viewer: pages.                                                  *)

LEMMA RunFacts ==
    ASSUME PageInv
    PROVE  /\ runs \in [RunIds -> RunRecord] /\ task \in [PageNumbers -> 0..MaxRuns]
           /\ rendered \in [PageNumbers -> BOOLEAN] /\ overtaken \in BOOLEAN
           /\ canvas \in [PageNumbers -> CanvasStates] /\ active \in SUBSET PageNumbers
           /\ \A r \in RunIds : runs[r].page = 0 <=> runs[r].stage = "free"
           /\ \A r \in RunIds : runs[r].page # 0 => runs[r].page \in PageNumbers
           /\ \A p \in PageNumbers : task[p] # 0 => task[p] \in RunIds
           /\ 0 \in 0..MaxRuns /\ \A r \in RunIds : r \in 0..MaxRuns /\ r # 0
<1>1. RunsTyped /\ Slots(stack, active, wanted, canvas)
  BY DEF PageInv
<1>2. \A r \in RunIds : runs[r].page # 0 => runs[r].page \in PageNumbers
  BY <1>1, PdfConstants DEF RunsTyped, RunRecord, PageNumbers
<1>3. \A p \in PageNumbers : task[p] # 0 => task[p] \in RunIds
  BY <1>1, PdfConstants DEF RunsTyped, RunIds
<1>4. 0 \in 0..MaxRuns /\ \A r \in RunIds : r \in 0..MaxRuns /\ r # 0
  BY PdfConstants DEF RunIds
<1> QED BY <1>1, <1>2, <1>3, <1>4 DEF RunsTyped, Slots

LEMMA GrantKeepsOwned ==
    ASSUME NEW a \in SUBSET PageNumbers, NEW c, Granted(a, c), RunsTyped',
           Slots(stack', active', wanted', canvas'),
           Owned(runs', task', rendered', a, c), pdf' = pdf
    PROVE  RunsOwnCanvases'
<1>1. /\ \A p \in PageNumbers : c[p] # "none" => canvas'[p] = c[p]
      /\ \A p \in active' : p \in a \/ canvas'[p] = "allowed"
      /\ \A p \in PageNumbers : c[p] = "allowed" => canvas'[p] = "allowed"
  BY DEF Granted
<1>2. \A r \in RunIds : runs'[r].page # 0 => runs'[r].page \in PageNumbers
  BY PdfConstants DEF RunsTyped, RunRecord, PageNumbers
<1>3. \A r \in RunIds : runs'[r].page # 0 => runs'[r].own /\ runs'[r].load = pdf' /\ canvas'[runs'[r].page] = "blank"
  BY <1>1, <1>2 DEF Owned
<1>4. \A p \in PageNumbers : rendered'[p] => canvas'[p] = "drawn"
  BY <1>1 DEF Owned
<1>5. \A p \in active' : canvas'[p] = "allowed" \/ \E r \in RunIds : runs'[r].page = p
  BY <1>1 DEF Owned
<1>6. /\ \A r, o \in RunIds : runs'[r].page # 0 /\ runs'[r].page = runs'[o].page => r = o
      /\ \A p \in PageNumbers : task'[p] # 0 => runs'[task'[p]].page = p
  BY DEF Owned
<1> QED BY <1>3, <1>4, <1>5, <1>6 DEF RunsOwnCanvases, Owned

LEMMA WantKeepsPages ==
    ASSUME PageInv, NEW p \in PageNumbers, Want(p)
    PROVE  PageInv'
<1>1. /\ status.kind = "ready" /\ p \notin wanted /\ wanted' = wanted \cup {p}
      /\ Grant(Served(Append(stack, p), active), canvas)
      /\ UNCHANGED <<task, rendered, runs, overtaken, status, pdf>>
  BY DEF Want, Asked, loadVars
<1>2. Slots(stack, active, wanted, canvas) /\ RunsTyped /\ (~overtaken => RunsOwnCanvases)
  BY DEF PageInv
<1>3. canvas[p] = "none" /\ p \notin active
  BY <1>1, <1>2 DEF Slots
<1>4. Slots(Append(stack, p), active, wanted', canvas)
  <2>1. PICK q : q = Append(stack, p)
    OBVIOUS
  <2>2. stack \in Seq(PageNumbers) /\ Len(stack) \in Nat /\ p \in PageNumbers
    BY <1>2, LenProperties DEF Slots
  <2>3. /\ q \in Seq(PageNumbers) /\ Len(q) = Len(stack) + 1
        /\ \A i \in 1..Len(stack) : q[i] = stack[i]
        /\ q[Len(stack) + 1] = p
    BY <2>1, <2>2, AppendProperties
  <2>4. \A i \in 1..Len(q) : i \in 1..Len(stack) \/ i = Len(stack) + 1
    BY <2>2, <2>3
  <2>5. \A i \in 1..Len(stack) : q[i] \in wanted /\ q[i] # p /\ q[i] \notin active /\ canvas[q[i]] = "none"
    BY <1>1, <1>2, <2>3 DEF Slots
  <2>6. \A i \in 1..Len(q) : q[i] \in wanted' /\ q[i] \notin active /\ canvas[q[i]] = "none"
    BY <1>1, <1>3, <2>3, <2>4, <2>5
  <2>7. \A i, j \in 1..Len(q) : q[i] = q[j] => i = j
    <3>1. \A i, j \in 1..Len(stack) : stack[i] = stack[j] => i = j
      BY <1>2 DEF Slots
    <3> QED BY <2>3, <2>4, <2>5, <3>1
  <2>8. wanted' \in SUBSET PageNumbers /\ active \in SUBSET wanted'
    BY <1>1, <1>2 DEF Slots
  <2> QED BY <1>1, <1>2, <2>1, <2>3, <2>6, <2>7, <2>8 DEF Slots
<1>5. Slots(stack', active', wanted', canvas') /\ NoIdleSlot' /\ Granted(active, canvas)
  BY <1>1, <1>4, GrantServed
<1>6. RunsTyped' /\ active \in SUBSET PageNumbers
  BY <1>1, <1>2 DEF RunsTyped, Slots
<1>7. ~overtaken' => RunsOwnCanvases'
  <2> SUFFICES ASSUME ~overtaken' PROVE RunsOwnCanvases'
    OBVIOUS
  <2>1. Owned(runs', task', rendered', active, canvas)
    BY <1>1, <1>2 DEF RunsOwnCanvases, Owned
  <2> QED BY <1>1, <1>5, <1>6, <2>1, GrantKeepsOwned
<1> QED BY <1>1, <1>5, <1>6, <1>7 DEF PageInv

LEMMA UnwantKeepsPages ==
    ASSUME PageInv, NEW p \in PageNumbers, Unwant(p)
    PROVE  PageInv'
<1> DEFINE c == [canvas EXCEPT ![p] = "none"]
           q == RemoveFirst(stack, p)
<1>1. /\ wanted' = wanted \ {p} /\ Grant(Freed(p, q), c)
      /\ rendered' = [rendered EXCEPT ![p] = @ /\ canvas[p] \notin {"blank", "drawn"}]
      /\ runs' = [r \in RunIds |-> IF r = task[p] THEN NoRun
                                   ELSE IF runs[r].page = p THEN [runs[r] EXCEPT !.own = FALSE] ELSE runs[r]]
      /\ task' = [task EXCEPT ![p] = 0]
      /\ overtaken' = (overtaken \/ \E r \in RunsOf(p) : r # task[p])
      /\ UNCHANGED <<status, pdf>>
  BY DEF Unwant, GivenUp, loadVars
<1>2. /\ Slots(stack, active, wanted, canvas) /\ RunsTyped /\ (~overtaken => RunsOwnCanvases)
      /\ NoIdleSlot /\ (wanted # {} => status.kind = "ready")
  BY DEF PageInv
<1>3. c \in [PageNumbers -> CanvasStates] /\ \A o \in PageNumbers : c[o] = IF o = p THEN "none" ELSE canvas[o]
  BY RunFacts DEF CanvasStates
<1>4. Slots(q, active \ {p}, wanted', c) /\ (q # <<>> => Cardinality(active) = MaxRenders)
  <2>1. stack \in Seq(PageNumbers) /\ \A i, j \in 1..Len(stack) : stack[i] = stack[j] => i = j
    BY <1>2 DEF Slots
  <2>2. /\ q \in Seq(PageNumbers)
        /\ \A i \in 1..Len(q) : q[i] # p /\ \E o \in 1..Len(stack) : q[i] = stack[o]
        /\ \A i, j \in 1..Len(q) : q[i] = q[j] => i = j
        /\ q # <<>> => stack # <<>>
    BY <2>1, RequestRemoved
  <2> HIDE DEF q, c
  <2>3. \A i \in 1..Len(q) : q[i] \in wanted' /\ q[i] \notin active \ {p} /\ c[q[i]] = "none"
    <3> SUFFICES ASSUME NEW i \in 1..Len(q)
                 PROVE  q[i] \in wanted' /\ q[i] \notin active /\ c[q[i]] = "none"
      OBVIOUS
    <3>1. PICK o \in 1..Len(stack) : q[i] = stack[o]
      BY <2>2
    <3>2. stack[o] \in wanted /\ stack[o] \notin active /\ canvas[stack[o]] = "none" /\ wanted \in SUBSET PageNumbers
      BY <1>2 DEF Slots
    <3> QED BY <1>1, <1>3, <2>2, <3>1, <3>2
  <2>4. /\ wanted' \in SUBSET PageNumbers /\ active \ {p} \in SUBSET wanted'
        /\ \A o \in PageNumbers : c[o] # "none" => o \in wanted'
    BY <1>1, <1>2, <1>3 DEF Slots
  <2>5. Cardinality(active \ {p}) <= MaxRenders
    <3>1. /\ IsFiniteSet(active) /\ Cardinality(active) \in Nat /\ Cardinality(active \ {p}) \in Nat
          /\ active \ {p} \in SUBSET active
      BY RunFacts, PagesFinite
    <3>2. Cardinality(active \ {p}) <= Cardinality(active)
      BY <3>1, FS_Subset
    <3> QED BY <1>2, <3>1, <3>2, PdfConstants DEF Slots
  <2>6. q # <<>> => Cardinality(active) = MaxRenders
    BY <1>2, <2>2 DEF NoIdleSlot
  <2> QED BY <1>3, <2>2, <2>3, <2>4, <2>5, <2>6 DEF Slots
<1> HIDE DEF q, c
<1>5. Slots(stack', active', wanted', canvas') /\ NoIdleSlot' /\ Granted(active \ {p}, c)
  BY <1>1, <1>4, GrantFreed
<1>6. RunsTyped'
  <2>1. \A r \in RunIds : runs'[r] \in RunRecord /\ (runs'[r].page = 0 <=> runs'[r].stage = "free")
    <3> SUFFICES ASSUME NEW r \in RunIds
                 PROVE  runs'[r] \in RunRecord /\ (runs'[r].page = 0 <=> runs'[r].stage = "free")
      OBVIOUS
    <3>1. PICK o : o = runs[r]
      OBVIOUS
    <3>2. o \in RunRecord /\ (o.page = 0 <=> o.stage = "free")
      BY <3>1, RunFacts
    <3>3. runs'[r] = NoRun \/ runs'[r] = [o EXCEPT !.own = FALSE] \/ runs'[r] = o
      BY <1>1, <3>1
    <3>4. CASE runs'[r] = NoRun
      BY <3>4, PdfConstants DEF NoRun, RunRecord
    <3>5. CASE runs'[r] = [o EXCEPT !.own = FALSE]
      BY <3>2, <3>5 DEF RunRecord
    <3>6. CASE runs'[r] = o
      BY <3>2, <3>6
    <3> QED BY <3>3, <3>4, <3>5, <3>6
  <2>2. runs' \in [RunIds -> RunRecord]
    <3>1. DOMAIN runs' = RunIds /\ runs' = [r \in DOMAIN runs' |-> runs'[r]]
      BY <1>1
    <3>2. \A r \in RunIds : runs'[r] \in RunRecord
      BY <2>1
    <3> QED BY <3>1, <3>2, Zenon
  <2>3. task' \in [PageNumbers -> 0..MaxRuns] /\ overtaken' \in BOOLEAN
    BY <1>1, RunFacts
  <2>4. rendered' \in [PageNumbers -> BOOLEAN]
    <3> DEFINE b == rendered[p] /\ canvas[p] \notin {"blank", "drawn"}
    <3>1. rendered' = [rendered EXCEPT ![p] = b] /\ b \in BOOLEAN
      BY <1>1
    <3> HIDE DEF b
    <3> QED BY <3>1, RunFacts
  <2> QED BY <2>1, <2>2, <2>3, <2>4 DEF RunsTyped
<1>7. ~overtaken' => RunsOwnCanvases'
  <2> SUFFICES ASSUME ~overtaken' PROVE RunsOwnCanvases'
    OBVIOUS
  <2>1. ~overtaken /\ \A r \in RunIds : runs[r].page = p => r = task[p]
    BY <1>1 DEF RunsOf
  <2>2. Owned(runs, task, rendered, active, canvas)
    BY <1>2, <2>1 DEF RunsOwnCanvases
  <2>3. \A r \in RunIds : IF runs[r].page = p THEN runs'[r].page = 0 ELSE runs'[r] = runs[r]
    <3>1. \A r \in RunIds : r = task[p] => runs[r].page = p
      BY <2>2, RunFacts DEF Owned
    <3> QED BY <1>1, <2>1, <3>1 DEF NoRun
  <2>4. \A o \in PageNumbers : IF o = p THEN task'[o] = 0 /\ ~rendered'[o]
                              ELSE task'[o] = task[o] /\ rendered'[o] = rendered[o]
    <3>1. rendered[p] => canvas[p] = "drawn"
      BY <2>2 DEF Owned
    <3> QED BY <1>1, <3>1, RunFacts
  <2>5. /\ \A r \in RunIds : runs'[r].page # 0 => runs'[r].own /\ runs'[r].load = pdf /\ c[runs'[r].page] = "blank"
        /\ \A r, o \in RunIds : runs'[r].page # 0 /\ runs'[r].page = runs'[o].page => r = o
    <3>1. \A r \in RunIds : runs'[r].page # 0 => runs'[r] = runs[r] /\ runs[r].page # p /\ runs[r].page \in PageNumbers
      BY <2>3, RunFacts
    <3> QED BY <1>3, <2>2, <3>1 DEF Owned
  <2>6. \A o \in PageNumbers : task'[o] # 0 => runs'[task'[o]].page = o
    <3> SUFFICES ASSUME NEW o \in PageNumbers, task'[o] # 0 PROVE runs'[task'[o]].page = o
      OBVIOUS
    <3>1. o # p /\ task'[o] = task[o] /\ task[o] # 0
      BY <2>4
    <3>2. task[o] \in RunIds /\ runs[task[o]].page = o
      BY <2>2, <3>1, RunFacts DEF Owned
    <3> QED BY <2>3, <3>1, <3>2
  <2>7. \A o \in PageNumbers : rendered'[o] => c[o] = "drawn"
    BY <1>3, <2>2, <2>4 DEF Owned
  <2>8. \A o \in active \ {p} : c[o] = "allowed" \/ \E r \in RunIds : runs'[r].page = o
    <3> SUFFICES ASSUME NEW o \in active, o # p, c[o] # "allowed" PROVE \E r \in RunIds : runs'[r].page = o
      OBVIOUS
    <3>1. canvas[o] # "allowed"
      BY <1>3, RunFacts
    <3>2. PICK r \in RunIds : runs[r].page = o
      BY <2>2, <3>1 DEF Owned
    <3> QED BY <2>3, <3>2
  <2>9. Owned(runs', task', rendered', active \ {p}, c)
    BY <2>5, <2>6, <2>7, <2>8 DEF Owned
  <2> QED BY <1>1, <1>5, <1>6, <2>9, RunFacts, GrantKeepsOwned
<1> QED BY <1>1, <1>2, <1>5, <1>6, <1>7 DEF PageInv

LEMMA MountKeepsPages ==
    ASSUME PageInv, pdf \in Nat, NEW p \in PageNumbers, Mount(p)
    PROVE  PageInv'
<1>1. /\ canvas[p] = "allowed" /\ canvas' = [canvas EXCEPT ![p] = "blank"]
      /\ UNCHANGED <<wanted, stack, active, task, rendered, overtaken, status, pdf>>
  BY DEF Mount, loadVars
<1>2. /\ Slots(stack, active, wanted, canvas) /\ RunsTyped /\ (~overtaken => RunsOwnCanvases)
      /\ NoIdleSlot /\ (wanted # {} => status.kind = "ready")
  BY DEF PageInv
<1>3. \A o \in PageNumbers : canvas'[o] = IF o = p THEN "blank" ELSE canvas[o]
  BY <1>1, RunFacts
<1>4. Slots(stack', active', wanted', canvas')
  <2>1. canvas' \in [PageNumbers -> CanvasStates]
    BY <1>1, RunFacts DEF CanvasStates
  <2>2. p \in wanted /\ \A o \in PageNumbers : canvas'[o] # "none" => o \in wanted
    BY <1>1, <1>2, <1>3 DEF Slots
  <2>3. \A i \in 1..Len(stack) : canvas'[stack[i]] = "none"
    <3>1. \A i \in 1..Len(stack) : stack[i] \in PageNumbers /\ canvas[stack[i]] = "none"
      BY <1>2 DEF Slots
    <3> QED BY <1>1, <1>3, <3>1
  <2> QED BY <1>1, <1>2, <2>1, <2>2, <2>3 DEF Slots
<1>5. CASE task[p] # 0 \/ rendered[p]
  <2>1. runs' = runs
    BY <1>5 DEF Mount
  <2>2. RunsTyped'
    BY <1>1, <1>2, <2>1 DEF RunsTyped
  <2>3. overtaken
    <3>1. ~overtaken => Owned(runs, task, rendered, active, canvas)
      BY <1>2 DEF RunsOwnCanvases
    <3>2. Owned(runs, task, rendered, active, canvas) => FALSE
      <4> SUFFICES ASSUME Owned(runs, task, rendered, active, canvas) PROVE FALSE
        OBVIOUS
      <4>1. ~rendered[p]
        BY <1>1 DEF Owned
      <4>2. task[p] \in RunIds /\ runs[task[p]].page = p /\ p # 0
        BY <1>5, <4>1, RunFacts, PdfConstants DEF Owned, PageNumbers
      <4>3. canvas[p] = "blank"
        BY <4>2 DEF Owned
      <4> QED BY <1>1, <4>3
    <3> QED BY <3>1, <3>2
  <2> QED BY <1>1, <1>2, <1>4, <2>2, <2>3 DEF PageInv, NoIdleSlot
<1>6. CASE ~(task[p] # 0 \/ rendered[p])
  <2>1. PICK r \in RunIds :
          /\ runs[r].stage = "free"
          /\ runs' = [runs EXCEPT ![r] = [page |-> p, stage |-> "getting", own |-> TRUE, load |-> pdf]]
    BY <1>6 DEF Mount
  <2>2. PICK e : e = [page |-> p, stage |-> "getting", own |-> TRUE, load |-> pdf]
    OBVIOUS
  <2>3. e \in RunRecord /\ e.page = p /\ e.own /\ e.load = pdf /\ e.stage = "getting" /\ p # 0
    BY <2>2, PdfConstants DEF RunRecord, PageNumbers
  <2>4. runs' \in [RunIds -> RunRecord] /\ \A o \in RunIds : runs'[o] = IF o = r THEN e ELSE runs[o]
    BY <2>1, <2>2, <2>3, RunFacts
  <2>5. RunsTyped'
    BY <1>1, <1>2, <2>3, <2>4 DEF RunsTyped
  <2>6. ~overtaken' => RunsOwnCanvases'
    <3> SUFFICES ASSUME ~overtaken PROVE RunsOwnCanvases'
      BY <1>1
    <3>1. Owned(runs, task, rendered, active, canvas)
      BY <1>2 DEF RunsOwnCanvases
    <3>2. \A o \in RunIds : runs[o].page # p
      BY <1>1, <2>3, <3>1 DEF Owned
    <3>3. runs[r].page = 0
      BY <2>1, RunFacts
    <3>4. \A o \in RunIds : runs'[o].page # 0 => runs'[o].own /\ runs'[o].load = pdf /\ canvas'[runs'[o].page] = "blank"
      <4> SUFFICES ASSUME NEW o \in RunIds, runs'[o].page # 0
                   PROVE  runs'[o].own /\ runs'[o].load = pdf /\ canvas'[runs'[o].page] = "blank"
        OBVIOUS
      <4>1. CASE o = r
        BY <1>3, <2>3, <2>4, <4>1
      <4>2. CASE o # r
        <5>1. runs'[o] = runs[o] /\ runs[o].page # p /\ runs[o].page \in PageNumbers
          BY <2>4, <3>2, <4>2, RunFacts
        <5> QED BY <1>3, <3>1, <5>1 DEF Owned
      <4> QED BY <4>1, <4>2
    <3>5. \A u, o \in RunIds : runs'[u].page # 0 /\ runs'[u].page = runs'[o].page => u = o
      BY <2>3, <2>4, <3>1, <3>2 DEF Owned
    <3>6. \A o \in PageNumbers : task[o] # 0 => runs'[task[o]].page = o
      <4> SUFFICES ASSUME NEW o \in PageNumbers, task[o] # 0 PROVE runs'[task[o]].page = o
        OBVIOUS
      <4>1. task[o] \in RunIds /\ runs[task[o]].page = o /\ o # 0
        BY <3>1, RunFacts, PdfConstants DEF Owned, PageNumbers
      <4> QED BY <2>4, <3>3, <4>1
    <3>7. \A o \in PageNumbers : rendered[o] => canvas'[o] = "drawn"
      BY <1>3, <1>6, <3>1 DEF Owned
    <3>8. \A o \in active : canvas'[o] = "allowed" \/ \E u \in RunIds : runs'[u].page = o
      <4> SUFFICES ASSUME NEW o \in active PROVE canvas'[o] = "allowed" \/ \E u \in RunIds : runs'[u].page = o
        OBVIOUS
      <4>1. CASE o = p
        BY <2>3, <2>4, <4>1
      <4>2. CASE o # p
        <5>1. canvas'[o] = canvas[o]
          BY <1>3, <4>2, RunFacts
        <5>2. CASE \E u \in RunIds : runs[u].page = o
          <6>1. PICK u \in RunIds : runs[u].page = o
            BY <5>2
          <6>2. o # 0
            BY RunFacts, PdfConstants DEF PageNumbers
          <6> QED BY <2>4, <3>3, <6>1, <6>2
        <5> QED BY <3>1, <5>1, <5>2 DEF Owned
      <4> QED BY <4>1, <4>2
    <3> QED BY <1>1, <3>4, <3>5, <3>6, <3>7, <3>8 DEF RunsOwnCanvases, Owned
  <2> QED BY <1>1, <1>2, <1>4, <2>5, <2>6 DEF PageInv, NoIdleSlot
<1> QED BY <1>5, <1>6

LEMMA GetPageKeepsPages ==
    ASSUME PageInv, NEW r \in RunIds, GetPage(r)
    PROVE  PageInv'
<1>1. /\ runs[r].stage = "getting"
      /\ runs' = [runs EXCEPT ![r].stage = "drawing"]
      /\ task' = [task EXCEPT ![runs[r].page] = r]
      /\ UNCHANGED <<wanted, stack, active, canvas, rendered, overtaken, status, pdf>>
  BY DEF GetPage, loadVars
<1>2. /\ Slots(stack, active, wanted, canvas) /\ RunsTyped /\ (~overtaken => RunsOwnCanvases)
      /\ NoIdleSlot /\ (wanted # {} => status.kind = "ready")
  BY DEF PageInv
<1>3. PICK e : e = [runs[r] EXCEPT !.stage = "drawing"]
  OBVIOUS
<1>4. PICK p : p = runs[r].page
  OBVIOUS
<1>5. /\ p \in PageNumbers /\ p # 0 /\ runs[r] \in RunRecord
      /\ e \in RunRecord /\ e.page = p /\ e.own = runs[r].own /\ e.load = runs[r].load /\ e.stage = "drawing"
  BY <1>1, <1>3, <1>4, RunFacts DEF RunRecord
<1>6. /\ runs' \in [RunIds -> RunRecord] /\ \A o \in RunIds : runs'[o] = IF o = r THEN e ELSE runs[o]
      /\ task' \in [PageNumbers -> 0..MaxRuns] /\ \A o \in PageNumbers : task'[o] = IF o = p THEN r ELSE task[o]
  BY <1>1, <1>3, <1>4, <1>5, RunFacts
<1>7. RunsTyped'
  BY <1>1, <1>2, <1>5, <1>6 DEF RunsTyped
<1>8. ~overtaken' => RunsOwnCanvases'
  <2> SUFFICES ASSUME ~overtaken PROVE RunsOwnCanvases'
    BY <1>1
  <2>1. Owned(runs, task, rendered, active, canvas)
    BY <1>2 DEF RunsOwnCanvases
  <2>2. \A o \in RunIds : runs'[o].page = runs[o].page /\ runs'[o].own = runs[o].own /\ runs'[o].load = runs[o].load
    BY <1>4, <1>5, <1>6
  <2>3. \A o \in PageNumbers : task'[o] # 0 => runs'[task'[o]].page = o
    <3> SUFFICES ASSUME NEW o \in PageNumbers, task'[o] # 0 PROVE runs'[task'[o]].page = o
      OBVIOUS
    <3>1. CASE o = p
      BY <1>5, <1>6, <3>1
    <3>2. CASE o # p
      <4>1. task'[o] = task[o] /\ task[o] \in RunIds /\ runs[task[o]].page = o
        BY <1>6, <2>1, <3>2, RunFacts DEF Owned
      <4> QED BY <2>2, <4>1
    <3> QED BY <3>1, <3>2
  <2> QED BY <1>1, <2>1, <2>2, <2>3 DEF RunsOwnCanvases, Owned
<1> QED BY <1>1, <1>2, <1>7, <1>8 DEF PageInv, Slots, NoIdleSlot

LEMMA EndRunKeepsPages ==
    ASSUME PageInv, NEW r \in RunIds, EndRun(r)
    PROVE  PageInv'
<1>1. PICK p : p = runs[r].page
  OBVIOUS
<1> DEFINE there == runs[r].load = pdf
           c == IF there /\ p \notin broken THEN CanvasAfter(r) ELSE canvas
<1>2. /\ runs[r].stage \in {"drawing", "getting"}
      /\ runs' = [runs EXCEPT ![r] = NoRun]
      /\ task' = IF there THEN [task EXCEPT ![p] = 0] ELSE task
      /\ rendered' = IF there /\ p \notin broken THEN [rendered EXCEPT ![p] = TRUE] ELSE rendered
      /\ Grant(Freed(p, stack), c)
      /\ UNCHANGED <<wanted, overtaken, status, pdf>>
  BY <1>1 DEF EndRun, SlotAfter, loadVars
<1>3. /\ Slots(stack, active, wanted, canvas) /\ RunsTyped /\ (~overtaken => RunsOwnCanvases)
      /\ NoIdleSlot /\ (wanted # {} => status.kind = "ready")
  BY DEF PageInv
<1>4. p \in PageNumbers /\ p # 0
  BY <1>1, <1>2, RunFacts
<1>5. /\ c \in [PageNumbers -> CanvasStates]
      /\ \A o \in PageNumbers : o # p => c[o] = canvas[o]
      /\ c[p] = canvas[p] \/ (canvas[p] = "blank" /\ c[p] = "drawn")
      /\ there /\ p \notin broken /\ runs[r].own /\ canvas[p] = "blank" => c[p] = "drawn"
  <2>1. c = canvas \/ (runs[r].own /\ canvas[p] = "blank" /\ c = [canvas EXCEPT ![p] = "drawn"])
    BY <1>1 DEF CanvasAfter
  <2>2. there /\ p \notin broken /\ runs[r].own /\ canvas[p] = "blank" => c = [canvas EXCEPT ![p] = "drawn"]
    BY <1>1 DEF CanvasAfter
  <2> HIDE DEF c
  <2> QED BY <1>4, <2>1, <2>2, RunFacts DEF CanvasStates
<1> HIDE DEF c
<1>6. Slots(stack, active \ {p}, wanted, c)
  <2>1. \A i \in 1..Len(stack) : stack[i] \in wanted /\ stack[i] \notin active \ {p} /\ c[stack[i]] = "none"
    <3>1. \A i \in 1..Len(stack) : stack[i] \in wanted /\ stack[i] \notin active /\ canvas[stack[i]] = "none"
                                  /\ stack[i] \in PageNumbers
      BY <1>3 DEF Slots
    <3>2. \A o \in PageNumbers : canvas[o] = "none" => c[o] = "none"
      BY <1>5
    <3> QED BY <3>1, <3>2
  <2>2. \A o \in PageNumbers : c[o] # "none" => o \in wanted
    BY <1>3, <1>5 DEF Slots
  <2>3. Cardinality(active \ {p}) <= MaxRenders
    <3>1. /\ IsFiniteSet(active) /\ Cardinality(active) \in Nat /\ Cardinality(active \ {p}) \in Nat
          /\ active \ {p} \in SUBSET active
      BY RunFacts, PagesFinite
    <3>2. Cardinality(active \ {p}) <= Cardinality(active)
      BY <3>1, FS_Subset
    <3> QED BY <1>3, <3>1, <3>2, PdfConstants DEF Slots
  <2> QED BY <1>3, <1>5, <2>1, <2>2, <2>3 DEF Slots
<1>7. Slots(stack', active', wanted, canvas') /\ NoIdleSlot' /\ Granted(active \ {p}, c)
  BY <1>2, <1>3, <1>4, <1>6, GrantFreed DEF NoIdleSlot
<1>8. \A o \in RunIds : runs'[o] = IF o = r THEN NoRun ELSE runs[o]
  BY <1>2, RunFacts
<1>9. RunsTyped'
  <2>1. NoRun \in RunRecord /\ NoRun.page = 0 /\ NoRun.stage = "free"
    BY PdfConstants DEF NoRun, RunRecord
  <2>2. runs' \in [RunIds -> RunRecord]
    BY <1>2, <2>1, RunFacts
  <2>3. task' \in [PageNumbers -> 0..MaxRuns] /\ rendered' \in [PageNumbers -> BOOLEAN]
    BY <1>2, <1>4, RunFacts
  <2> QED BY <1>2, <1>3, <1>8, <2>1, <2>2, <2>3 DEF RunsTyped
<1>10. ~overtaken' => RunsOwnCanvases'
  <2> SUFFICES ASSUME ~overtaken PROVE RunsOwnCanvases'
    BY <1>2
  <2>1. Owned(runs, task, rendered, active, canvas)
    BY <1>3 DEF RunsOwnCanvases
  <2>2. there /\ runs[r].own /\ canvas[p] = "blank"
    BY <1>1, <1>4, <2>1 DEF Owned
  <2>3. /\ \A o \in PageNumbers : task'[o] = IF o = p THEN 0 ELSE task[o]
        /\ \A o \in PageNumbers : rendered'[o] = IF o = p /\ p \notin broken THEN TRUE ELSE rendered[o]
    BY <1>2, <1>4, <2>2, RunFacts
  <2>4. \A o \in RunIds : o # r /\ runs[o].page # 0 => runs[o].page # p
    BY <1>1, <2>1 DEF Owned
  <2>5. \A o \in RunIds : runs'[o].page # 0 => o # r /\ runs'[o] = runs[o] /\ runs[o].page \in PageNumbers
    BY <1>8, RunFacts DEF NoRun
  <2>6. \A o \in RunIds : runs'[o].page # 0 => runs'[o].own /\ runs'[o].load = pdf /\ c[runs'[o].page] = "blank"
    BY <1>5, <2>1, <2>4, <2>5 DEF Owned
  <2>7. \A u, o \in RunIds : runs'[u].page # 0 /\ runs'[u].page = runs'[o].page => u = o
    BY <2>1, <2>5 DEF Owned
  <2>8. \A o \in PageNumbers : task'[o] # 0 => runs'[task'[o]].page = o
    <3> SUFFICES ASSUME NEW o \in PageNumbers, task'[o] # 0 PROVE runs'[task'[o]].page = o
      OBVIOUS
    <3>1. o # p /\ task'[o] = task[o] /\ task[o] # 0
      BY <2>3
    <3>2. task[o] \in RunIds /\ runs[task[o]].page = o
      BY <2>1, <3>1, RunFacts DEF Owned
    <3>3. task[o] # r
      BY <1>1, <3>1, <3>2
    <3> QED BY <1>8, <3>1, <3>2, <3>3
  <2>9. \A o \in PageNumbers : rendered'[o] => c[o] = "drawn"
    <3>1. ~rendered[p]
      BY <1>4, <2>1, <2>2 DEF Owned
    <3> SUFFICES ASSUME NEW o \in PageNumbers, rendered'[o] PROVE c[o] = "drawn"
      OBVIOUS
    <3>2. CASE o = p /\ p \notin broken
      BY <1>5, <2>2, <3>2
    <3>3. CASE ~(o = p /\ p \notin broken)
      <4>1. rendered'[o] = rendered[o]
        BY <2>3, <3>3
      <4>2. rendered[o]
        BY <4>1
      <4>3. o # p /\ canvas[o] = "drawn"
        BY <2>1, <3>1, <4>2 DEF Owned
      <4> QED BY <1>5, <4>3
    <3> QED BY <3>2, <3>3
  <2>10. \A o \in active \ {p} : c[o] = "allowed" \/ \E u \in RunIds : runs'[u].page = o
    <3> SUFFICES ASSUME NEW o \in active, o # p PROVE c[o] = "allowed" \/ \E u \in RunIds : runs'[u].page = o
      OBVIOUS
    <3>1. c[o] = canvas[o]
      BY <1>5, RunFacts
    <3>2. CASE \E u \in RunIds : runs[u].page = o
      BY <1>1, <1>8, <3>2
    <3> QED BY <2>1, <3>1, <3>2 DEF Owned
  <2>11. Owned(runs', task', rendered', active \ {p}, c)
    BY <2>6, <2>7, <2>8, <2>9, <2>10 DEF Owned
  <2>12. active \ {p} \in SUBSET PageNumbers
    BY RunFacts
  <2> QED BY <1>2, <1>7, <1>9, <2>11, <2>12, GrantKeepsOwned
<1> QED BY <1>2, <1>3, <1>7, <1>9, <1>10 DEF PageInv

-----------------------------------------------------------------------------
(* The PDF viewer: theorems.                                               *)

\* Nothing of any page, and no run.
LEMMA NoPagesYet ==
    ASSUME wanted = {}, stack = <<>>, active = {}, overtaken = FALSE,
           canvas = [p \in PageNumbers |-> "none"], task = [p \in PageNumbers |-> 0],
           rendered = [p \in PageNumbers |-> FALSE], runs = [r \in RunIds |-> NoRun]
    PROVE  PageInv
<1>1. Slots(stack, active, wanted, canvas)
  <2>1. <<>> \in Seq(PageNumbers) /\ Len(<<>>) = 0 /\ Cardinality({}) = 0
    BY EmptySeq, FS_EmptySet
  <2>2. canvas \in [PageNumbers -> CanvasStates] /\ \A p \in PageNumbers : canvas[p] = "none"
    BY DEF CanvasStates
  <2>3. 1..0 = {} /\ 0 <= MaxRenders
    BY PdfConstants
  <2> QED BY <2>1, <2>2, <2>3 DEF Slots
<1>2. RunsTyped
  <2>1. NoRun \in RunRecord /\ NoRun.page = 0 /\ NoRun.stage = "free" /\ 0 \in 0..MaxRuns
    BY PdfConstants DEF NoRun, RunRecord
  <2> QED BY <2>1 DEF RunsTyped
<1>3. RunsOwnCanvases
  BY DEF RunsOwnCanvases, Owned, NoRun
<1> QED BY <1>1, <1>2, <1>3 DEF PageInv, NoIdleSlot

LEMMA PdfStarts ==
    ASSUME PdfInit
    PROVE  PdfIInv
<1>1. PICK e : e = [stage |-> "opening", cancelled |-> FALSE]
  OBVIOUS
<1>2. e \in LoadRecord /\ e.stage = "opening" /\ ~e.cancelled /\ loads = <<e>>
  BY <1>1 DEF PdfInit, LoadRecord, LoadStages
<1>3. loads \in Seq(LoadRecord) /\ Len(loads) = 1 /\ loads[1] = e
  BY <1>2
<1>4. status = [kind |-> "loading", of |-> 1, prompt |-> 0] /\ pdf = 0 /\ opened = {} /\ Latest = 1
  BY <1>3 DEF PdfInit, Latest, Starting
<1>5. status \in LoadStatus /\ status.kind = "loading" /\ status.of = 1 /\ status.prompt = 0
  BY <1>4 DEF LoadStatus, LoadKinds
<1>6. LoadInv
  <2>1. LoadsTyped
    BY <1>3, <1>4, <1>5 DEF LoadsTyped, LoadRecord
  <2>2. LatestOnly
    BY <1>2, <1>3, <1>4, <1>5 DEF LatestOnly
  <2>3. ShownIsReady
    BY <1>4, <1>5 DEF ShownIsReady
  <2> QED BY <2>1, <2>2, <2>3 DEF LoadInv
<1>7. PageInv
  BY NoPagesYet DEF PdfInit
<1> QED BY <1>6, <1>7 DEF PdfIInv

LEMMA PdfSteps ==
    ASSUME PdfIInv, [PdfNext]_pdfVars
    PROVE  PdfIInv'
<1>1. LoadInv /\ PageInv /\ pdf \in Nat /\ DOMAIN loads = 1..Latest
  BY LoadFacts DEF PdfIInv, LoadInv, ShownIsReady
<1>2. ASSUME UNCHANGED loadVars PROVE LoadInv'
  <2>1. UNCHANGED <<loads, status, pdf, opened>> /\ Latest' = Latest
    BY <1>2 DEF loadVars, Latest
  <2> QED BY <1>1, <2>1 DEF LoadInv, LoadsTyped, LatestOnly, ShownIsReady
<1>3. CASE OpenPdf
  BY <1>1, <1>3, OpenKeepsLoads, PagesGo DEF OpenPdf, PdfIInv
<1>4. CASE ClosePdf
  BY <1>1, <1>4, CloseKeepsLoads, PagesGo DEF ClosePdf, PdfIInv
<1>5. CASE \E l \in DOMAIN loads : AskPassword(l) \/ GivePassword(l) \/ LoadStep(l)
  <2>1. PICK l \in 1..Latest : AskPassword(l) \/ GivePassword(l) \/ LoadStep(l)
    BY <1>1, <1>5
  <2>2. LoadInv' /\ (status.kind = "ready" => status'.kind = "ready" /\ pdf' = pdf)
    BY <1>1, <2>1, LoadingKeepsLoads
  <2>3. UNCHANGED pageVars
    BY <2>1 DEF AskPassword, GivePassword, LoadStep, Opened, Described, LoadFails
  <2> QED BY <1>1, <2>2, <2>3, PagesOutlive DEF PdfIInv
<1>6. CASE \E p \in PageNumbers : Intersect(p) \/ PageStep(p)
  <2>1. PICK p \in PageNumbers : Intersect(p) \/ PageStep(p)
    BY <1>6
  <2>2. LoadInv'
    BY <1>2, <2>1 DEF Intersect, PageStep, Want, Unwant, Mount
  <2>3. CASE Intersect(p)
    <3>1. UNCHANGED pageVars /\ UNCHANGED <<status, pdf>>
      BY <2>3 DEF Intersect, loadVars
    <3> QED BY <1>1, <2>2, <3>1, PagesOutlive DEF PdfIInv
  <2>4. CASE PageStep(p)
    BY <1>1, <2>2, <2>4, WantKeepsPages, UnwantKeepsPages, MountKeepsPages DEF PageStep, PdfIInv
  <2> QED BY <2>1, <2>3, <2>4
<1>7. CASE \E s \in SUBSET PageNumbers : Velocity(s)
  <2>1. UNCHANGED loadVars /\ UNCHANGED pageVars /\ UNCHANGED <<status, pdf>>
    BY <1>7 DEF Velocity, loadVars
  <2> QED BY <1>1, <1>2, <2>1, PagesOutlive DEF PdfIInv
<1>8. CASE \E r \in RunIds : RunStep(r)
  <2>1. PICK r \in RunIds : RunStep(r)
    BY <1>8
  <2>2. UNCHANGED loadVars
    BY <2>1 DEF RunStep, GetPage, EndRun
  <2> QED BY <1>1, <1>2, <2>1, <2>2, GetPageKeepsPages, EndRunKeepsPages DEF RunStep, PdfIInv
<1>9. CASE UNCHANGED pdfVars
  <2>1. UNCHANGED loadVars /\ UNCHANGED pageVars /\ UNCHANGED <<status, pdf>>
    BY <1>9 DEF pdfVars, loadVars, pageVars
  <2> QED BY <1>1, <1>2, <2>1, PagesOutlive DEF PdfIInv
<1> QED BY <1>3, <1>4, <1>5, <1>6, <1>7, <1>8, <1>9 DEF PdfNext

LEMMA PdfInvariant == PdfSpec => []PdfIInv
<1>1. PdfInit => PdfIInv
  BY PdfStarts
<1>2. PdfIInv /\ [PdfNext]_pdfVars => PdfIInv'
  BY PdfSteps
<1> QED BY <1>1, <1>2, PTL DEF PdfSpec

\* A stack whose requests are of different pages holds as many as it has pages.
LEMMA DistinctCount ==
    ASSUME NEW q \in Seq(PageNumbers), \A i, j \in 1..Len(q) : q[i] = q[j] => i = j
    PROVE  Len(q) = Cardinality(ToSet(q))
<1>1. Len(q) \in Nat /\ DOMAIN q = 1..Len(q) /\ q \in [1..Len(q) -> PageNumbers]
  BY LenProperties
<1>2. ToSet(q) = {q[i] : i \in 1..Len(q)}
  BY <1>1 DEF ToSet
<1>3. q \in [1..Len(q) -> ToSet(q)]
  BY <1>1, <1>2
<1>4. q \in Bijection(1..Len(q), ToSet(q))
  BY <1>1, <1>2, <1>3 DEF Bijection, Injection, Surjection, IsInjective
<1>5. ExistsBijection(1..Len(q), ToSet(q))
  BY <1>4 DEF ExistsBijection
<1> QED BY <1>1, <1>5, FS_CountingElements

LEMMA PdfIInvIsTyped == PdfIInv => PdfTypeOK
<1> SUFFICES ASSUME PdfIInv PROVE PdfTypeOK
  OBVIOUS
<1>1. LoadsTyped /\ LatestOnly /\ ShownIsReady /\ Slots(stack, active, wanted, canvas)
  BY DEF PdfIInv, LoadInv, PageInv
<1>2. Latest \in Nat \ {0} /\ DOMAIN loads = 1..Latest /\ Latest \in 1..Latest
  BY LoadFacts DEF PdfIInv
<1>3. /\ status.kind \in {"loading", "ready", "error", "closed"}
      /\ status.of \in DOMAIN loads /\ status.prompt \in 0..Latest
  BY <1>1, <1>2 DEF LoadsTyped, LoadStatus, LoadKinds, LatestOnly
<1>4. pdf \in 0..Latest /\ opened \subseteq DOMAIN loads
  BY <1>1, <1>2 DEF ShownIsReady, LatestOnly
<1>5. stack \in Seq(PageNumbers) /\ \A i, j \in 1..Len(stack) : stack[i] = stack[j] => i = j
  BY <1>1 DEF Slots
<1>6. Len(stack) = Cardinality(ToSet(stack))
  BY <1>5, DistinctCount
<1>7. ToSet(stack) \subseteq wanted \ active
  <2>1. DOMAIN stack = 1..Len(stack)
    BY <1>5, LenProperties
  <2> QED BY <1>1, <2>1 DEF ToSet, Slots
<1> QED BY <1>1, <1>3, <1>4, <1>6, <1>7 DEF PdfTypeOK, Slots

\* The state of the viewer is well formed, and no page holds both a slot and a
\* request (PdfViewer.tsx:161-196).
THEOREM PdfTyped == PdfSpec => []PdfTypeOK
  BY PdfIInvIsTyped, PdfInvariant, PTL

LEMMA PdfIInvHasSlots == PdfIInv => SlotsAreSound
<1> SUFFICES ASSUME PdfIInv PROVE SlotsAreSound
  OBVIOUS
<1>1. NoIdleSlot
  BY DEF PdfIInv, PageInv
<1>2. SlotsAreInUse
  <2> SUFFICES ASSUME ~overtaken, NEW p \in active
               PROVE  canvas[p] = "allowed" \/ \E r \in RunsOf(p) : runs[r].own
    BY DEF SlotsAreInUse
  <2>1. Owned(runs, task, rendered, active, canvas) /\ p \in PageNumbers /\ p # 0
    BY RunFacts, PdfConstants DEF PdfIInv, PageInv, RunsOwnCanvases, PageNumbers
  <2>2. CASE \E r \in RunIds : runs[r].page = p
    BY <2>1, <2>2 DEF Owned, RunsOf
  <2> QED BY <2>1, <2>2 DEF Owned
<1> QED BY <1>1, <1>2 DEF SlotsAreSound

\* A slot is idle only when nothing waits for one, and as long as no run outlives
\* its canvas a page that holds one is drawn or about to be (PdfViewer.tsx:161-200,
\* 797-805).
THEOREM SlotsSound == PdfSpec => []SlotsAreSound
  BY PdfIInvHasSlots, PdfInvariant, PTL

LEMMA PdfIInvIsLatest == PdfIInv => SourceIsLatest
BY DEF PdfIInv, LoadInv, LatestOnly, ShownIsReady, SourceIsLatest, StatusIsOfLatest, AbandonedAreClosed

\* Whatever loads overlap, the loading state and the document shown are of the
\* latest source, and only its document is open (PdfViewer.tsx:345-428).  A
\* password prompt may be of an earlier one: one under way when its load was
\* cancelled still comes up.
THEOREM LatestSource == PdfSpec => []SourceIsLatest
  BY PdfIInvIsLatest, PdfInvariant, PTL

-----------------------------------------------------------------------------
(* The three parts put together (MCClientManagement): a step is one of one *)
(* of them, and the others rest.                                           *)

managementVars == <<part, group, catalogVars, settingsVars, pdfVars>>
ManagementIInv == CatalogIInv /\ SettingsIInv /\ PdfIInv

\* No PDF is open and none will be.
LEMMA PdfAtRest == ASSUME PdfRests PROVE PdfIInv
<1>1. PICK e : e = [stage |-> "ended", cancelled |-> TRUE]
  OBVIOUS
<1>2. e \in LoadRecord /\ e.stage = "ended" /\ e.cancelled /\ loads = <<e>>
  BY <1>1 DEF PdfRests, LoadRecord, LoadStages
<1>3. loads \in Seq(LoadRecord) /\ Len(loads) = 1 /\ loads[1] = e
  BY <1>2
<1>4. status = [kind |-> "closed", of |-> 1, prompt |-> 0] /\ pdf = 0 /\ opened = {} /\ Latest = 1
  BY <1>3 DEF PdfRests, Latest
<1>5. status \in LoadStatus /\ status.kind = "closed" /\ status.of = 1 /\ status.prompt = 0
  BY <1>4 DEF LoadStatus, LoadKinds
<1>6. LoadInv
  <2>1. LoadsTyped
    BY <1>3, <1>4, <1>5 DEF LoadsTyped, LoadRecord
  <2>2. LatestOnly
    BY <1>2, <1>3, <1>4, <1>5 DEF LatestOnly
  <2>3. ShownIsReady
    BY <1>4, <1>5 DEF ShownIsReady
  <2> QED BY <2>1, <2>2, <2>3 DEF LoadInv
<1>7. PageInv
  BY NoPagesYet DEF PdfRests
<1> QED BY <1>6, <1>7 DEF PdfIInv

LEMMA ManagementInit == MCInit => ManagementIInv
<1>1. SUFFICES ASSUME MCInit PROVE ManagementIInv
  OBVIOUS
<1>2. CatalogIInv
  BY <1>1, CatalogInitInvariant DEF MCInit, CatalogAtFirst, CatalogRests
<1>3. SettingsIInv
  BY <1>1, SettingsInitInvariant DEF MCInit, SettingsAtFirst, SettingsRests
<1>4. PdfIInv
  BY <1>1, PdfStarts, PdfAtRest DEF MCInit, PdfAtFirst
<1> QED BY <1>2, <1>3, <1>4 DEF ManagementIInv

\* A step of the three is one of each part, or leaves it alone.
LEMMA ManagementSteps ==
  [MCNext]_managementVars => [CatalogNext]_catalogVars /\ [SettingsNext]_settingsVars /\ [PdfNext]_pdfVars
BY DEF MCNext, SettingsTurn, managementVars

LEMMA ManagementInvariant == MCSpec => []ManagementIInv
<1>1. ManagementIInv /\ [MCNext]_managementVars => ManagementIInv'
  BY ManagementSteps, CatalogStepInvariant, SettingsStepInvariant, PdfSteps DEF ManagementIInv
<1> QED BY <1>1, ManagementInit, PTL DEF MCSpec, managementVars

\* The states of the catalog, the settings and the viewer are well formed, whichever
\* of them acts (MCClientManagement).
THEOREM ManagementTyped == MCSpec => []ManagementTypeOK
<1>1. ManagementIInv => ManagementTypeOK
  BY CatalogIInvIsTyped, SettingsIInvIsTyped, PdfIInvIsTyped DEF ManagementIInv, ManagementTypeOK
<1> QED BY <1>1, ManagementInvariant, PTL

\* Put together, the lists are the server's once all is answered, the buttons are
\* back, the slots are in use and only the latest source is shown.
THEOREM ManagementSound ==
  MCSpec => [](CatalogIsConsistent /\ SettingsAreConsistent /\ SlotsAreSound /\ SourceIsLatest)
<1>1. ManagementIInv => CatalogIsConsistent /\ SettingsAreConsistent /\ SlotsAreSound /\ SourceIsLatest
  BY CatalogIInvIsConsistent, SettingsIInvIsConsistent, PdfIInvHasSlots, PdfIInvIsLatest DEF ManagementIInv
<1> QED BY <1>1, ManagementInvariant, PTL
=============================================================================
