---------------------------- MODULE ClientFolders ----------------------------
(***************************************************************************)
(* The folder tree of the web client: FoldersManager with its two records  *)
(* of the folders (byId, and the tree fetched once), the handlers that     *)
(* create, rename, move and delete folders, and the drop of folders on a   *)
(* node, against the folders of the server.                                *)
(*                                                                         *)
(* The tree is a parent for each node; a node whose parents do not lead to *)
(* the root is detached, and no search of the tree finds it.               *)
(***************************************************************************)
EXTENDS Integers

CONSTANTS
    Dirs,           \* folders, those still to be created included
    Top,            \* root
    Gone,           \* no such folder
    MaxFolderCalls, \* bound: handlers awaiting the server at once
    MaxFolderActs   \* bound: user actions, and changes by others

ASSUME FolderConstants ==
    /\ Top \notin Dirs /\ Gone \notin Dirs /\ Top # Gone
    /\ MaxFolderCalls \in Nat \ {0} /\ MaxFolderActs \in Nat

VARIABLES
    dirs,       \* the server's folders: parent and name
    byId,       \* FoldersManager.byId
    tree,       \* treeSnapshot: parents, or not loaded
    chosen,     \* selectedFolder
    creating,   \* creatingFolder
    asks,       \* handlers awaiting the server
    given,      \* history: the ids the server gave out; none is given twice
    raced,      \* history: a change met another call, a navigation or another user
    folderActs  \* actions so far

folderVars == <<dirs, byId, tree, chosen, creating, asks, given, raced, folderActs>>

-----------------------------------------------------------------------------
Asks == 1..MaxFolderCalls
Missing == [parent |-> Gone, name |-> "old"]
Unloaded == [f \in Dirs |-> Gone]
Idle == [op |-> "none", f |-> Top, to |-> Top, rest |-> {}, at |-> Top, stage |-> "free",
         failed |-> FALSE, told |-> [f \in Dirs |-> Missing]]
FreeAsks(a) == {c \in Asks : a[c].op = "none"}
Mutations == {"create", "move", "delete", "rename"}

\* The nodes at or below g: the least set with g that has the children of its
\* members. findNode reaches those below the root.
TreeNodes == Dirs \cup {Top}
ChildClosed(t, S) == \A f \in Dirs : t[f] \in S => f \in S
Within(t, g) ==
    LET closed == {S \in SUBSET TreeNodes : g \in S /\ ChildClosed(t, S)}
    IN  {f \in TreeNodes : \A S \in closed : f \in S}
Reached(t) == Within(t, Top)

Parents(d) == [f \in Dirs |-> d[f].parent]
Loaded == tree.loaded
Known(f) == Loaded /\ f \in Reached(tree.up)

\* isInvalidFolderDrop: into itself or one of its descendants.
IsInvalidDrop(f, g) == g # Top /\ (f = g \/ g \in Within(tree.up, f))

FolderAct == folderActs < MaxFolderActs /\ folderActs' = folderActs + 1

\* A mutation sent beside another call, or a call beside a mutation.
Races(op) == \E c \in Asks : asks[c].op # "none" /\ (op \in Mutations \/ asks[c].op \in Mutations)

Ask(op, f, to, rest) ==
    /\ FreeAsks(asks) # {}
    /\ asks' = [asks EXCEPT ![CHOOSE c \in FreeAsks(asks) : TRUE] =
                  [Idle EXCEPT !.op = op, !.f = f, !.to = to, !.rest = rest, !.at = chosen, !.stage = "sent"]]
    /\ raced' = (raced \/ Races(op))

-----------------------------------------------------------------------------
\* ensureTree on mount: the first request for the tree.
FoldersInit ==
    /\ dirs \in {d \in [Dirs -> [parent : Dirs \cup {Top, Gone}, name : {"old"}]] :
                   Reached(Parents(d)) = {Top} \cup {f \in Dirs : d[f].parent # Gone}}
    /\ byId = [f \in Dirs |-> Missing]
    /\ tree = [loaded |-> FALSE, up |-> Unloaded]
    /\ chosen = Top /\ creating = FALSE
    /\ asks = [c \in Asks |-> IF c = 1 THEN [Idle EXCEPT !.op = "tree", !.stage = "sent"] ELSE Idle]
    /\ given = {f \in Dirs : dirs[f].parent # Gone}
    /\ raced = FALSE
    /\ folderActs = 0

\* ensureTree, by the tree's mount, the bootstrap or the selection's menu: one
\* request until the tree is loaded.
EnsureTree ==
    /\ FolderAct
    /\ ~Loaded /\ \A c \in Asks : asks[c].op # "tree"
    /\ Ask("tree", Top, Top, {})
    /\ UNCHANGED <<dirs, byId, tree, chosen, creating, given>>

\* A listing of the folder: its subfolders are ingested into byId, not the tree.
ListSubfolders ==
    /\ FolderAct /\ Ask("list", chosen, Top, {})
    /\ UNCHANGED <<dirs, byId, tree, chosen, creating, given>>

SelectNode(f) ==
    /\ FolderAct /\ f # chosen /\ f \in Reached(tree.up)
    /\ chosen' = f
    /\ raced' = (raced \/ \E c \in Asks : asks[c].op = "delete")
    /\ UNCHANGED <<dirs, byId, tree, creating, asks, given>>

\* handlePromptCreateFolder: one at a time. The server gives it an id of its own.
CreateFolder(f, g) ==
    /\ FolderAct /\ ~creating
    /\ f \notin given /\ g \in Reached(tree.up)
    /\ creating' = TRUE
    /\ Ask("create", f, g, {})
    /\ UNCHANGED <<dirs, byId, tree, chosen, given>>

RenameFolder(f) ==
    /\ FolderAct /\ Known(f) /\ byId[f].name = "old"
    /\ Ask("rename", f, Top, {})
    /\ UNCHANGED <<dirs, byId, tree, chosen, creating, given>>

DeleteFolder(f) ==
    /\ FolderAct /\ Known(f)
    /\ Ask("delete", f, Top, {})
    /\ UNCHANGED <<dirs, byId, tree, chosen, creating, given>>

\* onDrop: refused as a whole when one source is invalid; the sources that lie
\* elsewhere are then moved one after the other.
DropFolders(fs, g) ==
    /\ FolderAct /\ fs # {} /\ g \in Reached(tree.up)
    /\ \A f \in fs : Known(f) /\ ~IsInvalidDrop(f, g)
    /\ LET rest == {f \in fs : tree.up[f] # g}
       IN  rest # {} /\ Ask("move", CHOOSE f \in rest : TRUE, g, rest \ {CHOOSE f \in rest : TRUE})
    /\ UNCHANGED <<dirs, byId, tree, chosen, creating, given>>

\* --- the server (services/folders.rs, one request at a time) ---------------------
Subfolders(f) == {g \in Dirs : dirs[g].parent = f}
Present(f) == IF f = Top THEN TRUE ELSE dirs[f].parent # Gone
Accepts(f, g) ==
    /\ Present(f)
    /\ Present(g) /\ g \notin Within(Parents(dirs), f)

\* A request served: what it does to the folders, or a refusal.
Changed(op, f, g) ==
    CASE op = "create" -> [dirs EXCEPT ![f].parent = g]
      [] op = "rename" -> [dirs EXCEPT ![f].name = "new"]
      [] op = "move"   -> [dirs EXCEPT ![f].parent = g]
      [] op = "delete" -> [dirs EXCEPT ![f] = Missing]
      [] OTHER         -> dirs
Permitted(op, f, g) ==
    CASE op = "create" -> ~Present(f) /\ Present(g)
      [] op = "rename" -> Present(f)
      [] op = "move"   -> Accepts(f, g)
      [] op = "delete" -> Present(f) /\ Subfolders(f) = {}
      [] OTHER         -> TRUE

ServeFolder(c) ==
    LET f == asks[c].f  g == asks[c].to  op == asks[c].op
    IN  /\ asks[c].stage = "sent"
        /\ \/ /\ Permitted(op, f, g)
              /\ dirs' = Changed(op, f, g)
              /\ asks' = [asks EXCEPT ![c].stage = "answered", ![c].told = dirs']
           \/ /\ asks' = [asks EXCEPT ![c].stage = "answered", ![c].failed = TRUE]
              /\ UNCHANGED dirs
        /\ given' = given \cup {h \in Dirs : dirs'[h].parent # Gone}
        /\ UNCHANGED <<byId, tree, chosen, creating, raced, folderActs>>

\* Another user moves a folder.
OthersMove(f, g) ==
    /\ FolderAct /\ dirs[f].parent # g /\ Accepts(f, g)
    /\ dirs' = [dirs EXCEPT ![f].parent = g]
    /\ raced' = TRUE
    /\ UNCHANGED <<byId, tree, chosen, creating, asks, given>>

\* --- the handlers resume ------------------------------------------------------------
Ingested(told, fs) == [f \in Dirs |-> IF f \in fs THEN told[f] ELSE byId[f]]

\* addNode and moveNode attach to a parent that is found, or drop the node.
Attached(up, f, g) == [up EXCEPT ![f] = IF g \in Reached(up) THEN g ELSE Gone]

\* moveNode: the node is found, taken out of the tree, and only then is its new
\* parent looked for.
\* Slip: the new parent is looked for first.
MovedParentFirst(f, g) ==
    IF f \notin Reached(tree.up) THEN tree.up ELSE Attached(tree.up, f, g)
Moved(f, g) ==
    IF f \notin Reached(tree.up) THEN tree.up
    ELSE Attached([tree.up EXCEPT ![f] = Gone], f, g)

\* addNode, once there is a tree.
Grown(f, g) == IF Loaded THEN [tree EXCEPT !.up = Attached(@, f, g)] ELSE tree

Applied(c) ==
    LET f == asks[c].f  g == asks[c].to  told == asks[c].told
        present == {h \in Dirs : told[h].parent # Gone}
    IN  CASE asks[c].op = "tree" ->
               /\ byId' = Ingested(told, present)
               /\ tree' = [loaded |-> TRUE, up |-> Parents(told)]
          [] asks[c].op = "list" ->
               /\ byId' = Ingested(told, {h \in present : told[h].parent = f})
               /\ UNCHANGED tree
          [] asks[c].op = "create" ->
               /\ byId' = Ingested(told, {f})
               /\ tree' = Grown(f, g)
          [] asks[c].op = "rename" ->
               /\ byId' = IF byId[f] = Missing THEN byId ELSE [byId EXCEPT ![f].name = "new"]
               /\ UNCHANGED tree
          [] asks[c].op = "move" ->
               /\ byId' = IF byId[f] = Missing THEN byId ELSE [byId EXCEPT ![f].parent = g]
               /\ tree' = [tree EXCEPT !.up = Moved(f, g)]
          [] asks[c].op = "delete" ->
               /\ byId' = [byId EXCEPT ![f] = Missing]
               /\ tree' = [tree EXCEPT !.up = IF f \in Reached(@) THEN [@ EXCEPT ![f] = Gone] ELSE @]

\* Deleting the folder that was selected when the handler started selects its
\* parent, as byId has it.
ChosenAfter(c) ==
    IF asks[c].op = "delete" /\ ~asks[c].failed /\ asks[c].at = asks[c].f /\ byId[asks[c].f] # Missing
    THEN byId[asks[c].f].parent
    ELSE IF asks[c].op = "delete" /\ ~asks[c].failed /\ asks[c].at = asks[c].f THEN Top ELSE chosen

CreatingAfter(c) == creating /\ asks[c].op # "create"

\* A drop goes on with its next source, also after a refused one.
NextAsk(c) ==
    IF asks[c].op = "move" /\ asks[c].rest # {}
    THEN LET f == CHOOSE g \in asks[c].rest : TRUE
         IN  [asks EXCEPT ![c] = [Idle EXCEPT !.op = "move", !.f = f, !.to = asks[c].to, !.at = asks[c].at,
                                              !.rest = asks[c].rest \ {f}, !.stage = "sent"]]
    ELSE [asks EXCEPT ![c] = Idle]

SettleFolder(c) ==
    /\ asks[c].stage = "answered"
    /\ IF asks[c].failed THEN UNCHANGED <<byId, tree>> ELSE Applied(c)
    /\ chosen' = ChosenAfter(c)
    /\ creating' = CreatingAfter(c)
    /\ asks' = NextAsk(c)
    /\ UNCHANGED <<dirs, given, raced, folderActs>>

-----------------------------------------------------------------------------
FoldersNext ==
    \/ EnsureTree \/ ListSubfolders
    \/ \E f \in Dirs \cup {Top} : SelectNode(f)
    \/ \E f \in Dirs : RenameFolder(f) \/ DeleteFolder(f)
    \/ \E f \in Dirs, g \in Dirs \cup {Top} : CreateFolder(f, g) \/ OthersMove(f, g)
    \/ \E fs \in SUBSET Dirs, g \in Dirs \cup {Top} : DropFolders(fs, g)
    \/ \E c \in Asks : ServeFolder(c) \/ SettleFolder(c)

FoldersFairness == \A c \in Asks : WF_folderVars(ServeFolder(c)) /\ WF_folderVars(SettleFolder(c))
FoldersSpec == FoldersInit /\ [][FoldersNext]_folderVars /\ FoldersFairness

-----------------------------------------------------------------------------
\* The shape of the state; the tree is only filled once it was loaded.
FoldersTypeOK ==
    /\ dirs \in [Dirs -> [parent : Dirs \cup {Top, Gone}, name : {"old", "new"}]]
    /\ byId \in [Dirs -> [parent : Dirs \cup {Top, Gone}, name : {"old", "new"}]]
    /\ tree \in [loaded : BOOLEAN, up : [Dirs -> Dirs \cup {Top, Gone}]]
    /\ chosen \in TreeNodes /\ creating \in BOOLEAN /\ given \subseteq Dirs
    /\ ~tree.loaded => tree.up = Unloaded

\* No node of the client's tree is below itself, whatever the order in which
\* the answers to moves of this client arrive and whatever others move
\* (FoldersManager.ts:232-255): it would hide its folders and loop the menus.
ClientTreeIsForest == \A f, g \in Dirs : tree.up[g] = f => f \notin Within(tree.up, g)

\* One change at a time, without others: once everything is answered the tree,
\* byId and the server agree on every parent and name (FoldersManager.ts:181-384).
TreeAgreesWithServer ==
    ~raced /\ Loaded /\ (\A c \in Asks : asks[c].op = "none")
      => /\ tree.up = Parents(dirs)
         /\ byId = dirs

\* Deleting the folder shown never leaves the client in a folder that is gone
\* (useFolderTreeActions.ts:183-204, useDocumentsWorkspace.ts:187-198).
ChosenFolderExists ==
    ~raced /\ (\A c \in Asks : asks[c].op = "none") => Present(chosen)

\* A folder only leaves the tree when a move or a deletion is answered: the
\* tree's mount, the bootstrap and the selection's menu share one request, so
\* no late answer to a second one brings the tree back to what it was before a
\* folder was created (FoldersManager.ts:307-318).
NodesStay ==
    [][\A f \in Dirs : Known(f) /\ ~Known(f)'
         => \E c \in Asks : asks[c].op \in {"move", "delete"} /\ asks'[c] # asks[c]]_folderVars

\* useFolderTreeActions.ts:228-322: the sources of a drop are checked together,
\* before the first is moved; without other calls or users, each move is still
\* acceptable to the server when its turn comes.
DropsAreAcceptable ==
    \A c \in Asks : ~raced /\ asks[c].op = "move" /\ asks[c].stage = "sent" => Accepts(asks[c].f, asks[c].to)

\* The button to create a folder comes back, also after a refused request
\* (FolderTreeContext.tsx:117-138).
CreatingEnds == creating ~> ~creating

\* The client's tree is one the server could have, the folder shown is in it and a
\* drop that was let through is acceptable, whatever answers are under way.
ClientTreeIsSound == ClientTreeIsForest /\ TreeAgreesWithServer /\ ChosenFolderExists /\ DropsAreAcceptable
=============================================================================
