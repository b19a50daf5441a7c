----------------------------- MODULE FolderTree -----------------------------
(***************************************************************************)
(* The folders of a tenant and the folder each document is in, as          *)
(* backend/src/services/folders.rs and the placement operations of         *)
(* services/documents.rs change them.                                      *)
(*                                                                         *)
(* Every request runs in a READ COMMITTED transaction: each SELECT sees    *)
(* what others have committed by then, no row it reads is locked, and its  *)
(* only write comes last.  So a request is a sequence of reads, any other  *)
(* request can come between two of them, and the write, which PostgreSQL   *)
(* checks against foreign keys and unique indexes, is one step.            *)
(***************************************************************************)
EXTENDS Naturals, FiniteSets

CONSTANTS Folders,    \* folder identifiers (Uuid::new_v4: never reused)
          Names,      \* folder names
          Documents,  \* document identifiers
          FileName,   \* FileName[d]: the file name of document d
          Sessions,   \* database connections, one request at a time each
          Root,       \* parent_id or folder_id NULL
          None,       \* no such row yet; a field the request leaves out
          Gone        \* the row was deleted

ASSUME FolderTreeAssumption ==
  /\ Root \notin Folders /\ None \notin Folders /\ Gone \notin Folders
  /\ Root # None /\ Root # Gone /\ None # Gone
  /\ None \notin Names \union Documents
  /\ DOMAIN FileName = Documents

VARIABLES
  parent,   \* parent[f]: its parent, Root, or None or Gone without a row
  name,     \* name[f]
  place,    \* place[d]: its folder, Root, or None without a row
  trashed,  \* documents with deleted_at set
  step,     \* step[s]: the next statement of the request in session s
  req       \* req[s]: what the request asks for and what it has read

folderVars == <<parent, name, place, trashed, step, req>>

Idle == [folder |-> None, doc |-> None, target |-> None, name |-> None,
         oldParent |-> None, oldName |-> None, queue |-> {}, seen |-> {}]

Steps == {"idle", "target", "gather", "name", "update", "documents", "delete",
          "restore"}

Request == [folder : Folders \union {None}, doc : Documents \union {None},
            target : Folders \union {Root, None}, name : Names \union {None},
            oldParent : Folders \union {Root, None},
            oldName : Names \union {None},
            queue : SUBSET Folders, seen : SUBSET Folders]

FolderTypeOK ==
  /\ parent \in [Folders -> Folders \union {Root, None, Gone}]
  /\ name \in [Folders -> Names \union {None}]
  /\ \A f \in Folders : parent[f] \in Folders \union {Root} => name[f] \in Names
  /\ place \in [Documents -> Folders \union {Root, None}]
  /\ trashed \subseteq Documents
  /\ step \in [Sessions -> Steps]
  /\ req \in [Sessions -> Request]

Exists(f) == parent[f] \in Folders \union {Root}
Live(d) == place[d] # None /\ d \notin trashed
Children(f) == {x \in Folders : parent[x] = f}

\* folders_tenant_parent_name_unique_idx, for parents p and names n.
NamesUnique(p, n) ==
  \A x, y \in Folders :
    p[x] \in Folders \union {Root} /\ p[x] = p[y] /\ n[x] = n[y] => x = y

\* documents_tenant_folder_filename_unique, for places p and trash t.
FilesUnique(p, t) ==
  \A d, e \in Documents \ t :
    p[d] # None /\ p[d] = p[e] /\ FileName[d] = FileName[e] => d = e

\* The foreign keys on folders.
Resolves(p) == p = Root \/ (p \in Folders /\ Exists(p))

Goto(s, to, r) ==
  /\ step' = [step EXCEPT ![s] = to]
  /\ req' = [req EXCEPT ![s] = r]

\* The request has answered, with success or an error.
Answer(s) == Goto(s, "idle", Idle)

Unmoved == UNCHANGED <<parent, name, place, trashed>>

-----------------------------------------------------------------------------
(* create_folder and ensure_folder_path                                    *)

\* create_folder, and each segment of ensure_folder_path.  A sibling of that
\* name is returned instead (ON CONFLICT DO NOTHING): no step.
CreateFolder(s, f, p, n) ==
  /\ step[s] = "idle"
  /\ parent[f] = None
  /\ Resolves(p)
  /\ \A x \in Folders : ~(parent[x] = p /\ name[x] = n)
  /\ parent' = [parent EXCEPT ![f] = p]
  /\ name' = [name EXCEPT ![f] = n]
  /\ UNCHANGED <<place, trashed, step, req>>

-----------------------------------------------------------------------------
(* update_folder                                                           *)

\* The folder is read.  p and n are None where the request leaves them out.
BeginUpdate(s, f, p, n) ==
  /\ step[s] = "idle"
  /\ Exists(f)
  /\ p # f
  /\ Goto(s, IF p \in Folders THEN "target" ELSE "name",
          [Idle EXCEPT !.folder = f, !.target = p, !.name = n,
                       !.oldParent = parent[f], !.oldName = name[f]])
  /\ Unmoved

\* The target is looked up; a new parent must not be a descendant.
CheckTarget(s) ==
  LET r == req[s] IN
  /\ step[s] = "target"
  /\ IF ~Exists(r.target) THEN Answer(s)
     ELSE IF r.oldParent = r.target THEN Goto(s, "name", r)
     ELSE Goto(s, "gather", [r EXCEPT !.queue = {r.folder}, !.seen = {r.folder}])
  /\ Unmoved

\* Mutants of GatherChildren: the search stops below the children; folders
\* that have been searched stay in the queue.
GatherOnce(s) ==
  /\ step[s] = "gather"
  /\ \E f \in req[s].queue :
       Goto(s, "gather", [req[s] EXCEPT !.queue = @ \ {f},
                                        !.seen = @ \union Children(f)])
  /\ Unmoved

GatherAgain(s) ==
  /\ step[s] = "gather"
  /\ \E f \in req[s].queue :
       Goto(s, "gather", [req[s] EXCEPT !.queue = @ \union Children(f),
                                        !.seen = @ \union Children(f)])
  /\ Unmoved

\* gather_descendant_folder_ids: one query per folder, no folder is skipped
\* because it has been seen.
GatherChildren(s) ==
  /\ step[s] = "gather"
  /\ \E f \in req[s].queue :
       Goto(s, "gather", [req[s] EXCEPT !.queue = (@ \ {f}) \union Children(f),
                                        !.seen = @ \union Children(f)])
  /\ Unmoved

CheckDescendants(s) ==
  /\ step[s] = "gather"
  /\ req[s].queue = {}
  /\ IF req[s].target \in req[s].seen THEN Answer(s)
     ELSE Goto(s, "name", req[s])
  /\ Unmoved

\* What the update will write: fields the request leaves out are written as
\* they were read.
NextParent(r) == IF r.target = None THEN r.oldParent ELSE r.target
\* Mutant of NewName: a name the request leaves out is written as NULL.
NameAsGiven(r) == r.name
NewName(r) == IF r.name = None THEN r.oldName ELSE r.name

\* Nothing to change, or a sibling at the target has the name.
CheckName(s) ==
  LET r == req[s] IN
  /\ step[s] = "name"
  /\ IF \/ NextParent(r) = r.oldParent /\ NewName(r) = r.oldName
        \/ \E x \in Folders \ {r.folder} :
             parent[x] = NextParent(r) /\ name[x] = NewName(r)
     THEN Answer(s)
     ELSE Goto(s, "update", r)
  /\ Unmoved

\* UPDATE folders by id, parent and name together.
UpdateFolder(s) ==
  LET r == req[s]
      newParents == [parent EXCEPT ![r.folder] = NextParent(r)]
      newNames == [name EXCEPT ![r.folder] = NewName(r)]
  IN /\ step[s] = "update"
     /\ IF /\ Exists(r.folder)
           /\ Resolves(NextParent(r))
           /\ NamesUnique(newParents, newNames)
        THEN parent' = newParents /\ name' = newNames
        ELSE UNCHANGED <<parent, name>>
     /\ Answer(s)
     /\ UNCHANGED <<place, trashed>>

-----------------------------------------------------------------------------
(* delete_folder                                                           *)

\* The folder is there and has no child folders.
BeginDelete(s, f) ==
  /\ step[s] = "idle"
  /\ Exists(f)
  /\ Children(f) = {}
  /\ Goto(s, "documents", [Idle EXCEPT !.folder = f])
  /\ Unmoved

\* Mutant of CheckDocuments: documents are not looked for.
CheckNothing(s) ==
  /\ step[s] = "documents"
  /\ Goto(s, "delete", req[s])
  /\ Unmoved

\* Trashed documents do not count.
CheckDocuments(s) ==
  /\ step[s] = "documents"
  /\ IF \E d \in Documents : Live(d) /\ place[d] = req[s].folder
     THEN Answer(s)
     ELSE Goto(s, "delete", req[s])
  /\ Unmoved

\* Mutant of DeleteFolder: only documents outside the trash leave the folder.
DeleteAroundTrash(s) ==
  LET f == req[s].folder IN
  /\ step[s] = "delete"
  /\ Exists(f)
  /\ parent' = [x \in Folders |-> IF x = f THEN Gone
                                   ELSE IF parent[x] = f THEN Root
                                   ELSE parent[x]]
  /\ place' = [d \in Documents |-> IF place[d] = f /\ Live(d) THEN Root
                                    ELSE place[d]]
  /\ Answer(s)
  /\ UNCHANGED <<name, trashed>>

\* DELETE by id; whatever is in the folder by now goes to the root (ON DELETE
\* SET NULL), unless a name is taken there.
DeleteFolder(s) ==
  LET f == req[s].folder
      newParents == [x \in Folders |-> IF x = f THEN Gone
                                       ELSE IF parent[x] = f THEN Root
                                       ELSE parent[x]]
      newPlaces == [d \in Documents |-> IF place[d] = f THEN Root ELSE place[d]]
  IN /\ step[s] = "delete"
     /\ IF /\ Exists(f)
           /\ NamesUnique(newParents, name)
           /\ FilesUnique(newPlaces, trashed)
        THEN parent' = newParents /\ place' = newPlaces
        ELSE UNCHANGED <<parent, place>>
     /\ Answer(s)
     /\ UNCHANGED <<name, trashed>>

-----------------------------------------------------------------------------
(* Documents in folders                                                    *)

\* upload_document into p: its insert.
AddDocument(s, d, p) ==
  /\ step[s] = "idle"
  /\ place[d] = None
  /\ Resolves(p)
  /\ FilesUnique([place EXCEPT ![d] = p], trashed)
  /\ place' = [place EXCEPT ![d] = p]
  /\ UNCHANGED <<parent, name, trashed, step, req>>

\* move_document (a trashed document too) and bulk_move_documents.
MoveDocuments(s, ds, p) ==
  LET newPlaces == [d \in Documents |-> IF d \in ds THEN p ELSE place[d]] IN
  /\ step[s] = "idle"
  /\ \/ \E d \in Documents : ds = {d} /\ place[d] # None
     \/ ds # {} /\ \A d \in ds : Live(d)
  /\ Resolves(p)
  /\ FilesUnique(newPlaces, trashed)
  /\ place' = newPlaces
  /\ UNCHANGED <<parent, name, trashed, step, req>>

\* trash_document
TrashDocument(s, d) ==
  /\ step[s] = "idle"
  /\ Live(d)
  /\ trashed' = trashed \union {d}
  /\ UNCHANGED <<parent, name, place, step, req>>

\* restore_document reads the document, and the folder it will be in: p, or
\* the one it was in.
BeginRestore(s, d, p) ==
  /\ step[s] = "idle"
  /\ d \in trashed
  /\ p # None => Exists(p)
  /\ Goto(s, "restore",
          [Idle EXCEPT !.doc = d, !.target = IF p = None THEN place[d] ELSE p])
  /\ Unmoved

\* ... and writes both deleted_at and folder_id.
CompleteRestore(s) ==
  LET d == req[s].doc
      newPlaces == [place EXCEPT ![d] = req[s].target]
  IN /\ step[s] = "restore"
     /\ IF Resolves(req[s].target) /\ FilesUnique(newPlaces, trashed \ {d})
        THEN place' = newPlaces /\ trashed' = trashed \ {d}
        ELSE UNCHANGED <<place, trashed>>
     /\ Answer(s)
     /\ UNCHANGED <<parent, name>>

-----------------------------------------------------------------------------
FolderInit ==
  /\ parent = [f \in Folders |-> None]
  /\ name = [f \in Folders |-> None]
  /\ place = [d \in Documents |-> None]
  /\ trashed = {}
  /\ step = [s \in Sessions |-> "idle"]
  /\ req = [s \in Sessions |-> Idle]

Begin(s) ==
  \/ \E f \in Folders :
       \/ \E p \in Folders \union {Root}, n \in Names : CreateFolder(s, f, p, n)
       \/ \E p \in Folders \union {Root, None}, n \in Names \union {None} :
            BeginUpdate(s, f, p, n)
       \/ BeginDelete(s, f)
  \/ \E p \in Folders \union {Root}, ds \in SUBSET Documents :
       MoveDocuments(s, ds, p)
  \/ \E d \in Documents :
       \/ \E p \in Folders \union {Root} : AddDocument(s, d, p)
       \/ TrashDocument(s, d)
       \/ \E p \in Folders \union {None} : BeginRestore(s, d, p)

Continue(s) ==
  \/ CheckTarget(s)
  \/ GatherChildren(s)
  \/ CheckDescendants(s)
  \/ CheckName(s)
  \/ UpdateFolder(s)
  \/ CheckDocuments(s)
  \/ DeleteFolder(s)
  \/ CompleteRestore(s)

FolderNext == \E s \in Sessions : Begin(s) \/ Continue(s)

FolderSpec == FolderInit /\ [][FolderNext]_folderVars

\* A request that has begun goes on: its statements answer.
FairFolderSpec ==
  FolderSpec /\ \A s \in Sessions : WF_folderVars(Continue(s))

-----------------------------------------------------------------------------
(* Properties                                                              *)

\* No folder is above itself: update_folder refuses to "move folder into
\* itself or a descendant".  In any set of folders one has a parent outside.
Forest ==
  \A fs \in (SUBSET Folders) \ {{}} : \E f \in fs : parent[f] \notin fs

\* delete_folder: "folder must be empty before deletion".  A folder that goes
\* takes no folder and no live document out of its place.
EmptyBeforeDeletion ==
  [][\A f \in Folders : Exists(f) /\ parent'[f] = Gone =>
       /\ Children(f) = {}
       /\ \A d \in Documents : Live(d) => place[d] # f]_folderVars

\* Parents and places are folders that exist, although requests write values
\* that they read before others deleted the folder.
ReferencesResolve ==
  /\ \A f \in Folders : Exists(f) => Resolves(parent[f])
  /\ \A d \in Documents : place[d] # None => Resolves(place[d])

\* Every request answers: the search for descendants comes to an end.
RequestsEnd == \A s \in Sessions : step[s] # "idle" ~> step[s] = "idle"
=============================================================================
