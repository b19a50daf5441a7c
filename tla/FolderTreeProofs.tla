-------------------------- MODULE FolderTreeProofs --------------------------
(***************************************************************************)
(* Proofs about FolderTree, for any set of folders, names and documents.   *)
(* Types and references hold for any number of overlapping requests.  The  *)
(* tree is a forest, and deleted folders were empty, when requests do not  *)
(* overlap (Serial); TLC shows that they need not be otherwise.            *)
(***************************************************************************)
EXTENDS FolderTree, TLAPS

\* There is one session, so each request ends before the next one begins.
Serial == \A s, t \in Sessions : s = t

-----------------------------------------------------------------------------
(* What holds however requests overlap.                                    *)

\* What a request remembers is what its remaining statements need.
ReqOK ==
  /\ \A s \in Sessions :
       /\ step[s] \notin {"idle", "restore"} => req[s].folder \in Folders
       /\ step[s] \in {"target", "gather", "name", "update"} =>
            req[s].oldParent \in Folders \union {Root} /\ req[s].oldName \in Names
       /\ step[s] \in {"target", "gather"} => req[s].target \in Folders
       /\ step[s] = "restore" =>
            /\ req[s].doc \in Documents
            /\ req[s].target \in Folders \union {Root}
            /\ place[req[s].doc] # None
  /\ \A d \in trashed : place[d] # None

TypeInv == FolderTypeOK /\ ReqOK

\* The request of an idle session is a request.
LEMMA IdleRequest == Idle \in Request
  BY DEF Idle, Request

\* Going on to another statement with a well-formed request keeps the types.
LEMMA GotoType ==
  ASSUME step \in [Sessions -> Steps], req \in [Sessions -> Request],
         NEW s \in Sessions, NEW to \in Steps, NEW r \in Request, Goto(s, to, r)
  PROVE  /\ step' \in [Sessions -> Steps]
         /\ req' \in [Sessions -> Request]
         /\ step'[s] = to /\ req'[s] = r
         /\ \A t \in Sessions \ {s} : step'[t] = step[t] /\ req'[t] = req[t]
  BY DEF Goto

\* Types are preserved by the steps that only read.
LEMMA ReadType ==
  ASSUME TypeInv, NEW s \in Sessions, NEW to \in Steps, NEW r \in Request,
         Goto(s, to, r), Unmoved,
         to \notin {"idle", "restore"} => r.folder \in Folders,
         to \in {"target", "gather", "name", "update"} =>
           r.oldParent \in Folders \union {Root} /\ r.oldName \in Names,
         to \in {"target", "gather"} => r.target \in Folders,
         to = "restore" => /\ r.doc \in Documents
                           /\ r.target \in Folders \union {Root}
                           /\ place[r.doc] # None
  PROVE  TypeInv'
<1>1. /\ step' \in [Sessions -> Steps] /\ req' \in [Sessions -> Request]
      /\ step'[s] = to /\ req'[s] = r
      /\ \A t \in Sessions \ {s} : step'[t] = step[t] /\ req'[t] = req[t]
  BY GotoType DEF TypeInv, FolderTypeOK
<1>2. FolderTypeOK'
  BY <1>1 DEF TypeInv, FolderTypeOK, Unmoved
<1>3. ReqOK'
  <2>1. ASSUME NEW t \in Sessions
        PROVE  /\ step'[t] \notin {"idle", "restore"} => req'[t].folder \in Folders
               /\ step'[t] \in {"target", "gather", "name", "update"} =>
                    /\ req'[t].oldParent \in Folders \union {Root}
                    /\ req'[t].oldName \in Names
               /\ step'[t] \in {"target", "gather"} => req'[t].target \in Folders
               /\ step'[t] = "restore" =>
                    /\ req'[t].doc \in Documents
                    /\ req'[t].target \in Folders \union {Root}
                    /\ place'[req'[t].doc] # None
    <3>1. CASE t = s
      BY <3>1, <1>1 DEF Unmoved
    <3>2. CASE t # s
      BY <3>2, <1>1 DEF TypeInv, ReqOK, Unmoved
    <3>. QED
      BY <3>1, <3>2
  <2>. QED
    BY <2>1 DEF TypeInv, ReqOK, Unmoved
<1>. QED
  BY <1>2, <1>3 DEF TypeInv

\* Types are preserved by the statements that begin a request.
LEMMA BeginType ==
  ASSUME TypeInv, NEW s \in Sessions, Begin(s)
  PROVE  TypeInv'
<1> USE FolderTreeAssumption
<1>1. ASSUME NEW f \in Folders, NEW p \in Folders \union {Root}, NEW n \in Names,
             CreateFolder(s, f, p, n)
      PROVE  TypeInv'
  BY <1>1 DEF CreateFolder, TypeInv, FolderTypeOK, ReqOK
<1>2. ASSUME NEW f \in Folders, NEW p \in Folders \union {Root, None},
             NEW n \in Names \union {None}, BeginUpdate(s, f, p, n)
      PROVE  TypeInv'
  <2> DEFINE r == [Idle EXCEPT !.folder = f, !.target = p, !.name = n,
                               !.oldParent = parent[f], !.oldName = name[f]]
             to == IF p \in Folders THEN "target" ELSE "name"
  <2>1. parent[f] \in Folders \union {Root} /\ name[f] \in Names
    BY <1>2 DEF BeginUpdate, Exists, TypeInv, FolderTypeOK
  <2>2. r \in Request /\ r.folder = f /\ r.target = p /\ r.oldParent = parent[f]
        /\ r.oldName = name[f]
    BY <2>1 DEF Idle, Request
  <2>3. to \in Steps /\ to # "restore"
    BY DEF Steps
  <2>4. Goto(s, to, r) /\ Unmoved
    BY <1>2 DEF BeginUpdate
  <2>5. to \in {"target", "gather"} => p \in Folders
    OBVIOUS
  <2> HIDE DEF r, to
  <2>. QED
    BY <2>1, <2>2, <2>3, <2>4, <2>5, ReadType
<1>3. ASSUME NEW f \in Folders, BeginDelete(s, f)
      PROVE  TypeInv'
  <2> DEFINE r == [Idle EXCEPT !.folder = f]
  <2>1. r \in Request /\ r.folder = f
    BY DEF Idle, Request
  <2>2. Goto(s, "documents", r) /\ Unmoved /\ "documents" \in Steps
    BY <1>3 DEF BeginDelete, Steps
  <2> HIDE DEF r
  <2>. QED
    BY <2>1, <2>2, ReadType
<1>4. ASSUME NEW p \in Folders \union {Root}, NEW ds \in SUBSET Documents,
             MoveDocuments(s, ds, p)
      PROVE  TypeInv'
  BY <1>4 DEF MoveDocuments, TypeInv, FolderTypeOK, ReqOK
<1>5. ASSUME NEW d \in Documents, NEW p \in Folders \union {Root}, AddDocument(s, d, p)
      PROVE  TypeInv'
  BY <1>5 DEF AddDocument, TypeInv, FolderTypeOK, ReqOK
<1>6. ASSUME NEW d \in Documents, TrashDocument(s, d)
      PROVE  TypeInv'
  BY <1>6 DEF TrashDocument, Live, TypeInv, FolderTypeOK, ReqOK
<1>7. ASSUME NEW d \in Documents, NEW p \in Folders \union {None}, BeginRestore(s, d, p)
      PROVE  TypeInv'
  <2> DEFINE q == IF p = None THEN place[d] ELSE p
             r == [Idle EXCEPT !.doc = d, !.target = q]
  <2>1. q \in Folders \union {Root} /\ place[d] # None
    BY <1>7 DEF BeginRestore, TypeInv, FolderTypeOK, ReqOK
  <2>2. r \in Request /\ r.doc = d /\ r.target = q
    BY <2>1 DEF Idle, Request
  <2>3. Goto(s, "restore", r) /\ Unmoved /\ "restore" \in Steps
    BY <1>7 DEF BeginRestore, Steps
  <2> HIDE DEF r, q
  <2>. QED
    BY <2>1, <2>2, <2>3, ReadType
<1>. QED
  BY <1>1, <1>2, <1>3, <1>4, <1>5, <1>6, <1>7 DEF Begin

\* Types are preserved by the statements that continue a request.
LEMMA ContinueType ==
  ASSUME TypeInv, NEW s \in Sessions, Continue(s)
  PROVE  TypeInv'
<1> USE FolderTreeAssumption
<1> DEFINE r == req[s]
<1>r. r \in Request
  BY DEF TypeInv, FolderTypeOK
<1>a. \A to \in Steps \ {"restore"} :
        /\ Goto(s, to, r) /\ Unmoved
        /\ step[s] \notin {"idle", "restore"}
        /\ to \in {"target", "gather"} => step[s] \in {"target", "gather"}
        /\ to = "update" => step[s] = "name"
        /\ to = "name" => step[s] \in {"target", "gather"}
        => TypeInv'
  <2> SUFFICES ASSUME NEW to \in Steps \ {"restore"}, Goto(s, to, r), Unmoved,
                      step[s] \notin {"idle", "restore"},
                      to \in {"target", "gather"} => step[s] \in {"target", "gather"},
                      to = "update" => step[s] = "name",
                      to = "name" => step[s] \in {"target", "gather"}
               PROVE  TypeInv'
    OBVIOUS
  <2>. QED
    BY <1>r, ReadType DEF TypeInv, ReqOK
<1>b. Answer(s) /\ Unmoved => TypeInv'
  BY IdleRequest, ReadType DEF Answer, Steps
<1>1. CASE CheckTarget(s)
  <2>1. CASE Answer(s) /\ Unmoved
    BY <2>1, <1>b
  <2>2. CASE Goto(s, "name", r) /\ Unmoved
    BY <2>2, <1>a, <1>1 DEF CheckTarget, Steps
  <2>3. CASE Goto(s, "gather", [r EXCEPT !.queue = {r.folder}, !.seen = {r.folder}]) /\ Unmoved
    <3> DEFINE q == [r EXCEPT !.queue = {r.folder}, !.seen = {r.folder}]
    <3>1. /\ r.folder \in Folders /\ r.target \in Folders
          /\ r.oldParent \in Folders \union {Root} /\ r.oldName \in Names
      BY <1>1 DEF CheckTarget, TypeInv, ReqOK
    <3>2. q \in Request /\ q.folder = r.folder /\ q.target = r.target
          /\ q.oldParent = r.oldParent /\ q.oldName = r.oldName
      BY <3>1, <1>r DEF Request
    <3>3. Goto(s, "gather", q) /\ "gather" \in Steps
      BY <2>3 DEF Steps
    <3> HIDE DEF r, q
    <3>. QED
      BY <2>3, <3>1, <3>2, <3>3, ReadType
  <2>. QED
    BY <1>1, <2>1, <2>2, <2>3 DEF CheckTarget
<1>2. CASE GatherChildren(s)
  <2>1. PICK f \in r.queue :
          Goto(s, "gather", [r EXCEPT !.queue = (@ \ {f}) \union Children(f),
                                      !.seen = @ \union Children(f)])
    BY <1>2 DEF GatherChildren
  <2> DEFINE q == [r EXCEPT !.queue = (@ \ {f}) \union Children(f),
                            !.seen = @ \union Children(f)]
  <2>2. /\ r.folder \in Folders /\ r.target \in Folders
        /\ r.oldParent \in Folders \union {Root} /\ r.oldName \in Names
    BY <1>2 DEF GatherChildren, TypeInv, ReqOK
  <2>3. q \in Request /\ q.folder = r.folder /\ q.target = r.target
        /\ q.oldParent = r.oldParent /\ q.oldName = r.oldName
    BY <1>r DEF Request, Children
  <2>4. Goto(s, "gather", q) /\ "gather" \in Steps /\ Unmoved
    BY <2>1, <1>2 DEF Steps, GatherChildren
  <2> HIDE DEF r, q
  <2>. QED
    BY <2>2, <2>3, <2>4, ReadType
<1>3. CASE CheckDescendants(s)
  BY <1>3, <1>a, <1>b DEF CheckDescendants, Steps
<1>4. CASE CheckName(s)
  BY <1>4, <1>a, <1>b DEF CheckName, Steps
<1>5. CASE CheckDocuments(s)
  BY <1>5, <1>a, <1>b DEF CheckDocuments, Steps
<1>6. ASSUME Answer(s)
      PROVE  /\ step' \in [Sessions -> Steps] /\ req' \in [Sessions -> Request]
             /\ step'[s] = "idle"
             /\ \A t \in Sessions \ {s} : step'[t] = step[t] /\ req'[t] = req[t]
  <2>1. Goto(s, "idle", Idle) /\ "idle" \in Steps
    BY <1>6 DEF Answer, Steps
  <2>. QED
    BY <2>1, IdleRequest, GotoType DEF TypeInv, FolderTypeOK
<1>7. CASE UpdateFolder(s)
  <2>1. /\ r.folder \in Folders
        /\ NextParent(r) \in Folders \union {Root}
        /\ NewName(r) \in Names
    BY <1>7, <1>r DEF UpdateFolder, NextParent, NewName, TypeInv, ReqOK, Request
  <2>2. /\ parent' \in [Folders -> Folders \union {Root, None, Gone}]
        /\ name' \in [Folders -> Names \union {None}]
        /\ \A f \in Folders : parent'[f] \in Folders \union {Root} => name'[f] \in Names
    BY <1>7, <2>1 DEF UpdateFolder, TypeInv, FolderTypeOK
  <2>3. UNCHANGED <<place, trashed>> /\ Answer(s)
    BY <1>7 DEF UpdateFolder
  <2>4. FolderTypeOK'
    BY <2>2, <2>3, <1>6 DEF TypeInv, FolderTypeOK
  <2>5. ReqOK'
    BY <2>3, <1>6 DEF TypeInv, ReqOK
  <2>. QED
    BY <2>4, <2>5 DEF TypeInv
<1>8. CASE DeleteFolder(s)
  <2>1. /\ parent' \in [Folders -> Folders \union {Root, None, Gone}]
        /\ \A f \in Folders : parent'[f] \in Folders \union {Root} => name[f] \in Names
        /\ place' \in [Documents -> Folders \union {Root, None}]
        /\ \A d \in Documents : place[d] # None => place'[d] # None
        /\ UNCHANGED <<name, trashed>> /\ Answer(s)
    <3> DEFINE f == req[s].folder
               newParents == [x \in Folders |-> IF x = f THEN Gone
                                                ELSE IF parent[x] = f THEN Root
                                                ELSE parent[x]]
               newPlaces == [d \in Documents |-> IF place[d] = f THEN Root
                                                 ELSE place[d]]
    <3>1. f \in Folders
      BY <1>8 DEF DeleteFolder, TypeInv, ReqOK
    <3>2. newParents \in [Folders -> Folders \union {Root, None, Gone}]
      BY DEF TypeInv, FolderTypeOK
    <3>3. \A x \in Folders : newParents[x] \in Folders \union {Root} => name[x] \in Names
      <4>1. \A x \in Folders : newParents[x] \in Folders \union {Root} =>
                               parent[x] \in Folders \union {Root}
        BY <3>1
      <4>. QED
        BY <4>1 DEF TypeInv, FolderTypeOK
    <3>4. newPlaces \in [Documents -> Folders \union {Root, None}]
      BY DEF TypeInv, FolderTypeOK
    <3>5. \A d \in Documents : place[d] # None => newPlaces[d] # None
      OBVIOUS
    <3>6. \/ parent' = newParents /\ place' = newPlaces
          \/ UNCHANGED <<parent, place>>
      BY <1>8 DEF DeleteFolder
    <3>7. UNCHANGED <<name, trashed>> /\ Answer(s)
      BY <1>8 DEF DeleteFolder
    <3> HIDE DEF newParents, newPlaces
    <3>. QED
      BY <3>2, <3>3, <3>4, <3>5, <3>6, <3>7 DEF TypeInv, FolderTypeOK
  <2>2. FolderTypeOK'
    BY <2>1, <1>6 DEF TypeInv, FolderTypeOK
  <2>3. ReqOK'
    BY <2>1, <1>6 DEF TypeInv, FolderTypeOK, ReqOK
  <2>. QED
    BY <2>2, <2>3 DEF TypeInv
<1>9. CASE CompleteRestore(s)
  <2>1. /\ place' \in [Documents -> Folders \union {Root, None}]
        /\ \A d \in Documents : place[d] # None => place'[d] # None
        /\ trashed' \subseteq trashed
        /\ UNCHANGED <<parent, name>> /\ Answer(s)
    BY <1>9 DEF CompleteRestore, TypeInv, FolderTypeOK, ReqOK
  <2>2. FolderTypeOK'
    BY <2>1, <1>6 DEF TypeInv, FolderTypeOK
  <2>3. ReqOK'
    BY <2>1, <1>6 DEF TypeInv, FolderTypeOK, ReqOK
  <2>. QED
    BY <2>2, <2>3 DEF TypeInv
<1>. QED
  BY <1>1, <1>2, <1>3, <1>4, <1>5, <1>7, <1>8, <1>9 DEF Continue

\* Types are inductive.
LEMMA NextType == TypeInv /\ [FolderNext]_folderVars => TypeInv'
<1> SUFFICES ASSUME TypeInv, [FolderNext]_folderVars PROVE TypeInv'
  OBVIOUS
<1>1. CASE FolderNext
  BY <1>1, BeginType, ContinueType DEF FolderNext
<1>2. CASE UNCHANGED folderVars
  BY <1>2 DEF folderVars, TypeInv, FolderTypeOK, ReqOK
<1>. QED
  BY <1>1, <1>2

\* The empty tables are well typed.
LEMMA InitType == FolderInit => TypeInv
  BY FolderTreeAssumption, IdleRequest DEF FolderInit, TypeInv, FolderTypeOK, ReqOK, Steps

\* Type correctness: rows and requests stay well formed, and a folder that
\* exists has a name, however requests overlap.
THEOREM FolderTypes == FolderSpec => []FolderTypeOK
<1>1. FolderSpec => []TypeInv
  BY InitType, NextType, PTL DEF FolderSpec
<1>. QED
  BY <1>1, PTL DEF TypeInv

-----------------------------------------------------------------------------
(* References.                                                             *)

\* Parents and places keep pointing at folders that exist.
LEMMA ReferencesStep ==
  TypeInv /\ ReferencesResolve /\ [FolderNext]_folderVars => ReferencesResolve'
<1> SUFFICES ASSUME TypeInv, ReferencesResolve, [FolderNext]_folderVars
             PROVE  ReferencesResolve'
  OBVIOUS
<1> USE FolderTreeAssumption DEF ReferencesResolve, Resolves, Exists
<1>0. ASSUME UNCHANGED <<parent, place>> PROVE ReferencesResolve'
  BY <1>0, SMTT(60)
<1>1. ASSUME NEW s \in Sessions, Begin(s) PROVE ReferencesResolve'
  <2>1. ASSUME NEW f \in Folders, NEW p \in Folders \union {Root}, NEW n \in Names,
               CreateFolder(s, f, p, n)
        PROVE  ReferencesResolve'
    BY <2>1 DEF CreateFolder, TypeInv, FolderTypeOK
  <2>2. ASSUME NEW p \in Folders \union {Root}, NEW ds \in SUBSET Documents,
               MoveDocuments(s, ds, p)
        PROVE  ReferencesResolve'
    BY <2>2 DEF MoveDocuments, TypeInv, FolderTypeOK
  <2>3. ASSUME NEW d \in Documents, NEW p \in Folders \union {Root}, AddDocument(s, d, p)
        PROVE  ReferencesResolve'
    BY <2>3 DEF AddDocument, TypeInv, FolderTypeOK
  <2>. QED
    BY <1>0, <1>1, <2>1, <2>2, <2>3, ZenonT(60)
    DEF Begin, BeginUpdate, BeginDelete, TrashDocument, BeginRestore, Unmoved
<1>2. ASSUME NEW s \in Sessions, Continue(s) PROVE ReferencesResolve'
  <2>1. CASE UpdateFolder(s)
    BY <2>1 DEF UpdateFolder, TypeInv, FolderTypeOK, ReqOK
  <2>2. CASE DeleteFolder(s)
    BY <2>2 DEF DeleteFolder, TypeInv, FolderTypeOK, ReqOK
  <2>3. CASE CompleteRestore(s)
    BY <2>3 DEF CompleteRestore, TypeInv, FolderTypeOK, ReqOK
  <2>. QED
    BY <1>0, <1>2, <2>1, <2>2, <2>3
    DEF Continue, CheckTarget, GatherChildren, CheckDescendants, CheckName,
        CheckDocuments, Unmoved
<1>. QED
  BY <1>0, <1>1, <1>2 DEF FolderNext, folderVars

\* Stale values that requests write back never leave a parent or a place
\* pointing at a folder that is gone: the foreign keys and ON DELETE SET NULL.
THEOREM References == FolderSpec => []ReferencesResolve
<1>1. FolderInit => ReferencesResolve
  BY FolderTreeAssumption DEF FolderInit, ReferencesResolve, Exists
<1>2. FolderSpec => [](TypeInv /\ ReferencesResolve)
  BY <1>1, InitType, NextType, ReferencesStep, PTL DEF FolderSpec
<1>. QED
  BY <1>2, PTL

-----------------------------------------------------------------------------
(* What holds when requests do not overlap.                                *)

\* Every child of a folder in D is in D.
Closed(D) == \A x \in Folders : parent[x] \in D => x \in D

\* Folder f can be put under p: p is where it is, or outside a set of folders
\* that holds f and all that is below it.
SafeMove(f, p) ==
  \/ p \in {Root, parent[f]}
  \/ \E D \in SUBSET Folders : f \in D /\ p \notin D /\ Closed(D)

\* What a request has read is still so.
ReadOK ==
  \A s \in Sessions :
    LET r == req[s] IN
    /\ step[s] \in {"target", "gather", "name", "update"} =>
         r.oldParent = parent[r.folder]
    /\ step[s] = "gather" =>
         /\ r.folder \in r.seen
         /\ r.queue \subseteq r.seen
         /\ \A x \in Folders : parent[x] \in r.seen \ r.queue => x \in r.seen
    /\ step[s] \in {"name", "update"} => SafeMove(r.folder, NextParent(r))
    /\ step[s] \in {"documents", "delete"} => Children(r.folder) = {}
    /\ step[s] = "delete" => \A d \in Documents : Live(d) => place[d] # r.folder

SerialInv == TypeInv /\ ReferencesResolve /\ ReadOK /\ Forest

\* A request that begins has read what it remembers.
LEMMA BeginReads ==
  ASSUME Serial, SerialInv, NEW s \in Sessions, Begin(s)
  PROVE  ReadOK'
<1>1. \A t \in Sessions : t = s
  BY DEF Serial
<1>2. step \in [Sessions -> Steps] /\ req \in [Sessions -> Request]
  BY DEF SerialInv, TypeInv, FolderTypeOK
<1>3. CASE step'[s] = "idle"
  BY <1>1, <1>3 DEF ReadOK
<1>4. ASSUME NEW f \in Folders, NEW p \in Folders \union {Root, None},
             NEW n \in Names \union {None}, BeginUpdate(s, f, p, n)
      PROVE  ReadOK'
  <2> DEFINE r == [Idle EXCEPT !.folder = f, !.target = p, !.name = n,
                               !.oldParent = parent[f], !.oldName = name[f]]
  <2>1. /\ req'[s] = r
        /\ step'[s] = IF p \in Folders THEN "target" ELSE "name"
        /\ UNCHANGED <<parent, place, trashed>>
    BY <1>2, <1>4 DEF BeginUpdate, Goto, Unmoved
  <2>2. r.folder = f /\ r.oldParent = parent[f] /\ r.target = p
    BY DEF Idle
  <2> HIDE DEF r
  <2>3. p \notin Folders => NextParent(r) \in {Root, parent[f]}
    BY <2>2 DEF NextParent
  <2>. QED
    BY <1>1, <2>1, <2>2, <2>3 DEF ReadOK, SafeMove
<1>5. ASSUME NEW f \in Folders, BeginDelete(s, f)
      PROVE  ReadOK'
  <2>1. /\ req'[s] = [Idle EXCEPT !.folder = f] /\ step'[s] = "documents"
        /\ Children(f) = {} /\ UNCHANGED <<parent, place, trashed>>
    BY <1>2, <1>5 DEF BeginDelete, Goto, Unmoved
  <2>2. req'[s].folder = f
    BY <2>1 DEF Idle
  <2>. QED
    BY <1>1, <2>1, <2>2 DEF ReadOK, Children
<1>6. ASSUME NEW d \in Documents, NEW p \in Folders \union {None}, BeginRestore(s, d, p)
      PROVE  ReadOK'
  <2>1. step'[s] = "restore"
    BY <1>2, <1>6 DEF BeginRestore, Goto
  <2>. QED
    BY <1>1, <2>1 DEF ReadOK
<1>. QED
  BY <1>3, <1>4, <1>5, <1>6
  DEF Begin, CreateFolder, MoveDocuments, AddDocument, TrashDocument

\* The search for descendants leaves a closed set.
LEMMA GatherReads ==
  ASSUME Serial, SerialInv, NEW s \in Sessions, GatherChildren(s)
  PROVE  ReadOK'
<1>1. \A t \in Sessions : t = s
  BY DEF Serial
<1> DEFINE r == req[s]
<1>2. /\ step \in [Sessions -> Steps] /\ req \in [Sessions -> Request]
      /\ r.queue \subseteq Folders /\ r.seen \subseteq Folders
  BY DEF SerialInv, TypeInv, FolderTypeOK, Request
<1>3. PICK f \in r.queue :
        Goto(s, "gather", [r EXCEPT !.queue = (@ \ {f}) \union Children(f),
                                    !.seen = @ \union Children(f)])
  BY DEF GatherChildren
<1>4. /\ step'[s] = "gather" /\ UNCHANGED parent
      /\ req'[s] = [r EXCEPT !.queue = (@ \ {f}) \union Children(f),
                             !.seen = @ \union Children(f)]
  BY <1>2, <1>3 DEF Goto, GatherChildren, Unmoved
<1>5. /\ req'[s].folder = r.folder /\ req'[s].oldParent = r.oldParent
      /\ req'[s].queue = (r.queue \ {f}) \union Children(f)
      /\ req'[s].seen = r.seen \union Children(f)
  BY <1>2, <1>4 DEF Request
<1>6. /\ r.oldParent = parent[r.folder] /\ r.folder \in r.seen
      /\ r.queue \subseteq r.seen
      /\ \A x \in Folders : parent[x] \in r.seen \ r.queue => x \in r.seen
  BY DEF GatherChildren, SerialInv, ReadOK
<1>7. \A x \in Folders : parent[x] \in req'[s].seen \ req'[s].queue => x \in req'[s].seen
  BY <1>5, <1>6 DEF Children
<1>. QED
  BY <1>1, <1>4, <1>5, <1>6, <1>7 DEF ReadOK

\* A request that goes on still remembers what is so.
LEMMA ContinueReads ==
  ASSUME Serial, SerialInv, NEW s \in Sessions, Continue(s)
  PROVE  ReadOK'
<1>1. \A t \in Sessions : t = s
  BY DEF Serial
<1>2. step \in [Sessions -> Steps] /\ req \in [Sessions -> Request]
  BY DEF SerialInv, TypeInv, FolderTypeOK
<1> DEFINE r == req[s]
<1>3. ASSUME Answer(s) PROVE ReadOK'
  <2>1. step'[s] = "idle"
    BY <1>2, <1>3 DEF Answer, Goto
  <2>. QED
    BY <1>1, <2>1 DEF ReadOK
<1>4. ASSUME step[s] \in {"target", "gather"}, Goto(s, "name", r), Unmoved,
             SafeMove(r.folder, NextParent(r))
      PROVE  ReadOK'
  <2>1. step'[s] = "name" /\ req'[s] = r /\ UNCHANGED parent
    BY <1>2, <1>4 DEF Goto, Unmoved
  <2>2. r.oldParent = parent[r.folder]
    BY <1>4 DEF SerialInv, ReadOK
  <2>. QED
    BY <1>1, <1>4, <2>1, <2>2 DEF ReadOK, SafeMove, Closed
<1>5. CASE CheckTarget(s)
  <2>1. r.oldParent = parent[r.folder] /\ r.target \in Folders
    BY <1>5 DEF CheckTarget, SerialInv, ReadOK, TypeInv, ReqOK
  <2>2. CASE Goto(s, "name", r) /\ r.oldParent = r.target
    <3>1. NextParent(r) = parent[r.folder]
      BY <2>1, <2>2, FolderTreeAssumption DEF NextParent
    <3>. QED
      BY <1>4, <1>5, <2>2, <3>1 DEF CheckTarget, SafeMove
  <2>3. CASE Goto(s, "gather", [r EXCEPT !.queue = {r.folder}, !.seen = {r.folder}])
    <3>1. step'[s] = "gather" /\ UNCHANGED parent
          /\ req'[s] = [r EXCEPT !.queue = {r.folder}, !.seen = {r.folder}]
      BY <1>2, <1>5, <2>3 DEF Goto, CheckTarget, Unmoved
    <3>2. /\ req'[s].folder = r.folder /\ req'[s].oldParent = r.oldParent
          /\ req'[s].queue = {r.folder} /\ req'[s].seen = {r.folder}
      BY <1>2, <3>1 DEF Request
    <3>. QED
      BY <1>1, <2>1, <3>1, <3>2 DEF ReadOK
  <2>. QED
    BY <1>3, <1>5, <2>2, <2>3 DEF CheckTarget
<1>6. CASE GatherChildren(s)
  BY <1>6, GatherReads
<1>7. CASE CheckDescendants(s)
  <2>1. CASE Goto(s, "name", r) /\ r.target \notin r.seen
    <3>1. r.folder \in r.seen /\ r.seen \in SUBSET Folders /\ Closed(r.seen)
      BY <1>2, <1>7 DEF CheckDescendants, SerialInv, ReadOK, Closed, Request
    <3>2. NextParent(r) = r.target
      BY <1>7, FolderTreeAssumption
      DEF CheckDescendants, NextParent, SerialInv, TypeInv, ReqOK
    <3>. QED
      BY <1>4, <1>7, <2>1, <3>1, <3>2 DEF CheckDescendants, SafeMove
  <2>. QED
    BY <1>3, <1>7, <2>1 DEF CheckDescendants
<1>8. CASE CheckName(s)
  <2>1. CASE Goto(s, "update", r)
    <3>1. step'[s] = "update" /\ req'[s] = r /\ UNCHANGED parent
      BY <1>2, <1>8, <2>1 DEF Goto, CheckName, Unmoved
    <3>2. r.oldParent = parent[r.folder] /\ SafeMove(r.folder, NextParent(r))
      BY <1>8 DEF CheckName, SerialInv, ReadOK
    <3>. QED
      BY <1>1, <3>1, <3>2 DEF ReadOK, SafeMove, Closed
  <2>. QED
    BY <1>3, <1>8, <2>1 DEF CheckName
<1>9. CASE CheckDocuments(s)
  <2>1. CASE Goto(s, "delete", r) /\ \A d \in Documents : Live(d) => place[d] # r.folder
    <3>1. step'[s] = "delete" /\ req'[s] = r /\ UNCHANGED <<parent, place, trashed>>
      BY <1>2, <1>9, <2>1 DEF Goto, CheckDocuments, Unmoved
    <3>2. Children(r.folder) = {}
      BY <1>9 DEF CheckDocuments, SerialInv, ReadOK
    <3>. QED
      BY <1>1, <2>1, <3>1, <3>2 DEF ReadOK, Children, Live
  <2>. QED
    BY <1>3, <1>9, <2>1 DEF CheckDocuments
<1>. QED
  BY <1>3, <1>5, <1>6, <1>7, <1>8, <1>9
  DEF Continue, UpdateFolder, DeleteFolder, CompleteRestore

\* A step of FolderNext that leaves the parents alone keeps the forest; the
\* three that do not are taken one by one.
LEMMA CreateForest ==
  ASSUME SerialInv, NEW s \in Sessions, NEW f \in Folders,
         NEW p \in Folders \union {Root}, NEW n \in Names, CreateFolder(s, f, p, n)
  PROVE  Forest'
<1> SUFFICES ASSUME NEW S \in SUBSET Folders, S # {},
                    \A x \in S : parent'[x] \in S
             PROVE  FALSE
  BY DEF Forest
<1> USE FolderTreeAssumption
<1>1. /\ parent[f] = None
      /\ parent' = [parent EXCEPT ![f] = p]
      /\ parent \in [Folders -> Folders \union {Root, None, Gone}]
      /\ p # f
  BY DEF CreateFolder, Resolves, Exists, SerialInv, TypeInv, FolderTypeOK
<1>2. \A x \in Folders : parent[x] # f
  BY <1>1 DEF SerialInv, ReferencesResolve, Resolves, Exists
<1>3. \A x \in S \ {f} : parent[x] \in S \ {f}
  BY <1>1, <1>2
<1>4. S \ {f} = {}
  BY <1>3 DEF SerialInv, Forest
<1>. QED
  BY <1>1, <1>4

\* Moving a folder where it is safe closes no cycle: in a set of folders whose
\* parents are all in it, those that are not below the folder would already
\* have been such a set.
LEMMA UpdateForest ==
  ASSUME SerialInv, NEW s \in Sessions, UpdateFolder(s)
  PROVE  Forest'
<1> DEFINE f == req[s].folder
           p == NextParent(req[s])
<1>1. /\ f \in Folders /\ SafeMove(f, p)
      /\ parent \in [Folders -> Folders \union {Root, None, Gone}]
  BY DEF UpdateFolder, SerialInv, TypeInv, ReqOK, ReadOK, FolderTypeOK
<1>2. parent' = parent \/ parent' = [parent EXCEPT ![f] = p]
  BY DEF UpdateFolder
<1> HIDE DEF f, p
<1> SUFFICES ASSUME NEW S \in SUBSET Folders, S # {},
                    \A x \in S : parent'[x] \in S
             PROVE  FALSE
  BY DEF Forest
<1>3. PICK x \in S : parent[x] \notin S
  BY DEF SerialInv, Forest
<1>4. /\ x = f /\ p \in S /\ p # parent[f]
      /\ \A y \in S \ {f} : parent[y] \in S
  BY <1>1, <1>2, <1>3
<1>5. p # Root
  BY <1>4, FolderTreeAssumption
<1>6. PICK D \in SUBSET Folders : f \in D /\ p \notin D /\ Closed(D)
  BY <1>1, <1>4, <1>5 DEF SafeMove
<1>7. p \in S \ D
  BY <1>4, <1>6
<1>8. \A y \in S \ D : parent[y] \in S \ D
  BY <1>4, <1>6 DEF Closed
<1>. QED
  BY <1>7, <1>8 DEF SerialInv, Forest

\* Deleting a folder closes no cycle: its children go to the root.
LEMMA DeleteForest ==
  ASSUME SerialInv, NEW s \in Sessions, DeleteFolder(s)
  PROVE  Forest'
<1> SUFFICES ASSUME NEW S \in SUBSET Folders, S # {},
                    \A x \in S : parent'[x] \in S
             PROVE  FALSE
  BY DEF Forest
<1>1. \A x \in Folders : parent'[x] \in {parent[x], Root, Gone}
  BY DEF DeleteFolder
<1>2. \A x \in S : parent[x] \in S
  BY <1>1, FolderTreeAssumption
<1>. QED
  BY <1>2 DEF SerialInv, Forest

\* The tree stays a forest.
LEMMA ForestStep ==
  SerialInv /\ [FolderNext]_folderVars => Forest'
<1> SUFFICES ASSUME SerialInv, [FolderNext]_folderVars PROVE Forest'
  OBVIOUS
<1>1. CASE UNCHANGED parent
  BY <1>1 DEF SerialInv, Forest
<1>2. ASSUME NEW s \in Sessions, Begin(s) PROVE Forest'
  BY <1>1, <1>2, CreateForest
  DEF Begin, BeginUpdate, BeginDelete, MoveDocuments, AddDocument, TrashDocument,
      BeginRestore, Unmoved
<1>3. ASSUME NEW s \in Sessions, Continue(s) PROVE Forest'
  BY <1>1, <1>3, UpdateForest, DeleteForest
  DEF Continue, CheckTarget, GatherChildren, CheckDescendants, CheckName,
      CheckDocuments, CompleteRestore, Unmoved
<1>. QED
  BY <1>1, <1>2, <1>3 DEF FolderNext, folderVars

\* The invariant of requests that do not overlap is inductive.
LEMMA SerialStep ==
  ASSUME Serial
  PROVE  SerialInv /\ [FolderNext]_folderVars => SerialInv'
<1> SUFFICES ASSUME SerialInv, [FolderNext]_folderVars PROVE SerialInv'
  OBVIOUS
<1>1. TypeInv' /\ ReferencesResolve'
  BY NextType, ReferencesStep DEF SerialInv
<1>2. ReadOK'
  <2>1. CASE FolderNext
    BY <2>1, BeginReads, ContinueReads DEF FolderNext
  <2>2. CASE UNCHANGED folderVars
    BY <2>2 DEF folderVars, SerialInv, ReadOK, SafeMove, Closed, Children, Live
  <2>. QED
    BY <2>1, <2>2
<1>3. Forest'
  BY ForestStep
<1>. QED
  BY <1>1, <1>2, <1>3 DEF SerialInv

\* It holds of the empty tables.
LEMMA SerialInit == FolderInit => SerialInv
<1> SUFFICES ASSUME FolderInit PROVE SerialInv
  OBVIOUS
<1>1. TypeInv
  BY InitType
<1>2. ReferencesResolve /\ ReadOK /\ Forest
  BY FolderTreeAssumption
  DEF FolderInit, ReferencesResolve, Exists, ReadOK, Forest
<1>. QED
  BY <1>1, <1>2 DEF SerialInv

\* Requests that do not overlap keep the folders a forest: the descendants
\* that update_folder gathers are all that is below the folder, so a parent
\* outside them is no descendant.
THEOREM SerialForest ==
  ASSUME Serial
  PROVE  FolderSpec => []Forest
<1>1. FolderSpec => []SerialInv
  BY SerialInit, SerialStep, PTL DEF FolderSpec
<1>. QED
  BY <1>1, PTL DEF SerialInv

\* Requests that do not overlap delete only empty folders: what delete_folder
\* has checked is still so when its DELETE runs.
THEOREM SerialDeletion ==
  ASSUME Serial
  PROVE  FolderSpec => EmptyBeforeDeletion
<1> DEFINE EmptyStep == \A f \in Folders : Exists(f) /\ parent'[f] = Gone =>
                          /\ Children(f) = {}
                          /\ \A d \in Documents : Live(d) => place[d] # f
<1>1. ASSUME SerialInv, [FolderNext]_folderVars, NEW f \in Folders, Exists(f),
             parent'[f] = Gone
      PROVE  Children(f) = {} /\ \A d \in Documents : Live(d) => place[d] # f
  <2>1. parent \in [Folders -> Folders \union {Root, None, Gone}] /\ parent[f] # Gone
    BY <1>1, FolderTreeAssumption DEF SerialInv, TypeInv, FolderTypeOK, Exists
  <2>2. ASSUME NEW s \in Sessions, Begin(s) PROVE FALSE
    BY <1>1, <2>1, <2>2, FolderTreeAssumption
    DEF Begin, CreateFolder, BeginUpdate, BeginDelete, MoveDocuments, AddDocument,
        TrashDocument, BeginRestore, Unmoved
  <2>3. PICK s \in Sessions : Continue(s)
    BY <1>1, <2>1, <2>2 DEF FolderNext, folderVars
  <2>4. ASSUME UpdateFolder(s) PROVE FALSE
    <3>1. NextParent(req[s]) \in Folders \union {Root} \/ parent' = parent
      BY <2>4 DEF UpdateFolder, Resolves
    <3>. QED
      BY <1>1, <2>1, <2>4, <3>1, FolderTreeAssumption DEF UpdateFolder
  <2>5. DeleteFolder(s)
    BY <1>1, <2>1, <2>3, <2>4
    DEF Continue, CheckTarget, GatherChildren, CheckDescendants, CheckName,
        CheckDocuments, CompleteRestore, Unmoved
  <2>6. f = req[s].folder
    BY <1>1, <2>1, <2>5, FolderTreeAssumption DEF DeleteFolder
  <2>. QED
    BY <1>1, <2>5, <2>6 DEF DeleteFolder, SerialInv, ReadOK
<1>2. SerialInv /\ [FolderNext]_folderVars => [EmptyStep]_folderVars
  BY <1>1
<1>3. FolderSpec => []SerialInv
  BY SerialInit, SerialStep, PTL DEF FolderSpec
<1>. QED
  BY <1>2, <1>3, PTL DEF FolderSpec, EmptyBeforeDeletion
=============================================================================
