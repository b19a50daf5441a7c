---------------------------- MODULE ClientUploads ----------------------------
(***************************************************************************)
(* Uploading files from the web client: useDocumentUploads (the batches,   *)
(* the queue, the cache of resolved folder paths), the drop targets of     *)
(* useFileDrop and of the folder tree, the upload overlay and the marks of *)
(* new documents, against the documents the server holds.                  *)
(*                                                                         *)
(* A batch is one run of uploadFileEntries.  It keeps its own copy of the  *)
(* items it appended to the queue, and goes through them one by one.       *)
(***************************************************************************)
EXTENDS Integers, Sequences, FiniteSets

CONSTANTS
    Contents,       \* contents of files (their checksum)
    Files,          \* files: contents and path
    EmptyContents,  \* those of no bytes
    Bases,          \* folders files are uploaded to
    Here,           \* selectedFolder, the folder on the screen
    Path,           \* a relative path inside a dropped directory
    NoPath,         \* a file dropped or chosen by itself
    Absent,         \* not in the queue, not stored, not cached
    MaxBatches,     \* bound: batches started
    MaxFiles,       \* bound: files of a batch
    MaxClears       \* bound: dismissals, and documents that stop being new

ASSUME UploadConstants ==
    /\ EmptyContents \subseteq Contents /\ Path # NoPath /\ Here \in Bases
    /\ MaxBatches \in Nat \ {0} /\ MaxFiles \in Nat \ {0} /\ MaxClears \in Nat
    /\ Files \subseteq [content : Contents, path : {Path, NoPath}]
    /\ Absent \notin {"pending", "uploading", "success", "duplicate", "error"}

VARIABLES
    batches,    \* runs of uploadFileEntries
    queue,      \* uploadQueue: the status shown for each item
    paths,      \* folderPathCacheRef
    uploaded,   \* the server: where the document of each content was created
    marked,     \* NewDocumentsContext
    dismissed,  \* of the upload overlay
    aimed,      \* history: contents dropped on a node of the tree, and which one
    clears      \* dismissals and documents that stopped being new, so far

uploadVars == <<batches, queue, paths, uploaded, marked, dismissed, aimed, clears>>

-----------------------------------------------------------------------------
Batches == 1..MaxBatches
Places2 == Bases \cup {<<b, Path>> : b \in Bases}
ActiveStatus == {"pending", "uploading"}
EndStatus == {"success", "duplicate", "error"}

\* Where a file belongs: its path below the folder the batch was aimed at.
Destination(base, path) == IF path = NoPath THEN base ELSE <<base, path>>

\* A path is cached under the folder it starts from.
\* Slip: under the path alone.
CacheKeyOfPath(base, path) == path
CacheKey(base, path) == <<base, path>>

NoBatch == [files |-> <<>>, base |-> Absent, at |-> 0, stage |-> "idle", target |-> Absent,
            status |-> <<>>, landed |-> <<>>]
Size(b) == Len(batches[b].files)
File(b) == batches[b].files[batches[b].at]
Shown(b, i) == queue[<<b, i>>]

\* updateQueueItem: items no longer in the queue stay out.
Patched(q, id, s) == [q EXCEPT ![id] = IF @ = Absent THEN Absent ELSE s]

Spend == clears < MaxClears /\ clears' = clears + 1

UploadsInit ==
    /\ batches = [b \in Batches |-> NoBatch]
    /\ queue = [id \in Batches \X (1..MaxFiles) |-> Absent]
    /\ paths = [k \in {Path} \cup {<<f, Path>> : f \in Bases} |-> Absent]
    /\ uploaded = [c \in Contents |-> Absent]
    /\ marked = {}
    /\ dismissed = FALSE
    /\ aimed = [c \in Contents |-> Absent]
    /\ clears = 0

\* --- a batch ------------------------------------------------------------------
\* appendQueueItems and the start of the loop; the overlay comes back when the
\* queue grows.
DismissedNow == FALSE

Idle2(b) == batches[b].stage = "idle" /\ \A e \in 1..(b - 1) : batches[e].stage # "idle"
Appended(q, b, files) ==
    [id \in DOMAIN q |-> IF id[1] = b /\ id[2] <= Len(files) THEN "pending" ELSE q[id]]
\* Slip: an item for each file there could be.
BegunWithSpare(files, base) ==
    [NoBatch EXCEPT !.files = files, !.base = base, !.at = 1, !.stage = "next",
                    !.status = [i \in 1..MaxFiles |-> "pending"],
                    !.landed = [i \in DOMAIN files |-> Absent]]
Begun(files, base) ==
    [NoBatch EXCEPT !.files = files, !.base = base, !.at = 1, !.stage = "next",
                    !.status = [i \in DOMAIN files |-> "pending"],
                    !.landed = [i \in DOMAIN files |-> Absent]]

\* handleFileSelection: chosen files, for a folder.
ChooseFiles(b, files, base) ==
    /\ Idle2(b)
    /\ batches' = [batches EXCEPT ![b] = Begun(files, base)]
    /\ queue' = Appended(queue, b, files)
    /\ paths' = [k \in DOMAIN paths |-> Absent]
    /\ dismissed' = DismissedNow
    /\ UNCHANGED <<uploaded, marked, aimed, clears>>

\* The loop's head: the next file is uploading, once its folder is known.
NextFile(b) ==
    LET key == CacheKey(batches[b].base, File(b).path)
        cached == File(b).path # NoPath /\ paths[key] # Absent
        target == IF File(b).path = NoPath THEN batches[b].base ELSE paths[key]
    IN  /\ batches[b].stage = "next" /\ batches[b].at <= Size(b)
        /\ queue' = Patched(queue, <<b, batches[b].at>>, "uploading")
        /\ batches' = [batches EXCEPT
             ![b].status[batches[b].at] = "uploading",
             ![b].target = IF File(b).path = NoPath \/ cached THEN target ELSE Absent,
             ![b].stage = IF File(b).path = NoPath \/ cached THEN "sent" ELSE "resolving"]
        /\ UNCHANGED <<paths, uploaded, marked, dismissed, aimed, clears>>

\* POST /folders/path finds or makes the folders of the path.
ResolvePath(b) ==
    LET key == CacheKey(batches[b].base, File(b).path)
        found == Destination(batches[b].base, File(b).path)
    IN  /\ batches[b].stage = "resolving"
        /\ paths' = [paths EXCEPT ![key] = found]
        /\ batches' = [batches EXCEPT ![b].target = found, ![b].stage = "sent"]
        /\ UNCHANGED <<queue, uploaded, marked, dismissed, aimed, clears>>

\* One file refused its folder ends the batch: every item without a result is
\* an error.
\* Slip: only the file it happened to.
FailedHere(b) == {batches[b].at}
FailedWith(b) == {i \in 1..Size(b) : batches[b].status[i] \notin EndStatus}
PathRefused(b) ==
    /\ batches[b].stage = "resolving"
    /\ queue' = [id \in DOMAIN queue |-> IF id[1] = b /\ id[2] \in FailedWith(b) /\ queue[id] # Absent
                                         THEN "error" ELSE queue[id]]
    /\ batches' = [batches EXCEPT ![b].stage = "done",
                     ![b].status = [i \in DOMAIN @ |-> IF i \in FailedWith(b) THEN "error" ELSE @[i]]]
    /\ UNCHANGED <<paths, uploaded, marked, dismissed, aimed, clears>>

\* A file has its result, and the loop goes on.
Ended(b, s, place) ==
    /\ queue' = Patched(queue, <<b, batches[b].at>>, s)
    /\ batches' = [batches EXCEPT ![b].status[batches[b].at] = s, ![b].landed[batches[b].at] = place,
                                  ![b].at = @ + 1, ![b].stage = "next", ![b].target = Absent]

\* uploadFile returns at once for a file of no bytes.
SkipEmpty(b) ==
    /\ batches[b].stage = "sent" /\ File(b).content \in EmptyContents
    /\ Ended(b, "success", Absent)
    /\ UNCHANGED <<paths, uploaded, marked, dismissed, aimed, clears>>

\* POST /documents: a new document, a conflict with one of the same contents
\* (then fetched, or not), or an error.
UploadFile(b) ==
    LET c == File(b).content
    IN  /\ batches[b].stage = "sent" /\ c \notin EmptyContents
        /\ \/ /\ uploaded[c] = Absent
              /\ uploaded' = [uploaded EXCEPT ![c] = batches[b].target]
              /\ Ended(b, "success", batches[b].target)
           \/ uploaded[c] # Absent /\ Ended(b, "duplicate", Absent) /\ UNCHANGED uploaded
           \/ Ended(b, "error", Absent) /\ UNCHANGED uploaded
        /\ UNCHANGED <<paths, marked, dismissed, aimed, clears>>

\* After the last file the new documents are marked and the folder is listed
\* again; nothing is left to report when that fails.
NewOf(b) ==
    {batches[b].files[i].content : i \in {j \in 1..Size(b) : batches[b].landed[j] # Absent}}
FinishBatch(b) ==
    /\ batches[b].stage = "next" /\ batches[b].at > Size(b)
    /\ marked' = marked \cup NewOf(b)
    /\ batches' = [batches EXCEPT ![b].stage = "done"]
    /\ UNCHANGED <<queue, paths, uploaded, dismissed, aimed, clears>>

\* --- the queue and the marks ----------------------------------------------------
Visible == ~dismissed /\ \E id \in DOMAIN queue : queue[id] # Absent

\* Confirmed while uploads run; the batches go on.
DismissOverlay ==
    /\ Spend /\ Visible
    /\ queue' = [id \in DOMAIN queue |-> Absent]
    /\ dismissed' = TRUE
    /\ UNCHANGED <<batches, paths, uploaded, marked, aimed>>

\* A selected row is no longer new.
ClearNew(c) ==
    /\ Spend /\ c \in marked
    /\ marked' = marked \ {c}
    /\ UNCHANGED <<batches, queue, paths, uploaded, dismissed, aimed>>

\* --- dropping files -----------------------------------------------------------
\* Dropped anywhere but on the tree: uploaded to the folder on the screen.
DropOnWindow(b, files) ==
    /\ Idle2(b)
    /\ batches' = [batches EXCEPT ![b] = Begun(files, Here)]
    /\ queue' = Appended(queue, b, files)
    /\ paths' = [k \in DOMAIN paths |-> Absent]
    /\ dismissed' = DismissedNow
    /\ UNCHANGED <<uploaded, marked, aimed, clears>>

\* Dropped on a node of the tree: the window's listener sits below the root
\* React listens on, so it has run when the node's handler stops the event.
InFlight(c) == \E b \in Batches : /\ batches[b].stage \notin {"idle", "done"}
                                  /\ c \in {batches[b].files[i].content : i \in 1..Size(b)}
DropOnNode(b, files, f) ==
    /\ b + 1 \in Batches /\ Idle2(b)
    /\ batches' = [batches EXCEPT ![b] = Begun(files, Here), ![b + 1] = Begun(files, f)]
    /\ queue' = Appended(Appended(queue, b, files), b + 1, files)
    /\ paths' = [k \in DOMAIN paths |-> Absent]
    /\ dismissed' = DismissedNow
    /\ aimed' = [c \in Contents |->
                   IF uploaded[c] = Absent /\ ~InFlight(c)
                      /\ [content |-> c, path |-> NoPath] \in {files[i] : i \in DOMAIN files}
                   THEN f ELSE aimed[c]]
    /\ UNCHANGED <<uploaded, marked, clears>>

-----------------------------------------------------------------------------
FileLists == UNION {[1..n -> Files] : n \in 1..MaxFiles}

UploadsNext ==
    \/ \E b \in Batches, files \in FileLists, f \in Bases :
         ChooseFiles(b, files, f) \/ DropOnNode(b, files, f)
    \/ \E b \in Batches, files \in FileLists : DropOnWindow(b, files)
    \/ \E b \in Batches : \/ NextFile(b) \/ ResolvePath(b) \/ PathRefused(b) \/ SkipEmpty(b)
                          \/ UploadFile(b) \/ FinishBatch(b)
    \/ DismissOverlay
    \/ \E c \in Contents : ClearNew(c)

\* The loop runs on, and every request is answered.
UploadsFairness ==
    \A b \in Batches : WF_uploadVars(\/ NextFile(b) \/ ResolvePath(b) \/ PathRefused(b)
                                     \/ SkipEmpty(b) \/ UploadFile(b) \/ FinishBatch(b))

UploadsSpec == UploadsInit /\ [][UploadsNext]_uploadVars /\ UploadsFairness

-----------------------------------------------------------------------------
\* The shape of the state; a batch keeps one status and one place for each file.
UploadsTypeOK ==
    /\ \A b \in Batches : /\ Len(batches[b].status) = Size(b) /\ Len(batches[b].landed) = Size(b)
                          /\ batches[b].at \in 0..(MaxFiles + 1)
                          /\ batches[b].target \in Places2 \cup {Absent}
    /\ \A id \in DOMAIN queue : queue[id] \in ActiveStatus \cup EndStatus \cup {Absent}
    /\ \A c \in Contents : uploaded[c] \in Places2 \cup {Absent}
    /\ marked \subseteq Contents

\* With batches running side by side, which share the cache of paths and clear
\* it under each other, a file is created at its path below the folder its own
\* batch was started for (useDocumentUploads.ts:224-252, 361-443).
FilesLandWhereAimed ==
    \A b \in Batches : \A i \in 1..Size(b) :
      batches[b].landed[i] # Absent
        => batches[b].landed[i] = Destination(batches[b].base, batches[b].files[i].path)

\* An item is in the queue from the start of its batch until the queue is
\* cleared, and no later result brings it back (useDocumentUploads.ts:215-222).
ClearedItemsStayOut ==
    [][\A b \in Batches, i \in 1..MaxFiles :
         Shown(b, i) = Absent /\ batches[b].stage # "idle" => Shown(b, i)' = Absent]_uploadVars

\* What is still uploading is on the screen, also after an earlier queue was
\* dismissed (UploadQueueOverlay.tsx:71-79, 104-124).
ActiveUploadsAreShown == (\E id \in DOMAIN queue : queue[id] \in ActiveStatus) => Visible

\* Only documents this client created are marked as new
\* (useDocumentUploads.ts:419-424).
OnlyCreatedAreNew ==
    \A c \in marked : \E b \in Batches : \E i \in 1..Size(b) :
      batches[b].files[i].content = c /\ batches[b].landed[i] # Absent

\* Every item gets a result or is cleared, whatever fails on the way
\* (useDocumentUploads.ts:361-443).
UploadsSettle ==
    \A b \in Batches : (\E i \in 1..MaxFiles : Shown(b, i) \in ActiveStatus)
                         ~> (\A i \in 1..MaxFiles : Shown(b, i) \notin ActiveStatus)

\* frontend/README.md:48 "file uploads (window-wide or onto a folder)": what is
\* dropped onto a folder is created in that folder.
DroppedFilesLand == \A c \in Contents : aimed[c] # Absent /\ uploaded[c] # Absent => uploaded[c] = aimed[c]

\* What is uploaded is where it was aimed, what is uploading is shown, and what is
\* marked as new was created here, with batches side by side.
UploadsAreAccounted == FilesLandWhereAimed /\ ActiveUploadsAreShown /\ OnlyCreatedAreNew
=============================================================================
