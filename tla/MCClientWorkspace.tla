--------------------------- MODULE MCClientWorkspace ---------------------------
\* The session, the documents, the folders and the desk of the client: each
\* behaviour is one of them, chosen at the start, the others resting. The desk is
\* looked at twice: for the layouts kept and for the fingers on the cards.
EXTENDS ClientSession, ClientDocuments, ClientFolders, ClientDesktop
CONSTANTS finger1
VARIABLE part
DeskParts == {"layouts", "fingers"}

SessionRests == SessionInit /\ login = FreshLogin(NoTenant) /\ url = FALSE
DocumentsRest ==
    /\ stored = [d \in Docs |-> [folder |-> Root, state |-> "live"]] /\ cache = Nothing
    /\ screen = [folder |-> Root, order |-> "asc", ids |-> {}, of |-> None, sel |-> {}]
    /\ search = [query |-> None, results |-> None, of |-> None, loading |-> FALSE]
    /\ calls = [c \in Slot |-> Free] /\ docActs = 0
FoldersRest ==
    /\ dirs = [f \in Dirs |-> [parent |-> Gone, name |-> "old"]] /\ byId = [f \in Dirs |-> Missing]
    /\ tree = [loaded |-> FALSE, up |-> Unloaded] /\ chosen = Top /\ creating = FALSE
    /\ asks = [c \in Asks |-> Idle] /\ given = {} /\ raced = FALSE /\ folderActs = 0
DeskRests == DeskInit /\ \A v \in Views : kept[v] = NoRecords
LayoutsAtFirst ==
    DeskInit /\ \A v \in Views : /\ DOMAIN kept[v] \in {{}, Papers}
                                /\ \A c \in DOMAIN kept[v] : kept[v][c].z = kept[v][c].at
\* For the layouts, one finger and one act on the first desk; the second one shows
\* what it did, at full width. For the fingers, one desk whose layout is not kept, with all the documents.
DeskTurn ==
    /\ DeskNext
    /\ IF part = "layouts"
       THEN /\ DOMAIN pointers' \subseteq {finger1} /\ deskActs' <= 1 /\ Len(picked') <= 1 /\ desk' \in Views
            /\ mounts = 0 => desk' = CHOOSE v \in Views : kept[v] # NoRecords \/ \A w \in Views : kept[w] = NoRecords
            /\ mounts' = 2 => items' = Papers /\ deskActs' = deskActs /\ container' # 1
       ELSE mounts' <= 1 /\ desk' \in {Closed, SearchDesk} /\ items' \in {{}, Papers}

MCInit ==
    \/ part = "session" /\ SessionInit /\ DocumentsRest /\ FoldersRest /\ DeskRests
    \/ part = "documents" /\ SessionRests /\ DocumentsInit /\ FoldersRest /\ DeskRests
    \/ part = "folders" /\ SessionRests /\ DocumentsRest /\ FoldersInit /\ DeskRests
    \/ part = "layouts" /\ SessionRests /\ DocumentsRest /\ FoldersRest /\ LayoutsAtFirst
    \/ part = "fingers" /\ SessionRests /\ DocumentsRest /\ FoldersRest /\ DeskRests
MCNext ==
    /\ UNCHANGED part
    /\ \/ part = "session" /\ SessionNext /\ UNCHANGED <<documentVars, folderVars, deskVars>>
       \/ part = "documents" /\ DocumentsNext /\ UNCHANGED <<sessionVars, folderVars, deskVars>>
       \/ part = "folders" /\ FoldersNext /\ UNCHANGED <<sessionVars, documentVars, deskVars>>
       \/ part \in DeskParts /\ DeskTurn /\ UNCHANGED <<sessionVars, documentVars, folderVars>>
\* The fairness of each module, asked of the part it is about.
MCFairness ==
    /\ \A s \in Slots : /\ WF_sessionVars(part = "session" /\ Serve(s)) /\ WF_sessionVars(part = "session" /\ Unauthorized(s))
                        /\ WF_sessionVars(part = "session" /\ Settle(s)) /\ WF_sessionVars(part = "session" /\ CancelPrompt(s))
    /\ WF_sessionVars(part = "session" /\ RefreshRead) /\ WF_sessionVars(part = "session" /\ RefreshRotate)
    /\ WF_sessionVars(part = "session" /\ RefreshSettles)
    /\ \A c \in Slot : WF_documentVars(part = "documents" /\ DocumentStep(c))
    /\ \A c \in Asks : WF_folderVars(part = "folders" /\ ServeFolder(c)) /\ WF_folderVars(part = "folders" /\ SettleFolder(c))
    /\ WF_deskVars(part \in DeskParts /\ Measured) /\ WF_deskVars(part \in DeskParts /\ PlaceCards)
    /\ WF_deskVars(part \in DeskParts /\ (FetchRecords \/ UpsertRecords))
MCSpec == MCInit /\ [][MCNext]_<<part, sessionVars, documentVars, folderVars, deskVars>> /\ MCFairness

\* The states of the four parts are well formed.
WorkspaceTypeOK == SessionTypeOK /\ DocumentsTypeOK /\ FoldersTypeOK /\ DeskTypeOK
\* What a step may never do to the documents and folders shown.
WorkspaceStepsAreSound == ListingsAreCurrent /\ NodesStay
\* Every request, sign-in, search, creation and opening of a desk comes to an end.
WorkspaceSettles == RequestsSettle /\ SignInEnds /\ SearchEnds /\ CreatingEnds /\ DeskIsShown
=============================================================================
