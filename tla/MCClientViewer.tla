---------------------------- MODULE MCClientViewer ----------------------------
\* What the user has on the screen: the shell, the details of a document, the
\* selection in the list and the files being uploaded. Each behaviour is one
\* of them, chosen at the start, the others resting; the shell and the details
\* are looked at in turn.
EXTENDS ClientShell, ClientInfoPanel, ClientSelection, ClientUploads
CONSTANTS c1, c0
VARIABLE part
\* A file by itself, one inside a directory, and one of no bytes.
MCFiles == {[content |-> c1, path |-> NoPath], [content |-> c1, path |-> Path],
            [content |-> c0, path |-> NoPath]}
MCMinWidth == [sidebar |-> 7, detail |-> 8]
ShellParts == {"viewer", "panels", "notices"}
InfoParts == {"title", "issued", "content"}

ShellAtFirst ==
    /\ ShellInit
    /\ part = "panels" \/ (screen.width = 48 /\ preferred = MCMinWidth /\ ~collapsed)
    /\ part = "viewer" \/ (viewing = Nil /\ here = Origin)
ShellRests == ShellInit /\ screen.width = 48 /\ preferred = MCMinWidth /\ ~collapsed /\ viewing = CHOOSE d \in Leaflets : TRUE
InfoAtFirst == PanelInit /\ (part = "content" \/ (scanned = {} /\ known = {}))
InfoRests == PanelInit /\ scanned = {} /\ known = {} /\ place = [d \in Papers |-> Blank]
SelectionAtFirst == SelectionInit /\ Len(shelf) = 3
SelectionRests == SelectionInit /\ shelf = <<>>

MCInit ==
    /\ UploadsInit
    /\ \/ part \in ShellParts /\ ShellAtFirst /\ InfoRests /\ SelectionRests
       \/ part \in InfoParts /\ ShellRests /\ InfoAtFirst /\ SelectionRests
       \/ part = "selection" /\ ShellRests /\ InfoRests /\ SelectionAtFirst
       \/ part = "uploads" /\ ShellRests /\ InfoRests /\ SelectionRests

ShellTurn ==
    \/ part \in ShellParts /\ ShellEffects
    \/ part = "viewer" /\ ViewerUser
    \/ part = "panels" /\ (PanelUser \/ \E d \in Leaflets : Inspect(d) \/ CloseDetail)
    \/ part = "notices" /\ ShellNotices
InfoTurn ==
    /\ part \in InfoParts /\ PanelNext
    /\ IF part = "content" THEN edits' = edits
       ELSE UNCHANGED place /\ \A f \in Fields \ {part} : edits'[f] = Shut
\* Both batches of a drop onto a node have its files; a second one of its own has one.
UploadsTurn ==
    /\ UploadsNext
    /\ Len(batches'[2].files) <= 1 \/ batches'[2].files = batches'[1].files
MCNext ==
    /\ UNCHANGED part
    /\ \/ ShellTurn /\ UNCHANGED <<panelVars, selVars, uploadVars>>
       \/ InfoTurn /\ UNCHANGED <<shellVars, selVars, uploadVars>>
       \/ part = "selection" /\ SelectionNext /\ UNCHANGED <<shellVars, panelVars, uploadVars>>
       \/ part = "uploads" /\ UploadsTurn /\ UNCHANGED <<shellVars, panelVars, selVars>>
MCSpec ==
    /\ MCInit /\ [][MCNext]_<<part, shellVars, panelVars, selVars, uploadVars>>
    /\ ShellFairness /\ SelectionFairness /\ UploadsFairness

\* The states of the four parts are well formed.
ViewerTypeOK == ShellTypeOK /\ PanelTypeOK /\ SelectionTypeOK /\ UploadsTypeOK
\* What a step may never do to the selection and to the upload queue.
ViewerStepsAreSound == SelectionIsSound /\ ClearedItemsStayOut
\* Effects come to rest and every file gets a result.
ViewerSettles == BridgeSettles /\ EffectsRest /\ UploadsSettle
=============================================================================
