---------------------------- MODULE ClientSelection ----------------------------
(***************************************************************************)
(* The selection in the list of documents: what is picked by pointer and   *)
(* by keyboard, where the keyboard stands, what a drag takes along, and    *)
(* how all of it follows the listing that changes underneath (a folder's   *)
(* contents arriving, a search starting and ending, a move settling).      *)
(***************************************************************************)
EXTENDS Integers, FiniteSets, Sequences, Functions

CONSTANTS
    Sheets,             \* entries that are documents
    Binders,            \* entries that are folders
    NoKey,
    MaxRows,            \* bound: the length of a listing
    MaxPicks,           \* bound: what the user does
    MaxLists            \* bound: listings and search results that arrive

ASSUME SelectionConstants ==
    NoKey \notin Sheets \cup Binders /\ Sheets \cap Binders = {} /\ {MaxRows, MaxPicks, MaxLists} \subseteq Nat

VARIABLES
    shelf,      \* the selected folder's entries as last listed
    found,      \* searchResultIds, or Unsearched
    picked,     \* selectedEntries
    order,      \* selectionOrder
    anchor,     \* selectionAnchorRef
    focusDoc,   \* focusedDocumentId
    lastDoc,    \* prevFocusedDocIdRef
    focusKey,   \* focusedEntryKey
    activeDoc,  \* activeViewerId
    synced,     \* showingSearchResults, as the selection's effect last ran
    cleared,    \* clearedForSearchRef
    carried,    \* the drag's payload, or Nothing
    moving,     \* a move of dropped documents on its way, or Unmoved
    picks, lists

pickVars == <<picked, order, anchor, focusDoc, focusKey>>
listVars == <<shelf, found>>
selVars == <<listVars, pickVars, lastDoc, activeDoc, synced, cleared, carried, moving, picks, lists>>

-----------------------------------------------------------------------------
Entries == Sheets \cup Binders
Unsearched == <<NoKey>>
Unmoved == [ids |-> {}, focusDoc |-> NoKey, focusKey |-> NoKey]
Nothing == [docs |-> {}, folders |-> {}]
\* What a filter leaves of s: the entries at the positions I, in their order.
Kept(s, I) == [n \in 1..Cardinality(I) |-> s[CHOOSE i \in I : Cardinality({j \in I : j <= i}) = n]]
Among(s, S) == Kept(s, {i \in DOMAIN s : s[i] \in S})
Deduped(s) == Kept(s, {i \in DOMAIN s : \A j \in 1..(i - 1) : s[j] # s[i]})
LastOf(s) == IF s = <<>> THEN NoKey ELSE s[Len(s)]
FirstOf(s) == IF s = <<>> THEN NoKey ELSE s[1]
FoldersFirst(s) == \A i, j \in DOMAIN s : i < j /\ s[j] \in Binders => s[i] \in Binders
Listings == {s \in UNION {[1..n -> Entries] : n \in 0..MaxRows} : IsInjective(s) /\ FoldersFirst(s)}

Searching == found # Unsearched
\* navigableRows: the folders first, and no folder in a search's results.
Rows == IF Searching THEN found ELSE shelf
RowOf(k) == CHOOSE i \in DOMAIN Rows : Rows[i] = k

\* --- what a choice does ---------------------------------------------------------
\* updateSelectionOrder: what was touched comes last.
Ordered(keys, touched) ==
    LET before == Among(order, Range(keys) \ Range(touched)) \o Among(Deduped(touched), Range(keys)) IN
    before \o Among(keys, Range(keys) \ Range(before))

\* Slip: what is no longer on the list stays picked.
KeptUnseen(keys) == Deduped(keys)
OnTheList(keys) == Among(Deduped(keys), Range(Rows))

\* applySelection.
Apply(keys, at, touched) ==
    LET unique == OnTheList(keys)
        mark == IF at \in Range(unique) THEN at ELSE NoKey IN
    /\ picked' = unique /\ order' = Ordered(unique, touched)
    /\ focusDoc' = IF focusDoc \in Range(unique) THEN focusDoc
                   ELSE IF mark \in Sheets THEN mark ELSE LastOf(Among(unique, Sheets))
    /\ anchor' = IF mark # NoKey THEN mark
                 ELSE IF anchor \in Range(unique) THEN anchor ELSE LastOf(unique)

Span(a, b) == LET i == RowOf(a) j == RowOf(b) IN IF i <= j THEN SubSeq(Rows, i, j) ELSE SubSeq(Rows, j, i)
PickedAnchor(k) ==
    IF anchor # NoKey THEN anchor ELSE IF picked # <<>> THEN LastOf(picked) ELSE k
AnchorOfRange(k) == PickedAnchor(k)

\* handleEntrySelection of one entry.
ChooseOnly(k) == Apply(<<k>>, k, <<k>>) /\ focusKey' = k
ChooseToggled(k) ==
    /\ IF k \in Range(picked) THEN Apply(Among(picked, Entries \ {k}), k, <<>>)
       ELSE Apply(Append(picked, k), k, <<k>>)
    /\ focusKey' = k
ChooseRange(k) ==
    /\ IF PickedAnchor(k) \in Range(Rows)
       THEN LET span == Span(PickedAnchor(k), k) IN
            Apply(span, AnchorOfRange(k), Among(span, {k} \cup (Range(span) \ Range(picked))))
       ELSE Apply(<<k>>, AnchorOfRange(k), <<k>>)
    /\ focusKey' = k
ChooseAlso(k) == Apply(Append(picked, k), k, <<k>>)

-----------------------------------------------------------------------------
\* --- the effects ------------------------------------------------------------------
ClearedAfterSearch == FALSE

SearchEntryDue == Searching # synced
SearchEntry ==
    /\ SearchEntryDue /\ synced' = Searching
    /\ IF Searching /\ ~cleared
       THEN /\ cleared' = TRUE /\ picked' = <<>> /\ order' = <<>> /\ anchor' = NoKey /\ focusDoc' = NoKey
            /\ UNCHANGED focusKey
       ELSE /\ cleared' = (IF Searching THEN cleared ELSE ClearedAfterSearch)
            /\ UNCHANGED pickVars
    /\ UNCHANGED <<listVars, lastDoc, activeDoc, carried, moving, picks, lists>>

FocusDocDue == lastDoc # focusDoc
FocusDocEffect ==
    /\ ~SearchEntryDue /\ FocusDocDue /\ lastDoc' = focusDoc
    /\ focusKey' = IF focusDoc # NoKey THEN focusDoc ELSE IF focusKey \in Binders THEN focusKey ELSE NoKey
    /\ UNCHANGED <<listVars, picked, order, anchor, focusDoc, activeDoc, synced, cleared, carried, moving, picks, lists>>

\* Where the keyboard stands once its row is gone.
KeyInstead == IF focusDoc \in Range(Rows) THEN focusDoc ELSE FirstOf(Among(picked, Range(Rows)))

FocusKeyDue == focusKey \notin Range(Rows) /\ (focusKey # NoKey \/ KeyInstead # NoKey)
FocusKeyEffect ==
    /\ ~SearchEntryDue /\ ~FocusDocDue /\ FocusKeyDue /\ focusKey' = KeyInstead
    /\ UNCHANGED <<listVars, picked, order, anchor, focusDoc, lastDoc, activeDoc, synced, cleared, carried, moving, picks, lists>>

ActiveDue == Among(picked, Sheets) # <<>> /\ activeDoc \notin Range(picked)
ActiveEffect ==
    /\ ~SearchEntryDue /\ ActiveDue /\ activeDoc' = LastOf(Among(picked, Sheets))
    /\ UNCHANGED <<listVars, pickVars, lastDoc, synced, cleared, carried, moving, picks, lists>>

Rested == ~SearchEntryDue /\ ~FocusDocDue /\ ~FocusKeyDue /\ ~ActiveDue
\* Events come between renders, and a drag takes the pointer and the keyboard.
Picking == Rested /\ carried = Nothing /\ picks < MaxPicks /\ picks' = picks + 1

-----------------------------------------------------------------------------
SelectionInit ==
    /\ shelf \in Listings /\ found = Unsearched
    /\ picked = <<>> /\ order = <<>> /\ anchor = NoKey /\ focusDoc = NoKey /\ lastDoc = NoKey
    /\ focusKey = NoKey /\ activeDoc = NoKey /\ synced = FALSE /\ cleared = FALSE
    /\ carried = Nothing /\ moving = Unmoved /\ picks = 0 /\ lists = 0

\* --- the listing ---------------------------------------------------------------------
\* reconcileSelectionWithFolderData: the selection alone follows.
Reconciled(s) == Among(Among(picked, Binders), Range(s)) \o Among(Among(picked, Sheets), Range(s))
FolderArrives(s) ==
    /\ Rested /\ lists < MaxLists /\ lists' = lists + 1 /\ s # shelf /\ shelf' = s /\ picked' = Reconciled(s)
    /\ UNCHANGED <<found, order, anchor, focusDoc, focusKey, lastDoc, activeDoc, synced, cleared, carried, moving, picks>>

SearchArrives(s) ==
    /\ Rested /\ lists < MaxLists /\ lists' = lists + 1 /\ s # found /\ found' = s
    /\ UNCHANGED <<shelf, pickVars, lastDoc, activeDoc, synced, cleared, carried, moving, picks>>

\* --- pointer and keyboard ----------------------------------------------------------------
RestOfPick == UNCHANGED <<listVars, lastDoc, activeDoc, synced, cleared, carried, moving, lists>>
Click(k) == Picking /\ k \in Range(Rows) /\ ChooseOnly(k) /\ RestOfPick
ToggleClick(k) == Picking /\ k \in Range(Rows) /\ ChooseToggled(k) /\ RestOfPick
RangeClick(k) == Picking /\ k \in Range(Rows) /\ ChooseRange(k) /\ RestOfPick
\* In the grid a click with Shift adds.
GridClick(k) == Picking /\ k \in Range(Rows) /\ ChooseAlso(k) /\ UNCHANGED focusKey /\ RestOfPick

\* The row the keys start from.
KeyRow(up) ==
    IF focusKey \in Range(Rows) THEN focusKey
    ELSE IF Among(picked, Range(Rows)) # <<>> THEN LastOf(Among(picked, Range(Rows)))
    ELSE IF up THEN LastOf(Rows) ELSE FirstOf(Rows)

\* By n rows (a row of the grid has several), to either end, with Shift or not.
ArrowKey(n, up, toEnd, shift) ==
    LET from == RowOf(KeyRow(up))
        to == IF toEnd THEN (IF up THEN 1 ELSE Len(Rows)) ELSE IF up THEN from - n ELSE from + n IN
    /\ Picking /\ Rows # <<>> /\ to \in DOMAIN Rows /\ to # from
    /\ IF shift THEN ChooseAlso(Rows[to]) /\ focusKey' = Rows[to] ELSE ChooseOnly(Rows[to])
    /\ RestOfPick

FocusList ==
    /\ Picking /\ picked # <<>> /\ Rows # <<>> /\ focusKey' = KeyRow(FALSE)
    /\ UNCHANGED <<picked, order, anchor, focusDoc>> /\ RestOfPick

ClearPicked == Picking /\ Apply(<<>>, NoKey, <<>>) /\ focusKey' = NoKey /\ RestOfPick

\* --- drag and drop ---------------------------------------------------------------------------
\* The payload of a drag that begins at k.
CarriedFrom(k) ==
    IF k \in Range(picked) THEN [docs |-> Range(picked) \cap Sheets, folders |-> Range(picked) \cap Binders]
    ELSE [docs |-> {k} \cap Sheets, folders |-> {k} \cap Binders]

DragStart(k) ==
    /\ Picking /\ k \in Range(Rows) /\ carried' = CarriedFrom(k)
    /\ IF k \in Range(picked) THEN UNCHANGED pickVars
       ELSE IF k \in Sheets THEN Apply(<<k>>, k, <<k>>) /\ UNCHANGED focusKey ELSE ChooseOnly(k)
    /\ UNCHANGED <<listVars, lastDoc, activeDoc, synced, cleared, moving, lists>>

DragEnd ==
    /\ carried # Nothing /\ carried' = Nothing
    /\ UNCHANGED <<listVars, pickVars, lastDoc, activeDoc, synced, cleared, moving, picks, lists>>

\* The documents are dropped onto a folder; the callback keeps the focus it saw.
DropOnFolder ==
    /\ carried.docs # {} /\ moving = Unmoved /\ carried' = Nothing
    /\ moving' = [ids |-> carried.docs, focusDoc |-> focusDoc, focusKey |-> focusKey]
    /\ UNCHANGED <<listVars, pickVars, lastDoc, activeDoc, synced, cleared, picks, lists>>

AnchorAfterMove == IF anchor \in moving.ids THEN NoKey ELSE anchor

MoveSettles(ok) ==
    /\ Rested /\ moving # Unmoved /\ moving' = Unmoved
    /\ IF ~ok THEN UNCHANGED <<listVars, pickVars>>
       ELSE LET rest == Entries \ moving.ids IN
            /\ shelf' = Among(shelf, rest) /\ UNCHANGED found
            /\ picked' = Among(picked, rest) /\ order' = Among(order, rest) /\ anchor' = AnchorAfterMove
            /\ focusDoc' = IF moving.focusDoc \in moving.ids THEN NoKey ELSE focusDoc
            /\ focusKey' = IF moving.focusKey \in moving.ids THEN NoKey ELSE focusKey
    /\ UNCHANGED <<lastDoc, activeDoc, synced, cleared, carried, picks, lists>>

-----------------------------------------------------------------------------
ListChanges ==
    \/ \E s \in Listings : FolderArrives(s) \/ (Among(s, Binders) = <<>> /\ SearchArrives(s))
    \/ SearchArrives(Unsearched)
    \/ \E ok \in BOOLEAN : MoveSettles(ok)
Picks ==
    \/ \E k \in Entries : Click(k) \/ ToggleClick(k) \/ RangeClick(k) \/ GridClick(k) \/ DragStart(k)
    \/ \E n \in 1..2, up, toEnd, shift \in BOOLEAN : ArrowKey(n, up, toEnd, shift)
    \/ FocusList \/ ClearPicked
SelectionEffects == SearchEntry \/ FocusDocEffect \/ FocusKeyEffect \/ ActiveEffect
SelectionNext == SelectionEffects \/ ListChanges \/ Picks \/ DragEnd \/ DropOnFolder

\* React runs the effects; the rest is the user's and the server's.
SelectionFairness ==
    WF_selVars(SearchEntry) /\ WF_selVars(FocusDocEffect) /\ WF_selVars(FocusKeyEffect) /\ WF_selVars(ActiveEffect)
SelectionSpec == SelectionInit /\ [][SelectionNext]_selVars /\ SelectionFairness

-----------------------------------------------------------------------------
(* Types; the order names what is picked, and nothing twice.               *)
SelectionTypeOK ==
    /\ shelf \in Listings /\ found \in Listings \cup {Unsearched}
    /\ IsInjective(picked) /\ IsInjective(order)
    /\ Range(picked) \subseteq Range(order) /\ Range(order) \subseteq Entries
    /\ {focusDoc, lastDoc, activeDoc} \subseteq Sheets \cup {NoKey} /\ {anchor, focusKey} \subseteq Entries \cup {NoKey}
    /\ {synced, cleared} \subseteq BOOLEAN /\ carried.docs \subseteq Sheets /\ carried.folders \subseteq Binders
    /\ moving.ids \subseteq Sheets /\ picks \in 0..MaxPicks /\ lists \in 0..MaxLists

(* Whatever adds to the selection leaves in it only what is on the list,   *)
(* though a search that ended left results picked that no folder shows     *)
(* (applySelection).                                                       *)
PickedIsListed ==
    [][Range(picked') \ Range(picked) # {} => Range(picked') \subseteq Range(Rows)]_selVars

(* Picking one range after another pivots on the same anchor, as long as   *)
(* the anchor is on the list: the range always reaches from it.            *)
RangesPivot ==
    [][\A k \in Entries : RangeClick(k) /\ anchor \in Range(Rows)
           => anchor' = anchor /\ {anchor, k} \subseteq Range(picked')]_selVars

(* No folder is picked while search results are shown: each search clears  *)
(* what the folder's list left picked (useWorkspaceSelectionSync).         *)
NoFolderInSearch == Rested /\ Searching => Range(picked) \subseteq Sheets

(* The anchor is never left on a document that a move took away, so no     *)
(* range starts from a row the user no longer sees picked                  *)
(* (useDocumentMoveMutations.ts:140-146).                                  *)
MovedIsNoAnchor ==
    [][MoveSettles(TRUE) => ({anchor'} \cup Range(picked') \cup Range(order')) \cap moving.ids = {}]_selVars

(* A drag takes what is picked, and leaves nothing else picked.            *)
DragTakesPicked ==
    [][carried = Nothing /\ carried' # Nothing => carried'.docs \cup carried'.folders = Range(picked')]_selVars

(* The effects that keep the keyboard's row, the focused document and the  *)
(* selection in step come to rest.                                         *)
EffectsRest == []<>Rested

\* What a click, a drag, a move or an effect may never do to the selection
\* (useWorkspaceSelection.ts, useDocumentListInteractions.ts).
SelectionIsSound == []NoFolderInSearch /\ PickedIsListed /\ RangesPivot /\ MovedIsNoAnchor /\ DragTakesPicked
=============================================================================
