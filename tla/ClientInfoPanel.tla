---------------------------- MODULE ClientInfoPanel ----------------------------
(***************************************************************************)
(* The details of the document shown in the viewer: the signed URL of its  *)
(* text (AssetManager), the Content tab that loads the text, the name of   *)
(* its folder, and the title and date edited in place.                     *)
(*                                                                         *)
(* The manager of documents tells its listeners in a later turn of the     *)
(* event loop, so what the panel has rendered (shown) may be behind what   *)
(* the manager holds (link); a load of the text keeps the URL its closure  *)
(* was rendered with.                                                      *)
(***************************************************************************)
EXTENDS Naturals, FiniteSets

CONSTANTS
    Papers,             \* documents
    Drawers,            \* folders a document can be in
    Blank,              \* no document, no folder
    MaxCalls,           \* bound: asset requests under way
    MaxLoads,           \* bound: loads of a text under way
    MaxPanelActs        \* bound: what the user and the clock do

ASSUME PanelConstants ==
    /\ Blank \notin Papers \cup Drawers
    /\ {MaxCalls, MaxLoads, MaxPanelActs} \subseteq Nat

VARIABLES
    viewed,     \* the document of the panel
    tab,        \* activeTabId
    scanned,    \* documents with a text-content asset
    link,       \* per document, the asset's URL in the documents manager
    shown,      \* the same, as the panel has rendered the viewed document
    assets,     \* the AssetManager: its cache, its inflight keys, its requests
    text,       \* contentState, and the document it is of
    pulls,      \* the calls of loadContent under way
    running,    \* activeControllerRef: the last of them
    place,      \* folder_id per document
    known,      \* folders whose name is loaded
    label,      \* folderName
    asks,       \* calls of resolveName under way
    edits,      \* the title and date forms
    saves,      \* their saves under way
    panelActs

viewVars == <<viewed, tab, scanned>>
assetVars == <<link, shown, assets>>
textVars == <<text, pulls, running>>
folderVars == <<place, known, label, asks>>
editVars == <<edits, saves>>
panelVars == <<viewVars, assetVars, textVars, folderVars, editVars, panelActs>>

-----------------------------------------------------------------------------
Urls == {"none", "fresh", "stale"}
CallIds == 1..MaxCalls
PullIds == 1..MaxLoads
Fields == {"title", "issued"}
NoCall == [of |-> Blank, by |-> 0]
NoPull == [of |-> Blank, had |-> "none", stage |-> "free", live |-> FALSE]
Shut == [open |-> FALSE, of |-> Blank, saving |-> FALSE, failed |-> FALSE]
SpareCalls(s) == {c \in CallIds : s.calls[c] = NoCall}
SparePulls == {p \in PullIds : pulls[p] = NoPull}
Least(S) == CHOOSE x \in S : \A y \in S : x <= y
Acting == panelActs < MaxPanelActs /\ panelActs' = panelActs + 1

TabsOf(d) == {"summary", "metadata"} \cup (IF d \in scanned THEN {"content"} ELSE {})
Summarised == viewed # Blank /\ tab = "summary"

\* --- AssetManager -----------------------------------------------------------
\* ensureAsset: what the cache satisfies is answered at once, a request already
\* under way is joined, and a forced one always goes out.
Satisfied(s, d, forced) == ~forced /\ s.cache[d] = "fresh"
Joined(s, d, forced) == ~forced /\ ~Satisfied(s, d, forced) /\ s.key[d] # 0
Ensured(s, d, forced, by) ==
    IF Satisfied(s, d, forced) \/ Joined(s, d, forced) \/ SpareCalls(s) = {} THEN s
    ELSE LET c == Least(SpareCalls(s)) IN
         [s EXCEPT !.calls[c] = [of |-> d, by |-> by], !.key[d] = c]

KeyAfter(d, ok) == 0
Answered(c, ok) ==
    LET d == assets.calls[c].of IN
    [assets EXCEPT !.calls[c] = NoCall, !.key[d] = KeyAfter(d, ok),
                   !.cache[d] = IF ok THEN "fresh" ELSE @]

\* --- the Content tab ----------------------------------------------------------
\* A change of tab, document or configuration aborts the load under way.
Aborted == IF running = 0 THEN pulls ELSE [pulls EXCEPT ![running].live = FALSE]

\* contentState after the effect that resets it for another document.
ResetFor(d) == [status |-> IF d \in scanned THEN "idle" ELSE "hidden", of |-> d]

\* Slip: an aborted load still shows its text.
SettledAnyway(p, s) == [status |-> s, of |-> pulls[p].of]
Settled(p, s) == IF pulls[p].live THEN [status |-> s, of |-> pulls[p].of] ELSE text

-----------------------------------------------------------------------------
\* --- the folder's name and the forms -----------------------------------------
\* The effect of the folder: its name if it is known, or a request for it. The
\* requests of earlier runs are no longer heard.
Unheard == {[a EXCEPT !.heard = FALSE] : a \in asks}
Named(f, names) == f = Blank \/ f \in names
LabelEffect(f) ==
    IF Named(f, known) THEN label' = f /\ asks' = Unheard
    ELSE label' = "loading" /\ asks' = Unheard \cup {[of |-> f, heard |-> TRUE]}
NoLabel == label' = "loading" /\ asks' = Unheard

FormsReset == [f \in Fields |-> Shut]

PanelInit ==
    /\ viewed = Blank /\ tab = "summary" /\ scanned \in SUBSET Papers
    /\ link = [d \in Papers |-> "none"] /\ shown = "none"
    /\ assets = [cache |-> [d \in Papers |-> "none"], key |-> [d \in Papers |-> 0], calls |-> [c \in CallIds |-> NoCall]]
    /\ text = ResetFor(Blank) /\ pulls = [p \in PullIds |-> NoPull] /\ running = 0
    /\ place \in [Papers -> Drawers \cup {Blank}] /\ known \in SUBSET Drawers
    /\ label = "loading" /\ asks = {}
    /\ edits = [f \in Fields |-> Shut] /\ saves = {}
    /\ panelActs = 0

\* --- opening, closing, choosing a tab -------------------------------------------
\* A panel that was closed starts on its first tab; one that is open keeps its
\* tab, whether the next document has it or not.
ViewPaper(d) ==
    /\ Acting /\ viewed # d
    /\ viewed' = d /\ tab' = IF viewed = Blank THEN "summary" ELSE tab
    /\ shown' = link[d]
    /\ text' = ResetFor(d) /\ pulls' = Aborted
    /\ edits' = FormsReset
    /\ IF tab' = "summary" THEN LabelEffect(place[d]) ELSE UNCHANGED <<label, asks>>
    /\ UNCHANGED <<scanned, link, assets, running, place, known, saves>>

Leave ==
    /\ Acting /\ viewed # Blank
    /\ viewed' = Blank /\ text' = ResetFor(Blank) /\ pulls' = Aborted
    /\ edits' = [f \in Fields |-> Shut] /\ saves' = {[s EXCEPT !.live = FALSE] : s \in saves}
    /\ NoLabel
    /\ UNCHANGED <<tab, scanned, assetVars, running, place, known>>

SelectTab(t) ==
    /\ Acting /\ viewed # Blank /\ t \in TabsOf(viewed) \ {tab}
    /\ tab' = t /\ pulls' = Aborted
    /\ edits' = [f \in Fields |-> Shut]
    /\ saves' = IF Summarised THEN {[s EXCEPT !.live = FALSE] : s \in saves} ELSE saves
    /\ IF t = "summary" THEN LabelEffect(place[viewed]) ELSE NoLabel
    /\ UNCHANGED <<viewed, scanned, assetVars, text, running, place, known>>

\* --- the text --------------------------------------------------------------------
\* loadOcrContent without a usable URL asks for one twice: the first request is
\* not waited for, the second is forced and is.
StartLoad ==
    /\ viewed # Blank /\ tab = "content" /\ viewed \in scanned /\ text.status = "idle"
    /\ SparePulls # {}
    /\ LET p == Least(SparePulls) IN
       /\ running' = p
       /\ pulls' = [pulls EXCEPT ![p] = [of |-> viewed, had |-> shown, live |-> TRUE,
                                         stage |-> IF shown = "fresh" THEN "body" ELSE "url"]]
       /\ text' = [status |-> "loading", of |-> viewed]
       /\ IF shown = "fresh" THEN UNCHANGED <<link, assets>>
          ELSE LET forced == shown = "stale" IN
               /\ Cardinality(SpareCalls(assets)) >= 2
               /\ assets' = Ensured(Ensured(assets, viewed, forced, 0), viewed, TRUE, p)
               /\ link' = IF Satisfied(assets, viewed, forced) THEN [link EXCEPT ![viewed] = "fresh"] ELSE link
    /\ UNCHANGED <<viewVars, shown, folderVars, editVars, panelActs>>

\* The awaited request answers: the closure still has the document it was
\* rendered with, and that one has no usable URL.
AssetAnswered(c) ==
    /\ assets.calls[c] # NoCall
    /\ LET d == assets.calls[c].of
           p == assets.calls[c].by
           again == p # 0 /\ pulls[p].live /\ pulls[p].had = "stale" IN
       /\ assets' = IF again THEN Ensured(Answered(c, TRUE), d, TRUE, 0) ELSE Answered(c, TRUE)
       /\ link' = [link EXCEPT ![d] = "fresh"]
       /\ IF p = 0 THEN UNCHANGED <<text, pulls>>
          ELSE text' = Settled(p, "empty") /\ pulls' = [pulls EXCEPT ![p] = NoPull]
    /\ UNCHANGED <<viewVars, shown, running, folderVars, editVars, panelActs>>

AssetRefused(c) ==
    /\ assets.calls[c] # NoCall
    /\ LET p == assets.calls[c].by IN
       /\ assets' = Answered(c, FALSE)
       /\ IF p = 0 THEN UNCHANGED <<text, pulls>>
          ELSE text' = Settled(p, "error") /\ pulls' = [pulls EXCEPT ![p] = NoPull]
    /\ UNCHANGED <<viewVars, link, shown, running, folderVars, editVars, panelActs>>

\* The text itself arrives, is empty, or cannot be fetched.
TextArrives(p, s) ==
    /\ pulls[p].stage = "body" /\ s \in {"loaded", "empty", "error"}
    /\ text' = Settled(p, s) /\ pulls' = [pulls EXCEPT ![p] = NoPull]
    /\ UNCHANGED <<viewVars, assetVars, running, folderVars, editVars, panelActs>>

\* The panel renders the document again: the configuration of the tab changes
\* with the document, which aborts the load under way.
Rerender ==
    /\ viewed # Blank /\ shown # link[viewed]
    /\ shown' = link[viewed] /\ pulls' = Aborted
    /\ UNCHANGED <<viewVars, link, assets, text, running, folderVars, editVars, panelActs>>

\* A listing answers with the document: its assets come without URLs.
Relisted(d) ==
    /\ Acting /\ link[d] # "none"
    /\ link' = [link EXCEPT ![d] = "none"]
    /\ UNCHANGED <<viewVars, shown, assets, textVars, folderVars, editVars>>

UrlExpires(d) ==
    /\ Acting /\ "fresh" \in {link[d], assets.cache[d]}
    /\ LET Aged(u) == IF u = "fresh" THEN "stale" ELSE u IN
       /\ link' = [link EXCEPT ![d] = Aged(@)]
       /\ assets' = [assets EXCEPT !.cache[d] = Aged(@)]
       /\ shown' = IF d = viewed THEN Aged(shown) ELSE shown
    /\ UNCHANGED <<viewVars, textVars, folderVars, editVars>>

\* --- the folder --------------------------------------------------------------------
MovePaper(d, f) ==
    /\ Acting /\ place[d] # f
    /\ place' = [place EXCEPT ![d] = f]
    /\ IF d = viewed /\ Summarised THEN LabelEffect(f) ELSE UNCHANGED <<label, asks>>
    /\ UNCHANGED <<viewVars, assetVars, textVars, known, editVars>>

LabelOf(a) ==
    IF a.heard THEN a.of
    ELSE IF Summarised /\ Named(place[viewed], known \cup {a.of}) THEN place[viewed]
    ELSE label

NameArrives(a) ==
    /\ a \in asks /\ asks' = asks \ {a}
    /\ known' = known \cup {a.of} /\ label' = LabelOf(a)
    /\ UNCHANGED <<viewVars, assetVars, textVars, place, editVars, panelActs>>

NameRefused(a) ==
    /\ a \in asks /\ asks' = asks \ {a}
    /\ UNCHANGED <<viewVars, assetVars, textVars, place, known, label, editVars, panelActs>>

\* --- the forms ---------------------------------------------------------------------
StartEdit(f) ==
    /\ Acting /\ Summarised /\ ~edits[f].open
    /\ edits' = [edits EXCEPT ![f] = [Shut EXCEPT !.open = TRUE, !.of = viewed]]
    /\ UNCHANGED <<viewVars, assetVars, textVars, folderVars, saves>>

CancelEdit(f) ==
    /\ Acting /\ Summarised /\ edits[f].open
    /\ edits' = [edits EXCEPT ![f] = Shut]
    /\ UNCHANGED <<viewVars, assetVars, textVars, folderVars, saves>>

\* An empty title is refused by the form; an unchanged date closes it.
SubmitEdit(f) ==
    /\ Acting /\ Summarised /\ edits[f].open /\ ~edits[f].saving
    /\ \/ f = "title" /\ edits' = [edits EXCEPT ![f].failed = TRUE] /\ UNCHANGED saves
       \/ f = "issued" /\ edits' = [edits EXCEPT ![f] = Shut] /\ UNCHANGED saves
       \/ /\ edits' = [edits EXCEPT ![f].saving = TRUE]
          /\ saves' = saves \cup {[field |-> f, of |-> viewed, live |-> TRUE]}
    /\ UNCHANGED <<viewVars, assetVars, textVars, folderVars>>

FormAfter(s, ok) == IF ok THEN Shut ELSE [edits[s.field] EXCEPT !.saving = FALSE, !.failed = TRUE]

\* A save is answered; the form it came from may be gone, or be of another
\* document by now.
SaveAnswered(s, ok) ==
    /\ s \in saves /\ saves' = saves \ {s}
    /\ edits' = IF s.live THEN [edits EXCEPT ![s.field] = FormAfter(s, ok)] ELSE edits
    /\ UNCHANGED <<viewVars, assetVars, textVars, folderVars, panelActs>>

-----------------------------------------------------------------------------
PanelServed ==
    \/ \E c \in CallIds : AssetAnswered(c) \/ AssetRefused(c)
    \/ \E p \in PullIds, s \in {"loaded", "empty", "error"} : TextArrives(p, s)
    \/ \E a \in asks : NameArrives(a) \/ NameRefused(a)
    \/ \E s \in saves, ok \in BOOLEAN : SaveAnswered(s, ok)
InfoUser ==
    \/ \E d \in Papers : ViewPaper(d) \/ Relisted(d) \/ UrlExpires(d)
    \/ Leave \/ \E t \in {"summary", "content", "metadata"} : SelectTab(t)
    \/ \E d \in Papers, f \in Drawers \cup {Blank} : MovePaper(d, f)
    \/ \E f \in Fields : StartEdit(f) \/ CancelEdit(f) \/ SubmitEdit(f)
PanelNext == PanelServed \/ StartLoad \/ Rerender \/ InfoUser

\* Requests are answered, and the browser runs effects and renders.
PanelFairness ==
    /\ WF_panelVars(StartLoad) /\ WF_panelVars(Rerender)
    /\ \A c \in CallIds : WF_panelVars(AssetAnswered(c) \/ AssetRefused(c))
    /\ \A p \in PullIds : WF_panelVars(\E s \in {"loaded", "empty", "error"} : TextArrives(p, s))
PanelSpec == PanelInit /\ [][PanelNext]_panelVars /\ PanelFairness

-----------------------------------------------------------------------------
(* Types.                                                                  *)
PanelTypeOK ==
    /\ viewed \in Papers \cup {Blank} /\ tab \in {"summary", "content", "metadata"}
    /\ scanned \subseteq Papers /\ link \in [Papers -> Urls] /\ shown \in Urls
    /\ assets \in [cache : [Papers -> Urls], key : [Papers -> CallIds \cup {0}],
                   calls : [CallIds -> [of : Papers \cup {Blank}, by : PullIds \cup {0}]]]
    /\ text \in [status : {"hidden", "idle", "loading", "loaded", "empty", "error"}, of : Papers \cup {Blank}]
    /\ text.of = viewed => (text.status = "hidden") = (viewed \notin scanned)
    /\ pulls \in [PullIds -> [of : Papers \cup {Blank}, had : Urls, stage : {"free", "url", "body"}, live : BOOLEAN]]
    /\ running \in PullIds \cup {0}
    /\ place \in [Papers -> Drawers \cup {Blank}] /\ known \subseteq Drawers
    /\ label \in Drawers \cup {Blank, "loading"}
    /\ asks \subseteq [of : Drawers, heard : BOOLEAN]
    /\ edits \in [Fields -> [open : BOOLEAN, of : Papers \cup {Blank}, saving : BOOLEAN, failed : BOOLEAN]]
    /\ saves \subseteq [field : Fields, of : Papers, live : BOOLEAN]
    /\ panelActs \in 0..MaxPanelActs

(* What the Content tab says is about the document on display, whatever    *)
(* loads of earlier ones are still under way: an aborted load is not heard *)
(* (DocumentInfoPanel.tsx:434-449).                                        *)
TextIsOfViewed == text.of = viewed

(* A key of the AssetManager is of a request under way: a later request    *)
(* never joins one that has ended, however it ended.                       *)
KeysAreLive == \A d \in Papers : assets.key[d] # 0 => assets.calls[assets.key[d]].of = d

(* The folder named in the summary is the document's own, although names   *)
(* asked for earlier documents and folders are still under way.            *)
FolderIsItsOwn == Summarised /\ label # "loading" => label = place[viewed]

(* A form on display was opened for the document on display: saving never  *)
(* writes to one document what was drafted for another.                    *)
DraftIsOfViewed == \A f \in Fields : edits[f].open => edits[f].of = viewed

(* A form that waits for its save waits for one that is under way.         *)
FormsAreReleased == \A f \in Fields : edits[f].saving => \E s \in saves : s.field = f /\ s.live

(* The text of a document is loaded, or said to be missing, once its tab   *)
(* is shown (docs/s3_cors_presign.md:3).                                   *)
TextLoadEnds == (text.status = "loading") ~> (text.status # "loading")

\* Everything in the panel is of the document it shows, whatever requests for
\* earlier ones are under way, and no form or key waits for an answer that is gone.
PanelIsOfViewed == TextIsOfViewed /\ FolderIsItsOwn /\ DraftIsOfViewed /\ KeysAreLive /\ FormsAreReleased
=============================================================================
