--------------------------- MODULE ClientViewerProofs ---------------------------
(***************************************************************************)
(* What the details of a document (ClientInfoPanel), the uploads           *)
(* (ClientUploads), the shell around them (ClientShell) and the selection  *)
(* in the list (ClientSelection) promise for any number of documents,      *)
(* files, batches, folders, rows and notices and any widths; and the four  *)
(* put together, as the run of MCClientViewer has them.                    *)
(*                                                                         *)
(* The server answers late, and what asked may have gone or turned to      *)
(* something else.  The invariants say whom an answer still reaches: a     *)
(* call of the details is of the document under whose key it is kept, and  *)
(* a batch goes on with its own folder whatever becomes of the cache it    *)
(* shares.  The shell and the selection wait for no server: their          *)
(* invariants say which effect is due where what is on display and what is *)
(* selected differ.                                                        *)
(***************************************************************************)
EXTENDS MCClientViewer, TLAPS, SequenceTheorems, FiniteSetTheorems, WellFoundedInduction


-----------------------------------------------------------------------------
(* Lemmas about numbers.                                                   *)

\* A set of naturals that is not empty has a smallest element.
LEMMA LeastExists ==
    ASSUME NEW T \in SUBSET Nat, T # {}
    PROVE  \E x \in T : \A y \in T : x <= y
<1> DEFINE Less == {ss \in Nat \X Nat : ss[1] < ss[2]}
<1>1. IsWellFoundedOn(Less, Nat)
  BY NatLessThanWellFounded DEF OpToRel
<1>2. \E x \in T : \A y \in T : ~(<<y, x>> \in Less)
  <2> HIDE DEF Less
  <2> QED BY <1>1, WFMin
<1>3. PICK x \in T : \A y \in T : ~(<<y, x>> \in Less)
  BY <1>2
<1>4. ASSUME NEW y \in T PROVE x <= y
  <2>1. x \in Nat /\ y \in Nat /\ ~(<<y, x>> \in Less)
    BY <1>3
  <2>2. ~(y < x)
    BY <2>1
  <2> QED BY <2>1, <2>2
<1> QED BY <1>4

-----------------------------------------------------------------------------
(* The details of a document: the invariant.                               *)

CallRecord == [of : Papers \cup {Blank}, by : PullIds \cup {0}]
PullRecord == [of : Papers \cup {Blank}, had : Urls, stage : {"free", "url", "body"}, live : BOOLEAN]
AssetRecord == [cache : [Papers -> Urls], key : [Papers -> CallIds \cup {0}], calls : [CallIds -> CallRecord]]
Statuses == {"hidden", "idle", "loading", "loaded", "empty", "error"}

\* A manager of assets: its requests are of documents, and a key is of one of them.
AssetsOK(s) ==
  /\ s \in AssetRecord
  /\ \A c \in CallIds : s.calls[c] # NoCall => s.calls[c].of \in Papers
  /\ \A d \in Papers : s.key[d] # 0 => s.calls[s.key[d]].of = d

\* The load that is heard is the last one, of the document on display.
TextInv ==
  /\ text \in [status : Statuses, of : {viewed}]
  /\ text.status = "hidden" <=> viewed \notin scanned
  /\ pulls \in [PullIds -> PullRecord] /\ running \in PullIds \cup {0}
  /\ \A p \in PullIds : pulls[p].live => p = running /\ pulls[p].of = viewed /\ text.status = "loading"

\* A name that is still heard is of the folder shown.
LabelInv ==
  /\ place \in [Papers -> Drawers \cup {Blank}] /\ known \subseteq Drawers
  /\ label \in Drawers \cup {Blank, "loading"}
  /\ asks \subseteq [of : Drawers, heard : BOOLEAN]
  /\ \A a \in asks : a.heard => Summarised /\ a.of = place[viewed]
  /\ FolderIsItsOwn

FormsInv ==
  /\ edits \in [Fields -> [open : BOOLEAN, of : Papers \cup {Blank}, saving : BOOLEAN, failed : BOOLEAN]]
  /\ saves \subseteq [field : Fields, of : Papers, live : BOOLEAN]
  /\ DraftIsOfViewed /\ FormsAreReleased

ViewInv ==
  /\ viewed \in Papers \cup {Blank} /\ tab \in {"summary", "content", "metadata"}
  /\ scanned \subseteq Papers /\ link \in [Papers -> Urls] /\ shown \in Urls
  /\ panelActs \in 0..MaxPanelActs

PanelIInv == ViewInv /\ AssetsOK(assets) /\ TextInv /\ LabelInv /\ FormsInv

LEMMA LeastIsIn == ASSUME NEW T \in SUBSET Nat, T # {} PROVE Least(T) \in T
BY LeastExists DEF Least

LEMMA BlankIsNoPaper == Blank \notin Papers /\ Blank \notin Drawers
BY PanelConstants

-----------------------------------------------------------------------------
(* The details of a document: requests for URLs.                           *)

LEMMA EnsuredOK ==
    ASSUME NEW s, AssetsOK(s), NEW d \in Papers, NEW forced \in BOOLEAN, NEW by \in PullIds \cup {0}
    PROVE  AssetsOK(Ensured(s, d, forced, by))
<1>1. CASE Satisfied(s, d, forced) \/ Joined(s, d, forced) \/ SpareCalls(s) = {}
  BY <1>1 DEF Ensured
<1>2. CASE ~(Satisfied(s, d, forced) \/ Joined(s, d, forced) \/ SpareCalls(s) = {})
  <2>1. PICK c : c = Least(SpareCalls(s))
    OBVIOUS
  <2>2. c \in CallIds /\ s.calls[c] = NoCall
    <3>1. SpareCalls(s) \in SUBSET Nat
      BY DEF SpareCalls, CallIds
    <3>2. SpareCalls(s) # {}
      BY <1>2
    <3>3. c \in SpareCalls(s)
      BY <2>1, <3>1, <3>2, LeastIsIn
    <3> QED BY <3>3 DEF SpareCalls
  <2>3. PICK k : k = [of |-> d, by |-> by]
    OBVIOUS
  <2>4. PICK t : t = [s EXCEPT !.calls[c] = k, !.key[d] = c]
    OBVIOUS
  <2>5. Ensured(s, d, forced, by) = t
    BY <1>2, <2>1, <2>3, <2>4 DEF Ensured
  <2>6. /\ t.cache = s.cache /\ t.calls = [s.calls EXCEPT ![c] = k] /\ t.key = [s.key EXCEPT ![d] = c]
        /\ t = [cache |-> t.cache, key |-> t.key, calls |-> t.calls]
    BY <2>4 DEF AssetsOK, AssetRecord
  <2>7. k \in CallRecord /\ k.of = d
    BY <2>3 DEF CallRecord
  <2>8. /\ s.calls \in [CallIds -> CallRecord] /\ s.key \in [Papers -> CallIds \cup {0}] /\ s.cache \in [Papers -> Urls]
    BY DEF AssetsOK, AssetRecord
  <2>9. t \in AssetRecord
    <3>1. t.calls \in [CallIds -> CallRecord] /\ t.key \in [Papers -> CallIds \cup {0}] /\ t.cache \in [Papers -> Urls]
      BY <2>2, <2>6, <2>7, <2>8
    <3> QED BY <2>6, <3>1 DEF AssetRecord
  <2>10. \A e \in CallIds : t.calls[e] # NoCall => t.calls[e].of \in Papers
    BY <2>2, <2>6, <2>7, <2>8 DEF AssetsOK
  <2>11. ASSUME NEW e \in Papers, t.key[e] # 0 PROVE t.calls[t.key[e]].of = e
    <3>1. CASE e = d
      BY <2>2, <2>6, <2>7, <2>8, <3>1
    <3>2. CASE e # d
      <4>1. t.key[e] = s.key[e] /\ s.calls[s.key[e]].of = e
        BY <2>6, <2>8, <2>11, <3>2 DEF AssetsOK
      <4>2. s.key[e] # c
        BY <2>2, <4>1, BlankIsNoPaper DEF NoCall
      <4> QED BY <2>6, <2>8, <2>11, <4>1, <4>2
    <3> QED BY <3>1, <3>2
  <2> QED BY <2>5, <2>9, <2>10, <2>11 DEF AssetsOK
<1> QED BY <1>1, <1>2

LEMMA AnsweredOK ==
    ASSUME AssetsOK(assets), NEW c \in CallIds, assets.calls[c] # NoCall, NEW ok \in BOOLEAN
    PROVE  AssetsOK(Answered(c, ok))
<1>1. PICK s : s = assets
  OBVIOUS
<1>2. PICK d : d = s.calls[c].of
  OBVIOUS
<1>3. /\ s.calls \in [CallIds -> CallRecord] /\ s.key \in [Papers -> CallIds \cup {0}] /\ s.cache \in [Papers -> Urls]
      /\ d \in Papers /\ AssetsOK(s)
  BY <1>1, <1>2 DEF AssetsOK, AssetRecord
<1>4. PICK u : u = IF ok THEN "fresh" ELSE s.cache[d]
  OBVIOUS
<1>5. PICK t : t = [s EXCEPT !.calls[c] = NoCall, !.key[d] = 0, !.cache[d] = u]
  OBVIOUS
<1>6. Answered(c, ok) = t
  BY <1>1, <1>2, <1>4, <1>5 DEF Answered, KeyAfter
<1>7. /\ t.cache = [s.cache EXCEPT ![d] = u] /\ t.calls = [s.calls EXCEPT ![c] = NoCall] /\ t.key = [s.key EXCEPT ![d] = 0]
      /\ t = [cache |-> t.cache, key |-> t.key, calls |-> t.calls]
  BY <1>3, <1>5 DEF AssetsOK, AssetRecord
<1>8. u \in Urls
  BY <1>3, <1>4 DEF Urls
<1>9. NoCall \in CallRecord
  BY DEF NoCall, CallRecord
<1>10. t \in AssetRecord
  <2>1. t.calls \in [CallIds -> CallRecord] /\ t.key \in [Papers -> CallIds \cup {0}] /\ t.cache \in [Papers -> Urls]
    BY <1>3, <1>7, <1>8, <1>9
  <2> QED BY <1>7, <2>1 DEF AssetRecord
<1>11. \A e \in CallIds : t.calls[e] # NoCall => t.calls[e].of \in Papers
  BY <1>3, <1>7 DEF AssetsOK
<1>12. ASSUME NEW e \in Papers, t.key[e] # 0 PROVE t.calls[t.key[e]].of = e
  <2>1. e # d
    BY <1>3, <1>7, <1>12
  <2>2. t.key[e] = s.key[e] /\ s.calls[s.key[e]].of = e
    BY <1>3, <1>7, <1>12, <2>1 DEF AssetsOK
  <2>3. s.key[e] # c
    BY <1>2, <2>1, <2>2
  <2> QED BY <1>3, <1>7, <1>12, <2>2, <2>3
<1> QED BY <1>6, <1>10, <1>11, <1>12 DEF AssetsOK

-----------------------------------------------------------------------------
(* The details of a document: what a change of the panel resets.           *)

\* Once the load under way is aborted no load is heard.
LEMMA AbortedIsSilent ==
    ASSUME TextInv
    PROVE  Aborted \in [PullIds -> PullRecord] /\ \A p \in PullIds : ~Aborted[p].live
<1>1. CASE running = 0
  <2>1. \A p \in PullIds : p # 0
    BY DEF PullIds
  <2> QED BY <1>1, <2>1 DEF Aborted, TextInv, PullRecord
<1>2. CASE running # 0
  <2>1. Aborted = [pulls EXCEPT ![running].live = FALSE] /\ running \in PullIds
    BY <1>2 DEF Aborted, TextInv
  <2>2. PICK g : g = [pulls[running] EXCEPT !.live = FALSE]
    OBVIOUS
  <2>3. g \in PullRecord /\ ~g.live
    BY <2>1, <2>2 DEF TextInv, PullRecord
  <2>4. Aborted = [pulls EXCEPT ![running] = g]
    BY <2>1, <2>2
  <2> QED BY <2>1, <2>3, <2>4 DEF TextInv
<1> QED BY <1>1, <1>2

\* The text of another document, none of its loads begun.
LEMMA ResetIsFresh ==
    ASSUME NEW d
    PROVE  ResetFor(d) \in [status : Statuses, of : {d}] /\ (ResetFor(d).status = "hidden" <=> d \notin scanned)
BY DEF ResetFor, Statuses

LEMMA UnheardAsks ==
    ASSUME asks \subseteq [of : Drawers, heard : BOOLEAN]
    PROVE  Unheard \subseteq [of : Drawers, heard : BOOLEAN] /\ \A a \in Unheard : ~a.heard
BY DEF Unheard

LEMMA LabelFollows ==
    ASSUME asks \subseteq [of : Drawers, heard : BOOLEAN], NEW f \in Drawers \cup {Blank}, LabelEffect(f)
    PROVE  /\ label' \in Drawers \cup {Blank, "loading"} /\ label' \in {f, "loading"}
           /\ asks' \subseteq [of : Drawers, heard : BOOLEAN]
           /\ \A a \in asks' : a.heard => a.of = f
<1>1. CASE Named(f, known)
  BY <1>1, UnheardAsks DEF LabelEffect
<1>2. CASE ~Named(f, known)
  <2>1. label' = "loading" /\ asks' = Unheard \cup {[of |-> f, heard |-> TRUE]} /\ f \in Drawers
    BY <1>2 DEF LabelEffect, Named
  <2>2. PICK n : n = [of |-> f, heard |-> TRUE]
    OBVIOUS
  <2>3. n \in [of : Drawers, heard : BOOLEAN] /\ n.of = f
    BY <2>1, <2>2
  <2>4. asks' = Unheard \cup {n}
    BY <2>1, <2>2
  <2>5. asks' \subseteq [of : Drawers, heard : BOOLEAN] /\ \A a \in asks' : a.heard => a.of = f
    BY <2>3, <2>4, UnheardAsks
  <2> QED BY <2>1, <2>5
<1> QED BY <1>1, <1>2

LEMMA PartsLeftAlone ==
    /\ TextInv /\ UNCHANGED <<viewed, scanned, text, pulls, running>> => TextInv'
    /\ LabelInv /\ UNCHANGED <<viewed, tab, place, known, label, asks>> => LabelInv'
    /\ FormsInv /\ UNCHANGED <<viewed, edits, saves>> => FormsInv'
    /\ AssetsOK(assets) /\ UNCHANGED assets => AssetsOK(assets)'
<1>1. ASSUME TextInv, UNCHANGED <<viewed, scanned, text, pulls, running>> PROVE TextInv'
  BY <1>1 DEF TextInv
<1>2. ASSUME LabelInv, UNCHANGED <<viewed, tab, place, known, label, asks>> PROVE LabelInv'
  BY <1>2 DEF LabelInv, FolderIsItsOwn, Summarised
<1>3. ASSUME FormsInv, UNCHANGED <<viewed, edits, saves>> PROVE FormsInv'
  BY <1>3 DEF FormsInv, DraftIsOfViewed, FormsAreReleased
<1>4. ASSUME AssetsOK(assets), UNCHANGED assets PROVE AssetsOK(assets)'
  BY <1>4 DEF AssetsOK
<1> QED BY <1>1, <1>2, <1>3, <1>4

LEMMA ShutForms ==
    ASSUME saves' \subseteq [field : Fields, of : Papers, live : BOOLEAN], edits' = [f \in Fields |-> Shut]
    PROVE  FormsInv'
BY DEF FormsInv, DraftIsOfViewed, FormsAreReleased, Shut

\* Saves whose form has gone.
LEMMA SavesLetGo ==
    ASSUME saves \subseteq [field : Fields, of : Papers, live : BOOLEAN]
    PROVE  {[s EXCEPT !.live = FALSE] : s \in saves} \subseteq [field : Fields, of : Papers, live : BOOLEAN]
OBVIOUS

\* All loads silenced, and the text that of document d before any load.
LEMMA TextStartsAnew ==
    ASSUME TextInv, text' = ResetFor(viewed'), pulls' = Aborted, UNCHANGED <<scanned, running>>
    PROVE  TextInv'
<1>1. pulls' \in [PullIds -> PullRecord] /\ \A p \in PullIds : ~pulls'[p].live
  BY AbortedIsSilent
<1>2. text' \in [status : Statuses, of : {viewed'}] /\ (text'.status = "hidden" <=> viewed' \notin scanned)
  BY ResetIsFresh
<1> QED BY <1>1, <1>2 DEF TextInv

LEMMA ActsCounted == ASSUME ViewInv, Acting PROVE panelActs' \in 0..MaxPanelActs
BY PanelConstants DEF ViewInv, Acting

-----------------------------------------------------------------------------
(* The details of a document: opening, closing, choosing a tab.            *)

LEMMA ViewPaperKeeps == ASSUME PanelIInv, NEW d \in Papers, ViewPaper(d) PROVE PanelIInv'
<1>1. ViewInv /\ AssetsOK(assets) /\ TextInv /\ LabelInv /\ FormsInv
  BY DEF PanelIInv
<1>2. /\ Acting /\ viewed' = d /\ tab' = (IF viewed = Blank THEN "summary" ELSE tab)
      /\ shown' = link[d] /\ text' = ResetFor(d) /\ pulls' = Aborted /\ edits' = [f \in Fields |-> Shut]
      /\ IF tab' = "summary" THEN LabelEffect(place[d]) ELSE UNCHANGED <<label, asks>>
      /\ UNCHANGED <<scanned, link, assets, running, place, known, saves>>
  BY DEF ViewPaper, FormsReset
<1>3. ViewInv'
  BY <1>1, <1>2, ActsCounted DEF ViewInv
<1>4. TextInv'
  BY <1>1, <1>2, TextStartsAnew
<1>5. FormsInv'
  BY <1>1, <1>2, ShutForms DEF FormsInv
<1>6. LabelInv'
  <2>1. place[d] \in Drawers \cup {Blank} /\ d # Blank
    BY <1>1, BlankIsNoPaper DEF LabelInv
  <2>2. CASE tab' = "summary"
    <3>1. Summarised'
      BY <1>2, <2>1, <2>2 DEF Summarised
    <3>2. /\ label' \in Drawers \cup {Blank, "loading"} /\ label' \in {place[d], "loading"}
          /\ asks' \subseteq [of : Drawers, heard : BOOLEAN]
          /\ \A a \in asks' : a.heard => a.of = place[d]
      BY <1>1, <1>2, <2>1, <2>2, LabelFollows DEF LabelInv
    <3> QED BY <1>1, <1>2, <3>1, <3>2 DEF LabelInv, FolderIsItsOwn
  <2>3. CASE tab' # "summary"
    <3>1. ~Summarised /\ ~Summarised'
      BY <1>2, <2>3 DEF Summarised
    <3> QED BY <1>1, <1>2, <2>3, <3>1 DEF LabelInv, FolderIsItsOwn
  <2> QED BY <2>2, <2>3
<1>7. AssetsOK(assets)'
  BY <1>1, <1>2, PartsLeftAlone
<1> QED BY <1>3, <1>4, <1>5, <1>6, <1>7 DEF PanelIInv

\* Nobody sees the name.
LEMMA NoLabelKeeps ==
    ASSUME LabelInv, NoLabel, UNCHANGED <<place, known>>
    PROVE  LabelInv'
BY UnheardAsks DEF LabelInv, NoLabel, FolderIsItsOwn

LEMMA LeaveKeeps == ASSUME PanelIInv, Leave PROVE PanelIInv'
<1>1. ViewInv /\ AssetsOK(assets) /\ TextInv /\ LabelInv /\ FormsInv
  BY DEF PanelIInv
<1>2. /\ Acting /\ viewed' = Blank /\ text' = ResetFor(Blank) /\ pulls' = Aborted
      /\ edits' = [f \in Fields |-> Shut] /\ saves' = {[s EXCEPT !.live = FALSE] : s \in saves}
      /\ NoLabel /\ UNCHANGED <<tab, scanned, link, shown, assets, running, place, known>>
  BY DEF Leave, assetVars
<1>3. ViewInv'
  BY <1>1, <1>2, ActsCounted DEF ViewInv
<1>4. TextInv'
  BY <1>1, <1>2, TextStartsAnew
<1>5. FormsInv'
  BY <1>1, <1>2, ShutForms, SavesLetGo DEF FormsInv
<1>6. LabelInv' /\ AssetsOK(assets)'
  BY <1>1, <1>2, NoLabelKeeps, PartsLeftAlone
<1> QED BY <1>3, <1>4, <1>5, <1>6 DEF PanelIInv

LEMMA SelectTabKeeps ==
    ASSUME PanelIInv, NEW t \in {"summary", "content", "metadata"}, SelectTab(t)
    PROVE  PanelIInv'
<1>1. ViewInv /\ AssetsOK(assets) /\ TextInv /\ LabelInv /\ FormsInv
  BY DEF PanelIInv
<1>2. /\ Acting /\ viewed # Blank /\ tab' = t /\ pulls' = Aborted /\ edits' = [f \in Fields |-> Shut]
      /\ saves' = IF Summarised THEN {[s EXCEPT !.live = FALSE] : s \in saves} ELSE saves
      /\ IF t = "summary" THEN LabelEffect(place[viewed]) ELSE NoLabel
      /\ UNCHANGED <<viewed, scanned, link, shown, assets, text, running, place, known>>
  BY DEF SelectTab, assetVars
<1>3. ViewInv'
  BY <1>1, <1>2, ActsCounted DEF ViewInv
<1>4. TextInv'
  <2>1. pulls' \in [PullIds -> PullRecord] /\ \A p \in PullIds : ~pulls'[p].live
    BY <1>1, <1>2, AbortedIsSilent
  <2> QED BY <1>1, <1>2, <2>1 DEF TextInv
<1>5. FormsInv'
  <2>1. saves' \subseteq [field : Fields, of : Papers, live : BOOLEAN]
    BY <1>1, <1>2, SavesLetGo DEF FormsInv
  <2> QED BY <1>2, <2>1, ShutForms
<1>6. LabelInv'
  <2>1. viewed \in Papers
    BY <1>1, <1>2 DEF ViewInv
  <2>2. CASE t = "summary"
    <3>1. Summarised'
      BY <1>2, <2>2 DEF Summarised
    <3>2. place[viewed] \in Drawers \cup {Blank}
      BY <1>1, <2>1 DEF LabelInv
    <3>3. /\ label' \in Drawers \cup {Blank, "loading"} /\ label' \in {place[viewed], "loading"}
          /\ asks' \subseteq [of : Drawers, heard : BOOLEAN]
          /\ \A a \in asks' : a.heard => a.of = place[viewed]
      BY <1>1, <1>2, <2>2, <3>2, LabelFollows DEF LabelInv
    <3> QED BY <1>1, <1>2, <3>1, <3>3 DEF LabelInv, FolderIsItsOwn
  <2>3. CASE t # "summary"
    BY <1>1, <1>2, <2>3, NoLabelKeeps
  <2> QED BY <2>2, <2>3
<1>7. AssetsOK(assets)'
  BY <1>1, <1>2, PartsLeftAlone
<1> QED BY <1>3, <1>4, <1>5, <1>6, <1>7 DEF PanelIInv

-----------------------------------------------------------------------------
(* The details of a document: the text.                                    *)

LEMMA StartLoadKeeps == ASSUME PanelIInv, StartLoad PROVE PanelIInv'
<1>1. ViewInv /\ AssetsOK(assets) /\ TextInv /\ LabelInv /\ FormsInv
  BY DEF PanelIInv
<1>2. PICK p : p = Least(SparePulls)
  OBVIOUS
<1>3. PICK q : q = [of |-> viewed, had |-> shown, live |-> TRUE, stage |-> IF shown = "fresh" THEN "body" ELSE "url"]
  OBVIOUS
<1>4. /\ viewed # Blank /\ viewed \in scanned /\ text.status = "idle" /\ SparePulls # {}
      /\ running' = p /\ pulls' = [pulls EXCEPT ![p] = q] /\ text' = [status |-> "loading", of |-> viewed]
      /\ IF shown = "fresh" THEN UNCHANGED <<link, assets>>
         ELSE LET forced == shown = "stale" IN
              /\ assets' = Ensured(Ensured(assets, viewed, forced, 0), viewed, TRUE, p)
              /\ link' = IF Satisfied(assets, viewed, forced) THEN [link EXCEPT ![viewed] = "fresh"] ELSE link
      /\ UNCHANGED <<viewed, tab, scanned, shown, place, known, label, asks, edits, saves, panelActs>>
  BY <1>2, <1>3 DEF StartLoad, viewVars, folderVars, editVars
<1>5. p \in PullIds
  <2>1. SparePulls \in SUBSET Nat
    BY DEF SparePulls, PullIds
  <2>2. p \in SparePulls
    BY <1>2, <1>4, <2>1, LeastIsIn
  <2> QED BY <2>2 DEF SparePulls
<1>6. viewed \in Papers
  BY <1>1, <1>4 DEF ViewInv
<1>7. AssetsOK(assets') /\ ViewInv'
  <2>1. CASE shown = "fresh"
    BY <1>1, <1>4, <2>1 DEF ViewInv
  <2>2. CASE shown # "fresh"
    <3>1. PICK forced \in BOOLEAN : forced = (shown = "stale")
      OBVIOUS
    <3>2. PICK s : s = Ensured(assets, viewed, forced, 0)
      OBVIOUS
    <3>3. AssetsOK(s)
      BY <1>1, <1>6, <3>2, EnsuredOK
    <3>4. assets' = Ensured(s, viewed, TRUE, p)
      BY <1>4, <2>2, <3>1, <3>2
    <3>5. AssetsOK(assets')
      BY <1>5, <1>6, <3>3, <3>4, EnsuredOK
    <3>6. link' \in [Papers -> Urls]
      BY <1>1, <1>4, <2>2 DEF ViewInv, Urls
    <3> QED BY <1>1, <1>4, <3>5, <3>6 DEF ViewInv
  <2> QED BY <2>1, <2>2
<1>8. TextInv'
  <2>1. q \in PullRecord /\ q.of = viewed
    BY <1>1, <1>3 DEF PullRecord, ViewInv
  <2>2. \A e \in PullIds : ~pulls[e].live
    BY <1>1, <1>4 DEF TextInv
  <2>3. \A e \in PullIds : pulls'[e] = IF e = p THEN q ELSE pulls[e]
    BY <1>1, <1>4 DEF TextInv
  <2>4. pulls' \in [PullIds -> PullRecord]
    BY <1>1, <1>4, <2>1 DEF TextInv
  <2> QED BY <1>1, <1>4, <1>5, <2>1, <2>2, <2>3, <2>4 DEF TextInv, Statuses
<1>9. LabelInv' /\ FormsInv'
  BY <1>1, <1>4, PartsLeftAlone
<1>10. AssetsOK(assets)'
  BY <1>7 DEF AssetsOK
<1> QED BY <1>7, <1>8, <1>9, <1>10 DEF PanelIInv

\* A load that ends says how, if it is still heard.
LEMMA SettledKeepsText ==
    ASSUME TextInv, NEW p \in PullIds, NEW s \in {"loaded", "empty", "error"},
           text' = Settled(p, s), pulls' = [pulls EXCEPT ![p] = NoPull], UNCHANGED <<viewed, scanned, running>>
    PROVE  TextInv'
<1>1. NoPull \in PullRecord /\ ~NoPull.live
  BY DEF NoPull, PullRecord, Urls
<1>2. pulls' \in [PullIds -> PullRecord] /\ \A e \in PullIds : pulls'[e] = IF e = p THEN NoPull ELSE pulls[e]
  BY <1>1 DEF TextInv
<1>3. CASE pulls[p].live
  <2>1. text' = [status |-> s, of |-> pulls[p].of] /\ pulls[p].of = viewed /\ p = running /\ text.status = "loading"
    BY <1>3 DEF Settled, TextInv
  <2>2. \A e \in PullIds : ~pulls'[e].live
    BY <1>1, <1>2, <2>1 DEF TextInv
  <2> QED BY <1>2, <2>1, <2>2 DEF TextInv, Statuses
<1>4. CASE ~pulls[p].live
  <2>1. text' = text
    BY <1>4 DEF Settled
  <2> QED BY <1>1, <1>2, <2>1 DEF TextInv
<1> QED BY <1>3, <1>4

LEMMA TextArrivesKeeps ==
    ASSUME PanelIInv, NEW p \in PullIds, NEW s \in {"loaded", "empty", "error"}, TextArrives(p, s)
    PROVE  PanelIInv'
<1>1. ViewInv /\ AssetsOK(assets) /\ TextInv /\ LabelInv /\ FormsInv
  BY DEF PanelIInv
<1>2. /\ text' = Settled(p, s) /\ pulls' = [pulls EXCEPT ![p] = NoPull]
      /\ UNCHANGED <<viewed, tab, scanned, link, shown, assets, running, place, known, label, asks, edits, saves, panelActs>>
  BY DEF TextArrives, viewVars, assetVars, folderVars, editVars
<1>3. TextInv'
  BY <1>1, <1>2, SettledKeepsText
<1>4. LabelInv' /\ FormsInv' /\ AssetsOK(assets)'
  BY <1>1, <1>2, PartsLeftAlone
<1>5. ViewInv'
  BY <1>1, <1>2 DEF ViewInv
<1> QED BY <1>3, <1>4, <1>5 DEF PanelIInv

LEMMA AssetEndsKeeps == ASSUME PanelIInv, NEW c \in CallIds, AssetAnswered(c) \/ AssetRefused(c) PROVE PanelIInv'
<1>1. ViewInv /\ AssetsOK(assets) /\ TextInv /\ LabelInv /\ FormsInv
  BY DEF PanelIInv
<1>2. PICK d : d = assets.calls[c].of
  OBVIOUS
<1>3. PICK p : p = assets.calls[c].by
  OBVIOUS
<1>4. /\ assets.calls[c] # NoCall
      /\ UNCHANGED <<viewed, tab, scanned, shown, running, place, known, label, asks, edits, saves, panelActs>>
  BY DEF AssetAnswered, AssetRefused, viewVars, folderVars, editVars
<1>5. d \in Papers /\ p \in PullIds \cup {0}
  BY <1>1, <1>2, <1>3, <1>4 DEF AssetsOK, AssetRecord, CallRecord
<1>6. LabelInv' /\ FormsInv'
  BY <1>1, <1>4, PartsLeftAlone
<1>7. ASSUME NEW s \in {"empty", "error"},
             IF p = 0 THEN UNCHANGED <<text, pulls>>
             ELSE text' = Settled(p, s) /\ pulls' = [pulls EXCEPT ![p] = NoPull]
      PROVE  TextInv'
  <2>1. CASE p = 0
    BY <1>1, <1>4, <1>7, <2>1, PartsLeftAlone
  <2>2. CASE p # 0
    BY <1>1, <1>4, <1>5, <1>7, <2>2, SettledKeepsText
  <2> QED BY <2>1, <2>2
<1>8. CASE AssetAnswered(c)
  <2>1. PICK again : again = (p # 0 /\ pulls[p].live /\ pulls[p].had = "stale")
    OBVIOUS
  <2>2. /\ assets' = (IF again THEN Ensured(Answered(c, TRUE), d, TRUE, 0) ELSE Answered(c, TRUE))
        /\ link' = [link EXCEPT ![d] = "fresh"]
        /\ IF p = 0 THEN UNCHANGED <<text, pulls>>
           ELSE text' = Settled(p, "empty") /\ pulls' = [pulls EXCEPT ![p] = NoPull]
    BY <1>2, <1>3, <1>8, <2>1 DEF AssetAnswered
  <2>3. PICK s : s = Answered(c, TRUE)
    OBVIOUS
  <2>4. AssetsOK(s)
    BY <1>1, <1>4, <2>3, AnsweredOK
  <2>5. AssetsOK(assets')
    BY <1>5, <2>2, <2>3, <2>4, EnsuredOK
  <2>6. AssetsOK(assets)'
    BY <2>5 DEF AssetsOK
  <2>7. ViewInv'
    BY <1>1, <1>4, <2>2 DEF ViewInv, Urls
  <2>8. TextInv'
    BY <1>7, <2>2
  <2> QED BY <1>6, <2>6, <2>7, <2>8 DEF PanelIInv
<1>9. CASE AssetRefused(c)
  <2>1. /\ assets' = Answered(c, FALSE) /\ UNCHANGED link
        /\ IF p = 0 THEN UNCHANGED <<text, pulls>>
           ELSE text' = Settled(p, "error") /\ pulls' = [pulls EXCEPT ![p] = NoPull]
    BY <1>3, <1>9 DEF AssetRefused
  <2>2. AssetsOK(assets')
    BY <1>1, <1>4, <2>1, AnsweredOK
  <2>3. AssetsOK(assets)'
    BY <2>2 DEF AssetsOK
  <2>4. ViewInv'
    BY <1>1, <1>4, <2>1 DEF ViewInv
  <2>5. TextInv'
    BY <1>7, <2>1
  <2> QED BY <1>6, <2>3, <2>4, <2>5 DEF PanelIInv
<1> QED BY <1>8, <1>9

LEMMA RerenderKeeps == ASSUME PanelIInv, Rerender PROVE PanelIInv'
<1>1. ViewInv /\ AssetsOK(assets) /\ TextInv /\ LabelInv /\ FormsInv
  BY DEF PanelIInv
<1>2. /\ viewed # Blank /\ shown' = link[viewed] /\ pulls' = Aborted
      /\ UNCHANGED <<viewed, tab, scanned, link, assets, text, running, place, known, label, asks, edits, saves, panelActs>>
  BY DEF Rerender, viewVars, folderVars, editVars
<1>3. pulls' \in [PullIds -> PullRecord] /\ \A p \in PullIds : ~pulls'[p].live
  BY <1>1, <1>2, AbortedIsSilent
<1>4. TextInv'
  BY <1>1, <1>2, <1>3 DEF TextInv
<1>5. LabelInv' /\ FormsInv' /\ AssetsOK(assets)'
  BY <1>1, <1>2, PartsLeftAlone
<1>6. ViewInv'
  BY <1>1, <1>2 DEF ViewInv
<1> QED BY <1>4, <1>5, <1>6 DEF PanelIInv

LEMMA UrlsKeep ==
    ASSUME PanelIInv, NEW d \in Papers, Relisted(d) \/ UrlExpires(d)
    PROVE  PanelIInv'
<1>1. ViewInv /\ AssetsOK(assets) /\ TextInv /\ LabelInv /\ FormsInv
  BY DEF PanelIInv
<1>2. /\ Acting /\ UNCHANGED <<viewed, tab, scanned, text, pulls, running, place, known, label, asks, edits, saves>>
  BY DEF Relisted, UrlExpires, viewVars, textVars, folderVars, editVars
<1>3. TextInv' /\ LabelInv' /\ FormsInv'
  BY <1>1, <1>2, PartsLeftAlone
<1>4. CASE Relisted(d)
  <2>1. link' = [link EXCEPT ![d] = "none"] /\ UNCHANGED <<shown, assets>>
    BY <1>4 DEF Relisted
  <2>2. ViewInv'
    BY <1>1, <1>2, <2>1, ActsCounted DEF ViewInv, Urls
  <2>3. AssetsOK(assets)'
    BY <1>1, <2>1, PartsLeftAlone
  <2> QED BY <1>3, <2>2, <2>3 DEF PanelIInv
<1>5. CASE UrlExpires(d)
  <2> DEFINE Aged(u) == IF u = "fresh" THEN "stale" ELSE u
  <2>1. \A u \in Urls : Aged(u) \in Urls
    BY DEF Urls
  <2>2. PICK x : x = Aged(link[d])
    OBVIOUS
  <2>3. PICK s : s = assets
    OBVIOUS
  <2>4. PICK y : y = Aged(s.cache[d])
    OBVIOUS
  <2>5. PICK t : t = [s EXCEPT !.cache[d] = y]
    OBVIOUS
  <2>6. link' = [link EXCEPT ![d] = x] /\ assets' = t /\ shown' = (IF d = viewed THEN Aged(shown) ELSE shown)
    BY <1>5, <2>2, <2>3, <2>4, <2>5 DEF UrlExpires
  <2>7. s \in AssetRecord /\ s.cache \in [Papers -> Urls]
    BY <1>1, <2>3 DEF AssetsOK, AssetRecord
  <2>8. x \in Urls /\ y \in Urls /\ Aged(shown) \in Urls
    BY <1>1, <2>1, <2>2, <2>4, <2>7 DEF ViewInv
  <2>9. ViewInv'
    BY <1>1, <1>2, <2>6, <2>8, ActsCounted DEF ViewInv
  <2>10. /\ t.key = s.key /\ t.calls = s.calls /\ t.cache = [s.cache EXCEPT ![d] = y]
         /\ t = [cache |-> t.cache, key |-> t.key, calls |-> t.calls]
    BY <2>5, <2>7 DEF AssetRecord
  <2>11. t \in AssetRecord
    BY <2>7, <2>8, <2>10 DEF AssetRecord
  <2>12. AssetsOK(assets)'
    BY <1>1, <2>3, <2>6, <2>10, <2>11 DEF AssetsOK
  <2> QED BY <1>3, <2>9, <2>12 DEF PanelIInv
<1> QED BY <1>4, <1>5

-----------------------------------------------------------------------------
(* The details of a document: the name of its folder.                      *)

LEMMA MovePaperKeeps ==
    ASSUME PanelIInv, NEW d \in Papers, NEW f \in Drawers \cup {Blank}, MovePaper(d, f)
    PROVE  PanelIInv'
<1>1. ViewInv /\ AssetsOK(assets) /\ TextInv /\ LabelInv /\ FormsInv
  BY DEF PanelIInv
<1>2. /\ Acting /\ place' = [place EXCEPT ![d] = f]
      /\ IF d = viewed /\ Summarised THEN LabelEffect(f) ELSE UNCHANGED <<label, asks>>
      /\ UNCHANGED <<viewed, tab, scanned, link, shown, assets, text, pulls, running, known, edits, saves>>
  BY DEF MovePaper, viewVars, assetVars, textVars, editVars
<1>3. TextInv' /\ FormsInv' /\ AssetsOK(assets)'
  BY <1>1, <1>2, PartsLeftAlone
<1>4. ViewInv'
  BY <1>1, <1>2, ActsCounted DEF ViewInv
<1>5. /\ place' \in [Papers -> Drawers \cup {Blank}] /\ (Summarised' <=> Summarised)
      /\ Summarised => viewed \in Papers /\ place'[viewed] = IF d = viewed THEN f ELSE place[viewed]
  BY <1>1, <1>2 DEF LabelInv, ViewInv, Summarised
<1>6. LabelInv'
  <2>1. CASE d = viewed /\ Summarised
    <3>1. /\ label' \in Drawers \cup {Blank, "loading"} /\ label' \in {f, "loading"}
          /\ asks' \subseteq [of : Drawers, heard : BOOLEAN]
          /\ \A a \in asks' : a.heard => a.of = f
      BY <1>1, <1>2, <2>1, LabelFollows DEF LabelInv
    <3> QED BY <1>1, <1>2, <1>5, <2>1, <3>1 DEF LabelInv, FolderIsItsOwn
  <2>2. CASE ~(d = viewed /\ Summarised)
    BY <1>1, <1>2, <1>5, <2>2 DEF LabelInv, FolderIsItsOwn
  <2> QED BY <2>1, <2>2
<1> QED BY <1>3, <1>4, <1>6 DEF PanelIInv

LEMMA NamesKeep == ASSUME PanelIInv, NEW a \in asks, NameArrives(a) \/ NameRefused(a) PROVE PanelIInv'
<1>1. ViewInv /\ AssetsOK(assets) /\ TextInv /\ LabelInv /\ FormsInv
  BY DEF PanelIInv
<1>2. /\ asks' = asks \ {a}
      /\ UNCHANGED <<viewed, tab, scanned, link, shown, assets, text, pulls, running, place, edits, saves, panelActs>>
  BY DEF NameArrives, NameRefused, viewVars, assetVars, textVars, editVars
<1>3. TextInv' /\ FormsInv' /\ AssetsOK(assets)'
  BY <1>1, <1>2, PartsLeftAlone
<1>4. ViewInv'
  BY <1>1, <1>2 DEF ViewInv
<1>5. LabelInv'
  <2>1. (Summarised' <=> Summarised) /\ a.of \in Drawers /\ (Summarised => viewed \in Papers)
    BY <1>1, <1>2 DEF Summarised, LabelInv, ViewInv
  <2>2. CASE NameRefused(a)
    BY <1>1, <1>2, <2>1, <2>2 DEF NameRefused, LabelInv, FolderIsItsOwn
  <2>3. CASE NameArrives(a)
    <3>1. known' = known \cup {a.of} /\ label' = LabelOf(a)
      BY <2>3 DEF NameArrives
    <3>2. CASE a.heard
      <4>1. label' = a.of /\ a.of = place[viewed]
        BY <1>1, <3>1, <3>2 DEF LabelOf, LabelInv
      <4> QED BY <1>1, <1>2, <2>1, <3>1, <4>1 DEF LabelInv, FolderIsItsOwn
    <3>3. CASE ~a.heard /\ Summarised /\ Named(place[viewed], known \cup {a.of})
      <4>1. label' = place[viewed] /\ label' \in Drawers \cup {Blank}
        BY <1>1, <2>1, <3>1, <3>3 DEF LabelOf, LabelInv
      <4> QED BY <1>1, <1>2, <2>1, <3>1, <4>1 DEF LabelInv, FolderIsItsOwn
    <3>4. CASE ~a.heard /\ ~(Summarised /\ Named(place[viewed], known \cup {a.of}))
      <4>1. label' = label
        BY <3>1, <3>4 DEF LabelOf
      <4> QED BY <1>1, <1>2, <2>1, <3>1, <4>1 DEF LabelInv, FolderIsItsOwn
    <3> QED BY <3>2, <3>3, <3>4
  <2> QED BY <2>2, <2>3
<1> QED BY <1>3, <1>4, <1>5 DEF PanelIInv

-----------------------------------------------------------------------------
(* The details of a document: the forms.                                   *)

FormRecord == [open : BOOLEAN, of : Papers \cup {Blank}, saving : BOOLEAN, failed : BOOLEAN]

\* Form f replaced by e, the others and the saves left.
LEMMA FormChanged ==
    ASSUME FormsInv, NEW f \in Fields, NEW e \in FormRecord, e.open => e.of = viewed,
           edits' = [edits EXCEPT ![f] = e], UNCHANGED viewed,
           saves' \subseteq [field : Fields, of : Papers, live : BOOLEAN],
           e.saving => \E s \in saves' : s.field = f /\ s.live,
           \A s \in saves : s.live /\ s.field # f => s \in saves'
    PROVE  FormsInv'
<1>1. edits' \in [Fields -> FormRecord] /\ \A g \in Fields : edits'[g] = IF g = f THEN e ELSE edits[g]
  BY DEF FormsInv, FormRecord
<1>2. DraftIsOfViewed'
  BY <1>1 DEF FormsInv, DraftIsOfViewed
<1>3. FormsAreReleased'
  BY <1>1 DEF FormsInv, FormsAreReleased
<1> QED BY <1>1, <1>2, <1>3 DEF FormsInv, FormRecord

LEMMA FormsKeep ==
    ASSUME PanelIInv, NEW f \in Fields, StartEdit(f) \/ CancelEdit(f) \/ SubmitEdit(f)
    PROVE  PanelIInv'
<1>1. ViewInv /\ AssetsOK(assets) /\ TextInv /\ LabelInv /\ FormsInv
  BY DEF PanelIInv
<1>2. /\ Acting /\ Summarised
      /\ UNCHANGED <<viewed, tab, scanned, link, shown, assets, text, pulls, running, place, known, label, asks>>
  BY DEF StartEdit, CancelEdit, SubmitEdit, viewVars, assetVars, textVars, folderVars
<1>3. TextInv' /\ LabelInv' /\ AssetsOK(assets)'
  BY <1>1, <1>2, PartsLeftAlone
<1>4. ViewInv'
  BY <1>1, <1>2, ActsCounted DEF ViewInv
<1>5. viewed \in Papers /\ Shut \in FormRecord /\ ~Shut.open /\ ~Shut.saving
  BY <1>1, <1>2 DEF Summarised, ViewInv, Shut, FormRecord
<1>6. PICK d : d = edits[f]
  OBVIOUS
<1>7. d \in FormRecord /\ (d.open => d.of = viewed)
  BY <1>1, <1>6 DEF FormsInv, FormRecord, DraftIsOfViewed
<1>8. saves \subseteq [field : Fields, of : Papers, live : BOOLEAN]
  BY <1>1 DEF FormsInv
<1>9. CASE StartEdit(f)
  <2>1. PICK e : e = [Shut EXCEPT !.open = TRUE, !.of = viewed]
    OBVIOUS
  <2>2. e = [open |-> TRUE, of |-> viewed, saving |-> FALSE, failed |-> FALSE]
    BY <2>1 DEF Shut
  <2>3. edits' = [edits EXCEPT ![f] = e] /\ saves' = saves
    BY <1>9, <2>1 DEF StartEdit
  <2>4. e \in FormRecord /\ e.of = viewed /\ ~e.saving
    BY <1>5, <2>2 DEF FormRecord
  <2>5. FormsInv'
    BY <1>1, <1>2, <1>8, <2>3, <2>4, FormChanged
  <2> QED BY <1>3, <1>4, <2>5 DEF PanelIInv
<1>10. CASE CancelEdit(f)
  <2>1. edits' = [edits EXCEPT ![f] = Shut] /\ saves' = saves
    BY <1>10 DEF CancelEdit
  <2>2. FormsInv'
    BY <1>1, <1>2, <1>5, <1>8, <2>1, FormChanged
  <2> QED BY <1>3, <1>4, <2>2 DEF PanelIInv
<1>11. CASE SubmitEdit(f)
  <2>1. ~d.saving /\ d.open
    BY <1>6, <1>11 DEF SubmitEdit
  <2>2. CASE edits' = [edits EXCEPT ![f].failed = TRUE] /\ UNCHANGED saves
    <3>1. PICK e : e = [d EXCEPT !.failed = TRUE]
      OBVIOUS
    <3>2. edits' = [edits EXCEPT ![f] = e]
      BY <1>6, <2>2, <3>1
    <3>3. e \in FormRecord /\ e.of = viewed /\ ~e.saving
      BY <1>7, <2>1, <3>1 DEF FormRecord
    <3>4. FormsInv'
      BY <1>1, <1>2, <1>8, <2>2, <3>2, <3>3, FormChanged
    <3> QED BY <1>3, <1>4, <3>4 DEF PanelIInv
  <2>3. CASE edits' = [edits EXCEPT ![f] = Shut] /\ UNCHANGED saves
    <3>1. FormsInv'
      BY <1>1, <1>2, <1>5, <1>8, <2>3, FormChanged
    <3> QED BY <1>3, <1>4, <3>1 DEF PanelIInv
  <2>4. CASE /\ edits' = [edits EXCEPT ![f].saving = TRUE]
             /\ saves' = saves \cup {[field |-> f, of |-> viewed, live |-> TRUE]}
    <3>1. PICK e : e = [d EXCEPT !.saving = TRUE]
      OBVIOUS
    <3>2. edits' = [edits EXCEPT ![f] = e]
      BY <1>6, <2>4, <3>1
    <3>3. e \in FormRecord /\ e.of = viewed
      BY <1>7, <2>1, <3>1 DEF FormRecord
    <3>4. PICK s : s = [field |-> f, of |-> viewed, live |-> TRUE]
      OBVIOUS
    <3>5. s \in saves' /\ s \in [field : Fields, of : Papers, live : BOOLEAN] /\ s.field = f /\ s.live
      BY <1>5, <2>4, <3>4
    <3>6. saves' \subseteq [field : Fields, of : Papers, live : BOOLEAN] /\ saves \subseteq saves'
      BY <1>8, <2>4, <3>4, <3>5
    <3>7. FormsInv'
      BY <1>1, <1>2, <3>2, <3>3, <3>5, <3>6, FormChanged
    <3> QED BY <1>3, <1>4, <3>7 DEF PanelIInv
  <2> QED BY <1>11, <2>2, <2>3, <2>4 DEF SubmitEdit
<1> QED BY <1>9, <1>10, <1>11

LEMMA SaveAnsweredKeeps ==
    ASSUME PanelIInv, NEW s \in saves, NEW ok \in BOOLEAN, SaveAnswered(s, ok)
    PROVE  PanelIInv'
<1>1. ViewInv /\ AssetsOK(assets) /\ TextInv /\ LabelInv /\ FormsInv
  BY DEF PanelIInv
<1>2. /\ saves' = saves \ {s} /\ edits' = (IF s.live THEN [edits EXCEPT ![s.field] = FormAfter(s, ok)] ELSE edits)
      /\ UNCHANGED <<viewed, tab, scanned, link, shown, assets, text, pulls, running, place, known, label, asks, panelActs>>
  BY DEF SaveAnswered, viewVars, assetVars, textVars, folderVars
<1>3. TextInv' /\ LabelInv' /\ AssetsOK(assets)' /\ ViewInv'
  BY <1>1, <1>2, PartsLeftAlone DEF ViewInv
<1>4. saves \subseteq [field : Fields, of : Papers, live : BOOLEAN] /\ s.field \in Fields
  BY <1>1 DEF FormsInv
<1>5. CASE s.live
  <2>1. PICK f : f = s.field
    OBVIOUS
  <2>2. PICK d : d = edits[f]
    OBVIOUS
  <2>3. PICK e : e = [d EXCEPT !.saving = FALSE, !.failed = TRUE]
    OBVIOUS
  <2>4. d \in FormRecord /\ (d.open => d.of = viewed)
    BY <1>1, <1>4, <2>1, <2>2 DEF FormsInv, FormRecord, DraftIsOfViewed
  <2>5. e \in FormRecord /\ (e.open => e.of = viewed) /\ ~e.saving
    BY <2>3, <2>4 DEF FormRecord
  <2>6. Shut \in FormRecord /\ ~Shut.open /\ ~Shut.saving
    BY DEF Shut, FormRecord
  <2>7. FormAfter(s, ok) = IF ok THEN Shut ELSE e
    BY <2>1, <2>2, <2>3 DEF FormAfter
  <2>8. PICK g : g = FormAfter(s, ok)
    OBVIOUS
  <2>9. g \in FormRecord /\ (g.open => g.of = viewed) /\ ~g.saving /\ edits' = [edits EXCEPT ![f] = g]
    BY <1>2, <1>5, <2>1, <2>5, <2>6, <2>7, <2>8
  <2>10. \A t \in saves : t.live /\ t.field # f => t \in saves'
    BY <1>2, <2>1
  <2>11. FormsInv'
    BY <1>1, <1>2, <1>4, <2>1, <2>9, <2>10, FormChanged
  <2> QED BY <1>3, <2>11 DEF PanelIInv
<1>6. CASE ~s.live
  <2>1. FormsInv'
    BY <1>1, <1>2, <1>6 DEF FormsInv, DraftIsOfViewed, FormsAreReleased
  <2> QED BY <1>3, <2>1 DEF PanelIInv
<1> QED BY <1>5, <1>6

-----------------------------------------------------------------------------
(* The details of a document: the theorems.                                *)

LEMMA PanelInitInvariant == PanelInit => PanelIInv
<1> SUFFICES ASSUME PanelInit PROVE PanelIInv
  OBVIOUS
<1>1. Blank \notin scanned
  BY BlankIsNoPaper DEF PanelInit
<1>2. ViewInv
  BY PanelConstants DEF PanelInit, ViewInv, Urls
<1>3. AssetsOK(assets)
  BY DEF PanelInit, AssetsOK, AssetRecord, CallRecord, NoCall, Urls
<1>4. TextInv
  <2>1. NoPull \in PullRecord /\ ~NoPull.live
    BY DEF NoPull, PullRecord, Urls
  <2>2. text = ResetFor(viewed)
    BY DEF PanelInit
  <2> QED BY <1>1, <2>1, <2>2, ResetIsFresh DEF PanelInit, TextInv
<1>5. LabelInv
  BY DEF PanelInit, LabelInv, FolderIsItsOwn
<1>6. FormsInv
  BY DEF PanelInit, FormsInv, Shut, DraftIsOfViewed, FormsAreReleased
<1> QED BY <1>2, <1>3, <1>4, <1>5, <1>6 DEF PanelIInv

LEMMA PanelStepInvariant == PanelIInv /\ [PanelNext]_panelVars => PanelIInv'
<1> SUFFICES ASSUME PanelIInv, [PanelNext]_panelVars PROVE PanelIInv'
  OBVIOUS
<1>1. ASSUME PanelServed PROVE PanelIInv'
  BY <1>1, AssetEndsKeeps, TextArrivesKeeps, NamesKeep, SaveAnsweredKeeps DEF PanelServed
<1>2. ASSUME StartLoad \/ Rerender PROVE PanelIInv'
  BY <1>2, StartLoadKeeps, RerenderKeeps
<1>3. ASSUME InfoUser PROVE PanelIInv'
  BY <1>3, ViewPaperKeeps, UrlsKeep, LeaveKeeps, SelectTabKeeps, MovePaperKeeps, FormsKeep DEF InfoUser
<1>4. ASSUME UNCHANGED panelVars PROVE PanelIInv'
  <2>1. UNCHANGED <<viewed, tab, scanned, link, shown, assets, text, pulls, running, place, known, label, asks,
                    edits, saves, panelActs>>
    BY <1>4 DEF panelVars, viewVars, assetVars, textVars, folderVars, editVars
  <2>2. TextInv' /\ LabelInv' /\ FormsInv' /\ AssetsOK(assets)'
    BY <2>1, PartsLeftAlone DEF PanelIInv
  <2>3. ViewInv'
    BY <2>1 DEF PanelIInv, ViewInv
  <2> QED BY <2>2, <2>3 DEF PanelIInv
<1> QED BY <1>1, <1>2, <1>3, <1>4 DEF PanelNext

LEMMA PanelInvariant == PanelSpec => []PanelIInv
<1>1. PanelInit => PanelIInv
  BY PanelInitInvariant
<1>2. PanelIInv /\ [PanelNext]_panelVars => PanelIInv'
  BY PanelStepInvariant
<1> QED BY <1>1, <1>2, PTL DEF PanelSpec

LEMMA PanelIInvIsTyped == PanelIInv => PanelTypeOK
BY DEF PanelIInv, ViewInv, AssetsOK, AssetRecord, CallRecord, TextInv, PullRecord, Statuses, LabelInv, FormsInv,
       PanelTypeOK

\* The shapes of the panel's state; the Content tab is hidden exactly for a
\* document without a text.
THEOREM PanelTyped == PanelSpec => []PanelTypeOK
  BY PanelIInvIsTyped, PanelInvariant, PTL

LEMMA PanelIInvIsOfViewed == PanelIInv => PanelIsOfViewed
BY DEF PanelIInv, AssetsOK, TextInv, LabelInv, FormsInv, PanelIsOfViewed, TextIsOfViewed, KeysAreLive

\* Text, folder and drafts on display are the document's own, whatever requests
\* for earlier documents are still under way, and neither a form nor a key of the
\* AssetManager waits for an answer that is gone.
THEOREM PanelOfViewed == PanelSpec => []PanelIsOfViewed
  BY PanelIInvIsOfViewed, PanelInvariant, PTL

-----------------------------------------------------------------------------
(* Uploads: the invariant.                                                 *)

BatchRecord ==
  [files : Seq(Files), base : Bases \cup {Absent}, at : Nat, stage : {"idle", "next", "resolving", "sent", "done"},
   target : Places2 \cup {Absent}, status : Seq(ActiveStatus \cup EndStatus), landed : Seq(Places2 \cup {Absent})]

\* A batch: what it sends goes where its file belongs, and only files it is past
\* have landed.
BatchOK(r) ==
  /\ r \in BatchRecord
  /\ r.stage = "idle" => r = NoBatch
  /\ r.stage # "idle" => r.base \in Bases /\ r.at >= 1
  /\ Len(r.files) <= MaxFiles /\ Len(r.status) = Len(r.files) /\ Len(r.landed) = Len(r.files)
  /\ r.at <= Len(r.files) + 1
  /\ r.stage \in {"resolving", "sent"} => r.at <= Len(r.files)
  /\ r.stage = "resolving" => r.files[r.at].path = Path
  /\ r.stage = "sent" => r.target = Destination(r.base, r.files[r.at].path)
  /\ \A i \in 1..Len(r.files) : r.landed[i] # Absent =>
       i < r.at /\ r.landed[i] = Destination(r.base, r.files[i].path)

\* Batches start in order.
BatchesInv ==
  /\ batches \in [Batches -> BatchRecord]
  /\ \A b \in Batches : BatchOK(batches[b])
  /\ \A b, e \in Batches : b < e /\ batches[b].stage = "idle" => batches[e].stage = "idle"

QueueInv ==
  /\ queue \in [Batches \X (1..MaxFiles) -> ActiveStatus \cup EndStatus \cup {Absent}]
  /\ dismissed \in BOOLEAN
  /\ dismissed => \A id \in Batches \X (1..MaxFiles) : queue[id] = Absent

\* What is cached for a path is that path.
PathsInv ==
  /\ paths \in [{Path} \cup {<<f, Path>> : f \in Bases} -> Places2 \cup {Absent}]
  /\ \A f \in Bases : paths[<<f, Path>>] \in {Absent, <<f, Path>>}

MarksInv ==
  /\ uploaded \in [Contents -> Places2 \cup {Absent}]
  /\ marked \subseteq Contents
  /\ OnlyCreatedAreNew

UploadsIInv == BatchesInv /\ QueueInv /\ PathsInv /\ MarksInv

-----------------------------------------------------------------------------
(* Uploads: batches start.                                                 *)

LEMMA NoBatchOK ==
  BatchOK(NoBatch) /\ NoBatch.stage = "idle" /\ Len(NoBatch.files) = 0
BY UploadConstants, EmptySeq DEF BatchOK, BatchRecord, NoBatch, ActiveStatus, EndStatus

LEMMA FileListsAreSeqs ==
    ASSUME NEW files \in FileLists
    PROVE  files \in Seq(Files) /\ Len(files) \in 1..MaxFiles /\ DOMAIN files = 1..Len(files)
<1>1. PICK n \in 1..MaxFiles : files \in [1..n -> Files]
  BY DEF FileLists
<1>2. n \in Nat /\ MaxFiles \in Nat
  BY <1>1, UploadConstants
<1>3. files \in Seq(Files) /\ Len(files) = n
  BY <1>1, <1>2
<1> QED BY <1>1, <1>2, <1>3

LEMMA BegunOK ==
    ASSUME NEW files \in FileLists, NEW base \in Bases
    PROVE  BatchOK(Begun(files, base)) /\ Begun(files, base).stage = "next"
<1>1. PICK n : n = Len(files)
  OBVIOUS
<1>2. files \in Seq(Files) /\ n \in 1..MaxFiles /\ DOMAIN files = 1..n /\ n \in Nat /\ MaxFiles \in Nat
  BY <1>1, FileListsAreSeqs, UploadConstants
<1>3. PICK s : s = [i \in 1..n |-> "pending"]
  OBVIOUS
<1>4. PICK l : l = [i \in 1..n |-> Absent]
  OBVIOUS
<1>5. s \in Seq(ActiveStatus \cup EndStatus) /\ Len(s) = n
  BY <1>2, <1>3 DEF ActiveStatus
<1>6. l \in Seq(Places2 \cup {Absent}) /\ Len(l) = n
  BY <1>2, <1>4
<1>7. PICK r : r = [files |-> files, base |-> base, at |-> 1, stage |-> "next", target |-> Absent,
                    status |-> s, landed |-> l]
  OBVIOUS
<1>8. Begun(files, base) = r
  <2> DEFINE B(fs, ba, n1, st, ss, ls) == [files |-> fs, base |-> ba, at |-> n1, stage |-> st, target |-> Absent,
                                          status |-> ss, landed |-> ls]
  <2>1. PICK g1 : g1 = [NoBatch EXCEPT !.files = files]
    OBVIOUS
  <2>2. PICK g2 : g2 = [g1 EXCEPT !.base = base]
    OBVIOUS
  <2>3. PICK g3 : g3 = [g2 EXCEPT !.at = 1]
    OBVIOUS
  <2>4. PICK g4 : g4 = [g3 EXCEPT !.stage = "next"]
    OBVIOUS
  <2>5. PICK g5 : g5 = [g4 EXCEPT !.status = s]
    OBVIOUS
  <2>6. PICK g6 : g6 = [g5 EXCEPT !.landed = l]
    OBVIOUS
  <2>7. g1 = B(files, Absent, 0, "idle", <<>>, <<>>)
    BY <2>1 DEF NoBatch
  <2>8. g2 = B(files, base, 0, "idle", <<>>, <<>>)
    BY <2>2, <2>7
  <2>9. g3 = B(files, base, 1, "idle", <<>>, <<>>)
    BY <2>3, <2>8
  <2>10. g4 = B(files, base, 1, "next", <<>>, <<>>)
    BY <2>4, <2>9
  <2>11. g5 = B(files, base, 1, "next", s, <<>>)
    BY <2>5, <2>10
  <2>12. Begun(files, base) = g6
    BY <1>2, <1>3, <1>4, <2>1, <2>2, <2>3, <2>4, <2>5, <2>6 DEF Begun
  <2>13. g6 = r
    BY <1>7, <2>6, <2>11
  <2> QED BY <2>12, <2>13
<1>9. BatchOK(r) /\ r.stage = "next"
  BY <1>1, <1>2, <1>4, <1>5, <1>6, <1>7 DEF BatchOK, BatchRecord
<1> QED BY <1>8, <1>9

LEMMA AppendedTyped ==
    ASSUME NEW q \in [Batches \X (1..MaxFiles) -> ActiveStatus \cup EndStatus \cup {Absent}], NEW b, NEW files
    PROVE  /\ Appended(q, b, files) \in [Batches \X (1..MaxFiles) -> ActiveStatus \cup EndStatus \cup {Absent}]
           /\ \A id \in Batches \X (1..MaxFiles) : id[1] # b => Appended(q, b, files)[id] = q[id]
BY DEF Appended, ActiveStatus

\* One batch, or two neighbours, that nobody has started yet.
LEMMA StartKeeps ==
    ASSUME UploadsIInv, NEW b \in Batches, Idle2(b), NEW S \in SUBSET Batches, b \in S, S \subseteq {b, b + 1},
           batches' \in [Batches -> BatchRecord],
           \A e \in Batches : IF e \in S THEN BatchOK(batches'[e]) /\ batches'[e].stage = "next"
                              ELSE batches'[e] = batches[e],
           queue' \in [Batches \X (1..MaxFiles) -> ActiveStatus \cup EndStatus \cup {Absent}],
           paths' = [k \in DOMAIN paths |-> Absent], dismissed' = FALSE, UNCHANGED <<uploaded, marked>>
    PROVE  UploadsIInv' /\ \A e \in S : batches[e].stage = "idle"
<1>1. BatchesInv /\ QueueInv /\ PathsInv /\ MarksInv
  BY DEF UploadsIInv
<1>2. Batches \subseteq Nat /\ MaxBatches \in Nat /\ Batches = 1..MaxBatches
  BY UploadConstants DEF Batches
<1>3. batches[b].stage = "idle" /\ \A e \in 1..(b - 1) : batches[e].stage # "idle"
  BY DEF Idle2
<1>4. \A e \in S : batches[e].stage = "idle"
  BY <1>1, <1>2, <1>3 DEF BatchesInv
<1>5. BatchesInv'
  <2>1. \A e \in Batches : BatchOK(batches'[e])
    BY <1>1 DEF BatchesInv
  <2>2. ASSUME NEW u \in Batches, NEW e \in Batches, u < e, batches'[u].stage = "idle" PROVE batches'[e].stage = "idle"
    <3>1. u \notin S /\ batches[u].stage = "idle"
      BY <2>2
    <3>2. ~(u < b)
      BY <1>2, <1>3, <3>1
    <3>3. u > b /\ e > b + 1
      BY <1>2, <2>2, <3>1, <3>2
    <3>4. e \notin S
      BY <1>2, <3>3
    <3> QED BY <1>1, <2>2, <3>1, <3>4 DEF BatchesInv
  <2> QED BY <2>1, <2>2 DEF BatchesInv
<1>6. QueueInv'
  BY DEF QueueInv
<1>7. PathsInv'
  BY <1>1 DEF PathsInv
<1>8. MarksInv'
  <2>1. ASSUME NEW c \in marked
        PROVE  \E e \in Batches : \E i \in 1..Len(batches'[e].files) :
                 batches'[e].files[i].content = c /\ batches'[e].landed[i] # Absent
    <3>1. PICK e \in Batches : \E i \in 1..Len(batches[e].files) :
                 batches[e].files[i].content = c /\ batches[e].landed[i] # Absent
      BY <1>1 DEF MarksInv, OnlyCreatedAreNew, Size
    <3>2. e \notin S
      <4> SUFFICES ASSUME e \in S PROVE FALSE
        OBVIOUS
      <4>1. batches[e] = NoBatch
        BY <1>1, <1>4 DEF BatchesInv, BatchOK
      <4> QED BY <3>1, <4>1, NoBatchOK
    <3>3. batches'[e] = batches[e]
      BY <3>2
    <3> QED BY <3>1, <3>3
  <2> QED BY <1>1, <2>1 DEF MarksInv, OnlyCreatedAreNew, Size
<1> QED BY <1>4, <1>5, <1>6, <1>7, <1>8 DEF UploadsIInv

LEMMA ChosenKeeps ==
    ASSUME UploadsIInv, NEW b \in Batches, NEW files \in FileLists, NEW f \in Bases,
           ChooseFiles(b, files, f) \/ DropOnWindow(b, files)
    PROVE  UploadsIInv'
<1>1. PICK base \in Bases :
        /\ Idle2(b) /\ batches' = [batches EXCEPT ![b] = Begun(files, base)]
        /\ queue' = Appended(queue, b, files) /\ paths' = [k \in DOMAIN paths |-> Absent]
        /\ dismissed' = FALSE /\ UNCHANGED <<uploaded, marked>>
  BY UploadConstants DEF ChooseFiles, DropOnWindow, DismissedNow
<1>2. BatchesInv /\ QueueInv
  BY DEF UploadsIInv
<1>3. PICK r : r = Begun(files, base)
  OBVIOUS
<1>4. BatchOK(r) /\ r.stage = "next" /\ r \in BatchRecord
  BY <1>3, BegunOK DEF BatchOK
<1>5. batches' \in [Batches -> BatchRecord] /\ \A e \in Batches : batches'[e] = IF e = b THEN r ELSE batches[e]
  BY <1>1, <1>2, <1>3, <1>4 DEF BatchesInv
<1>6. queue' \in [Batches \X (1..MaxFiles) -> ActiveStatus \cup EndStatus \cup {Absent}]
  BY <1>1, <1>2, AppendedTyped DEF QueueInv
<1>7. PICK S : S = {b}
  OBVIOUS
<1>8. S \in SUBSET Batches /\ b \in S /\ S \subseteq {b, b + 1} /\ \A e \in Batches : e \in S <=> e = b
  BY <1>7
<1>9. \A e \in Batches : IF e \in S THEN BatchOK(batches'[e]) /\ batches'[e].stage = "next"
                         ELSE batches'[e] = batches[e]
  BY <1>4, <1>5, <1>8
<1> QED BY <1>1, <1>5, <1>6, <1>8, <1>9, StartKeeps

LEMMA DropOnNodeFacts ==
    ASSUME UploadsIInv, NEW b \in Batches, NEW files \in FileLists, NEW f \in Bases, DropOnNode(b, files, f)
    PROVE  UploadsIInv' /\ batches[b].stage = "idle" /\ batches[b + 1].stage = "idle"
<1>1. /\ b + 1 \in Batches /\ Idle2(b)
      /\ batches' = [batches EXCEPT ![b] = Begun(files, Here), ![b + 1] = Begun(files, f)]
      /\ queue' = Appended(Appended(queue, b, files), b + 1, files) /\ paths' = [k \in DOMAIN paths |-> Absent]
      /\ dismissed' = FALSE /\ UNCHANGED <<uploaded, marked>>
  BY DEF DropOnNode, DismissedNow
<1>2. BatchesInv /\ QueueInv
  BY DEF UploadsIInv
<1>3. PICK r : r = Begun(files, Here)
  OBVIOUS
<1>4. PICK t : t = Begun(files, f)
  OBVIOUS
<1>5. PICK a : a = b + 1
  OBVIOUS
<1>6. /\ BatchOK(r) /\ r.stage = "next" /\ r \in BatchRecord
      /\ BatchOK(t) /\ t.stage = "next" /\ t \in BatchRecord
  BY <1>3, <1>4, BegunOK, UploadConstants DEF BatchOK
<1>7. batches' = [batches EXCEPT ![b] = r, ![a] = t] /\ a \in Batches
  BY <1>1, <1>3, <1>4, <1>5
<1>8. /\ batches' \in [Batches -> BatchRecord]
      /\ \A e \in Batches : batches'[e] = IF e = a THEN t ELSE IF e = b THEN r ELSE batches[e]
  BY <1>2, <1>6, <1>7 DEF BatchesInv
<1>9. queue' \in [Batches \X (1..MaxFiles) -> ActiveStatus \cup EndStatus \cup {Absent}]
  BY <1>1, <1>2, AppendedTyped DEF QueueInv
<1>10. PICK S : S = {b, a}
  OBVIOUS
<1>11. S \in SUBSET Batches /\ b \in S /\ a \in S /\ S \subseteq {b, b + 1} /\ \A e \in Batches : e \in S <=> (e = b \/ e = a)
  BY <1>5, <1>7, <1>10
<1>12. \A e \in Batches : IF e \in S THEN BatchOK(batches'[e]) /\ batches'[e].stage = "next"
                          ELSE batches'[e] = batches[e]
  BY <1>6, <1>8, <1>11
<1>13. UploadsIInv' /\ \A e \in S : batches[e].stage = "idle"
  BY <1>1, <1>8, <1>9, <1>11, <1>12, StartKeeps
<1> QED BY <1>5, <1>11, <1>13

-----------------------------------------------------------------------------
(* Uploads: batches go on.                                                 *)

LEMMA Replaced ==
    ASSUME NEW X, NEW s \in Seq(X), NEW n \in 1..Len(s), NEW v \in X
    PROVE  /\ [s EXCEPT ![n] = v] \in Seq(X) /\ Len([s EXCEPT ![n] = v]) = Len(s)
           /\ \A i \in 1..Len(s) : [s EXCEPT ![n] = v][i] = IF i = n THEN v ELSE s[i]
BY ExceptSeq

LEMMA PatchedTyped ==
    ASSUME QueueInv, NEW id, NEW v \in ActiveStatus \cup EndStatus, queue' = Patched(queue, id, v), UNCHANGED dismissed
    PROVE  QueueInv' /\ \A e \in Batches \X (1..MaxFiles) : queue[e] = Absent => queue'[e] = Absent
BY DEF QueueInv, Patched

\* Whatever a batch does, its files stay, and so does what has landed.
LEMMA BatchGoesOn ==
    ASSUME UploadsIInv, NEW b \in Batches, batches[b].stage # "idle", NEW r, BatchOK(r), r.stage # "idle",
           batches' = [batches EXCEPT ![b] = r], r.files = batches[b].files,
           \A i \in 1..Len(batches[b].files) : batches[b].landed[i] # Absent => r.landed[i] # Absent,
           marked' \subseteq marked \cup
             {batches[b].files[i].content : i \in {j \in 1..Len(batches[b].files) : batches[b].landed[j] # Absent}},
           uploaded' \in [Contents -> Places2 \cup {Absent}]
    PROVE  BatchesInv' /\ MarksInv'
<1>1. BatchesInv /\ MarksInv
  BY DEF UploadsIInv
<1>2. batches' \in [Batches -> BatchRecord] /\ \A e \in Batches : batches'[e] = IF e = b THEN r ELSE batches[e]
  BY <1>1 DEF BatchesInv, BatchOK
<1>3. BatchesInv'
  <2>1. \A e \in Batches : BatchOK(batches'[e])
    BY <1>1, <1>2 DEF BatchesInv
  <2>2. \A u, e \in Batches : u < e /\ batches'[u].stage = "idle" => batches'[e].stage = "idle"
    BY <1>1, <1>2 DEF BatchesInv
  <2> QED BY <1>2, <2>1, <2>2 DEF BatchesInv
<1>4. \A c \in marked' : \E e \in Batches : \E i \in 1..Len(batches[e].files) :
        batches[e].files[i].content = c /\ batches[e].landed[i] # Absent
  BY <1>1 DEF MarksInv, OnlyCreatedAreNew, Size
<1>5. \A e \in Batches : \A i \in 1..Len(batches[e].files) :
        /\ batches'[e].files = batches[e].files
        /\ batches[e].landed[i] # Absent => batches'[e].landed[i] # Absent
  BY <1>2
<1>6. OnlyCreatedAreNew'
  BY <1>4, <1>5 DEF OnlyCreatedAreNew, Size
<1>7. marked' \subseteq Contents
  <2>1. ASSUME NEW c \in marked' PROVE c \in Contents
    <3>1. PICK e \in Batches : \E i \in 1..Len(batches[e].files) : batches[e].files[i].content = c
      BY <1>4
    <3>2. batches[e].files \in Seq(Files)
      BY <1>1 DEF BatchesInv, BatchRecord
    <3>3. \A i \in 1..Len(batches[e].files) : batches[e].files[i] \in Files
      BY <3>2
    <3> QED BY <3>1, <3>3, UploadConstants
  <2> QED BY <2>1
<1> QED BY <1>3, <1>6, <1>7 DEF MarksInv

LEMMA BatchFacts ==
    ASSUME UploadsIInv, NEW b \in Batches, NEW d, d = batches[b]
    PROVE  /\ BatchOK(d) /\ d \in BatchRecord /\ d.files \in Seq(Files) /\ d.at \in Nat /\ Size(b) = Len(d.files)
           /\ d.status \in Seq(ActiveStatus \cup EndStatus) /\ d.landed \in Seq(Places2 \cup {Absent})
           /\ \A n \in 1..Len(d.files) : d.files[n] \in Files /\ d.files[n].path \in {Path, NoPath}
<1>1. BatchOK(d) /\ d \in BatchRecord /\ Size(b) = Len(d.files)
  BY DEF UploadsIInv, BatchesInv, Size
<1>2. /\ d.files \in Seq(Files) /\ d.at \in Nat
      /\ d.status \in Seq(ActiveStatus \cup EndStatus) /\ d.landed \in Seq(Places2 \cup {Absent})
  BY <1>1 DEF BatchRecord
<1>3. \A n \in 1..Len(d.files) : d.files[n] \in Files
  BY <1>2
<1> QED BY <1>1, <1>2, <1>3, UploadConstants

LEMMA NextFileKeeps == ASSUME UploadsIInv, NEW b \in Batches, NextFile(b) PROVE UploadsIInv'
<1>1. PICK d : d = batches[b]
  OBVIOUS
<1>2. PICK n : n = d.at
  OBVIOUS
<1>3. PICK path : path = d.files[n].path
  OBVIOUS
<1>4. PICK key : key = CacheKey(d.base, path)
  OBVIOUS
<1>5. PICK cached \in BOOLEAN : cached = (path = NoPath \/ (path # NoPath /\ paths[key] # Absent))
  OBVIOUS
<1>6. PICK x : x = IF cached THEN IF path = NoPath THEN d.base ELSE paths[key] ELSE Absent
  OBVIOUS
<1>7. PICK y : y = IF cached THEN "sent" ELSE "resolving"
  OBVIOUS
<1>8. /\ d.stage = "next" /\ n <= Size(b) /\ queue' = Patched(queue, <<b, n>>, "uploading")
      /\ batches' = [batches EXCEPT ![b].status[n] = "uploading", ![b].target = x, ![b].stage = y]
      /\ UNCHANGED <<paths, uploaded, marked, dismissed>>
  BY <1>1, <1>2, <1>3, <1>4, <1>5, <1>6, <1>7 DEF NextFile, File
<1>9. /\ BatchOK(d) /\ d \in BatchRecord /\ d.files \in Seq(Files) /\ d.at \in Nat /\ Size(b) = Len(d.files)
      /\ d.status \in Seq(ActiveStatus \cup EndStatus) /\ d.landed \in Seq(Places2 \cup {Absent})
      /\ \A m \in 1..Len(d.files) : d.files[m] \in Files /\ d.files[m].path \in {Path, NoPath}
  BY <1>1, BatchFacts
<1>10. n \in 1..Len(d.files) /\ n \in 1..Len(d.status) /\ d.base \in Bases /\ path \in {Path, NoPath}
  BY <1>2, <1>3, <1>8, <1>9 DEF BatchOK
<1>11. cached => x = Destination(d.base, path)
  <2>1. CASE path = NoPath
    BY <1>6, <2>1 DEF Destination
  <2>2. CASE path = Path /\ path # NoPath
    BY <1>4, <1>5, <1>6, <1>10, <2>2 DEF CacheKey, Destination, UploadsIInv, PathsInv
  <2> QED BY <1>10, <2>1, <2>2
<1>12. x \in Places2 \cup {Absent}
  BY <1>6, <1>10, <1>11 DEF Places2, Destination
<1>13. PICK s : s = [d.status EXCEPT ![n] = "uploading"]
  OBVIOUS
<1>14. s \in Seq(ActiveStatus \cup EndStatus) /\ Len(s) = Len(d.status)
  BY <1>9, <1>10, <1>13, Replaced DEF ActiveStatus
<1>15. PICK r : r = [d EXCEPT !.status = s, !.target = x, !.stage = y]
  OBVIOUS
<1>16. batches' = [batches EXCEPT ![b] = r]
  BY <1>1, <1>8, <1>13, <1>15
<1>17. /\ r.files = d.files /\ r.base = d.base /\ r.at = d.at /\ r.stage = y /\ r.target = x /\ r.status = s
       /\ r.landed = d.landed /\ r \in BatchRecord
  BY <1>7, <1>9, <1>12, <1>14, <1>15 DEF BatchRecord
<1>18. BatchOK(r) /\ r.stage # "idle" /\ d.stage # "idle"
  <2>1. y = "resolving" => path = Path
    BY <1>5, <1>7, <1>10
  <2> QED BY <1>2, <1>3, <1>7, <1>8, <1>9, <1>10, <1>11, <1>14, <1>17, <2>1 DEF BatchOK
<1>19. BatchesInv' /\ MarksInv'
  BY <1>1, <1>8, <1>16, <1>17, <1>18, BatchGoesOn DEF UploadsIInv, MarksInv
<1>20. QueueInv' /\ PathsInv'
  BY <1>8, PatchedTyped DEF UploadsIInv, PathsInv, ActiveStatus
<1> QED BY <1>19, <1>20 DEF UploadsIInv

LEMMA ResolvePathKeeps == ASSUME UploadsIInv, NEW b \in Batches, ResolvePath(b) PROVE UploadsIInv'
<1>1. PICK d : d = batches[b]
  OBVIOUS
<1>2. PICK n : n = d.at
  OBVIOUS
<1>3. PICK path : path = d.files[n].path
  OBVIOUS
<1>4. PICK key : key = CacheKey(d.base, path)
  OBVIOUS
<1>5. PICK x : x = Destination(d.base, path)
  OBVIOUS
<1>6. /\ d.stage = "resolving" /\ paths' = [paths EXCEPT ![key] = x]
      /\ batches' = [batches EXCEPT ![b].target = x, ![b].stage = "sent"]
      /\ UNCHANGED <<queue, uploaded, marked, dismissed>>
  BY <1>1, <1>2, <1>3, <1>4, <1>5 DEF ResolvePath, File
<1>7. BatchOK(d) /\ d \in BatchRecord /\ d.at \in Nat
  BY <1>1, BatchFacts
<1>8. d.base \in Bases /\ path = Path /\ key = <<d.base, Path>> /\ x = <<d.base, Path>> /\ x \in Places2
  BY <1>2, <1>3, <1>4, <1>5, <1>6, <1>7, UploadConstants DEF BatchOK, CacheKey, Destination, Places2
<1>9. PICK r : r = [d EXCEPT !.target = x, !.stage = "sent"]
  OBVIOUS
<1>10. batches' = [batches EXCEPT ![b] = r]
  BY <1>1, <1>6, <1>9
<1>11. /\ r.files = d.files /\ r.base = d.base /\ r.at = d.at /\ r.stage = "sent" /\ r.target = x /\ r.status = d.status
       /\ r.landed = d.landed /\ r \in BatchRecord
  BY <1>7, <1>8, <1>9 DEF BatchRecord
<1>12. BatchOK(r) /\ r.stage # "idle" /\ d.stage # "idle"
  BY <1>2, <1>3, <1>5, <1>6, <1>7, <1>11 DEF BatchOK
<1>13. BatchesInv' /\ MarksInv'
  BY <1>1, <1>6, <1>10, <1>11, <1>12, BatchGoesOn DEF UploadsIInv, MarksInv
<1>14. QueueInv'
  BY <1>6 DEF UploadsIInv, QueueInv
<1>15. PathsInv'
  <2>1. \A f \in Bases : paths'[<<f, Path>>] = IF f = d.base THEN x ELSE paths[<<f, Path>>]
    BY <1>6, <1>8 DEF UploadsIInv, PathsInv
  <2>2. paths' \in [{Path} \cup {<<f, Path>> : f \in Bases} -> Places2 \cup {Absent}]
    BY <1>6, <1>8 DEF UploadsIInv, PathsInv
  <2> QED BY <1>8, <2>1, <2>2 DEF UploadsIInv, PathsInv
<1> QED BY <1>13, <1>14, <1>15 DEF UploadsIInv

LEMMA PathRefusedKeeps == ASSUME UploadsIInv, NEW b \in Batches, PathRefused(b) PROVE UploadsIInv'
<1>1. PICK d : d = batches[b]
  OBVIOUS
<1>2. PICK F : F = FailedWith(b)
  OBVIOUS
<1>3. PICK s : s = [i \in DOMAIN d.status |-> IF i \in F THEN "error" ELSE d.status[i]]
  OBVIOUS
<1>4. PICK r : r = [d EXCEPT !.stage = "done", !.status = s]
  OBVIOUS
<1>5. /\ d.stage = "resolving" /\ batches' = [batches EXCEPT ![b] = r]
      /\ queue' = [id \in DOMAIN queue |-> IF id[1] = b /\ id[2] \in F /\ queue[id] # Absent THEN "error" ELSE queue[id]]
      /\ UNCHANGED <<paths, uploaded, marked, dismissed>>
  BY <1>1, <1>2, <1>3, <1>4 DEF PathRefused
<1>6. BatchOK(d) /\ d \in BatchRecord /\ d.at \in Nat /\ d.status \in Seq(ActiveStatus \cup EndStatus)
  BY <1>1, BatchFacts
<1>7. s \in Seq(ActiveStatus \cup EndStatus) /\ Len(s) = Len(d.status)
  <2>1. DOMAIN d.status = 1..Len(d.status) /\ Len(d.status) \in Nat
    BY <1>6
  <2>2. \A i \in 1..Len(d.status) : d.status[i] \in ActiveStatus \cup EndStatus
    BY <1>6
  <2>3. s \in [1..Len(d.status) -> ActiveStatus \cup EndStatus]
    BY <1>3, <2>1, <2>2 DEF EndStatus
  <2> QED BY <2>1, <2>3
<1>8. /\ r.files = d.files /\ r.base = d.base /\ r.at = d.at /\ r.stage = "done" /\ r.status = s
      /\ r.landed = d.landed /\ r \in BatchRecord
  BY <1>4, <1>6, <1>7 DEF BatchRecord
<1>9. BatchOK(r) /\ r.stage # "idle" /\ d.stage # "idle"
  BY <1>5, <1>6, <1>7, <1>8 DEF BatchOK
<1>10. BatchesInv' /\ MarksInv'
  BY <1>1, <1>5, <1>8, <1>9, BatchGoesOn DEF UploadsIInv, MarksInv
<1>11. QueueInv' /\ PathsInv'
  BY <1>5 DEF UploadsIInv, QueueInv, PathsInv, EndStatus
<1> QED BY <1>10, <1>11 DEF UploadsIInv

LEMMA EndedKeeps ==
    ASSUME UploadsIInv, NEW b \in Batches, batches[b].stage = "sent", NEW v \in EndStatus,
           NEW spot \in {Absent, batches[b].target}, Ended(b, v, spot),
           UNCHANGED <<paths, marked, dismissed>>, uploaded' \in [Contents -> Places2 \cup {Absent}]
    PROVE  UploadsIInv'
<1>1. PICK d : d = batches[b]
  OBVIOUS
<1>2. PICK n : n = d.at
  OBVIOUS
<1>3. PICK s : s = [d.status EXCEPT ![n] = v]
  OBVIOUS
<1>4. PICK l : l = [d.landed EXCEPT ![n] = spot]
  OBVIOUS
<1>5. PICK m : m = n + 1
  OBVIOUS
<1>30. PICK d1 : d1 = [d EXCEPT !.status = s]
  OBVIOUS
<1>31. PICK d2 : d2 = [d1 EXCEPT !.landed = l]
  OBVIOUS
<1>32. PICK d3 : d3 = [d2 EXCEPT !.at = m]
  OBVIOUS
<1>33. PICK d4 : d4 = [d3 EXCEPT !.stage = "next"]
  OBVIOUS
<1>34. PICK r : r = [d4 EXCEPT !.target = Absent]
  OBVIOUS
<1>6. batches' = [batches EXCEPT ![b] = r] /\ queue' = Patched(queue, <<b, n>>, v)
  <2>1. queue' = Patched(queue, <<b, n>>, v)
    BY <1>1, <1>2 DEF Ended
  <2>2. /\ batches \in [Batches -> BatchRecord] /\ d \in BatchRecord
    BY <1>1 DEF UploadsIInv, BatchesInv
  <2>3. batches' = [batches EXCEPT ![b].status[n] = v, ![b].landed[n] = spot, ![b].at = @ + 1,
                                   ![b].stage = "next", ![b].target = Absent]
    BY <1>1, <1>2 DEF Ended
  <2>4. PICK G : G = batches'
    OBVIOUS
  <2>5. PICK f : f = batches
    OBVIOUS
  <2>6. G = [f EXCEPT ![b].status[n] = v, ![b].landed[n] = spot, ![b].at = @ + 1, ![b].stage = "next",
                      ![b].target = Absent]
    BY <2>3, <2>4, <2>5
  <2>40. [f EXCEPT ![b].status[n] = v, ![b].landed[n] = spot, ![b].at = @ + 1,
            ![b].stage = "next", ![b].target = Absent]
         = [[f EXCEPT ![b].status[n] = v, ![b].landed[n] = spot, ![b].at = @ + 1,
            ![b].stage = "next"] EXCEPT ![b].target = Absent]
    OBVIOUS
  <2>41. [f EXCEPT ![b].status[n] = v, ![b].landed[n] = spot, ![b].at = @ + 1, ![b].stage = "next"]
         = [[f EXCEPT ![b].status[n] = v, ![b].landed[n] = spot, ![b].at = @ + 1] EXCEPT ![b].stage = "next"]
    OBVIOUS
  <2>42. [f EXCEPT ![b].status[n] = v, ![b].landed[n] = spot, ![b].at = @ + 1]
         = [[f EXCEPT ![b].status[n] = v, ![b].landed[n] = spot] EXCEPT ![b].at = @ + 1]
    OBVIOUS
  <2>43. [f EXCEPT ![b].status[n] = v, ![b].landed[n] = spot]
         = [[f EXCEPT ![b].status[n] = v] EXCEPT ![b].landed[n] = spot]
    OBVIOUS
  <2>7. G = [[[[[f EXCEPT ![b].status[n] = v] EXCEPT ![b].landed[n] = spot] EXCEPT ![b].at = @ + 1]
               EXCEPT ![b].stage = "next"] EXCEPT ![b].target = Absent]
    BY ONLY <2>6, <2>40, <2>41, <2>42, <2>43
  <2>8. PICK B1 : B1 = [f EXCEPT ![b].status[n] = v]
    OBVIOUS
  <2>15. PICK B2 : B2 = [B1 EXCEPT ![b].landed[n] = spot]
    OBVIOUS
  <2>16. PICK B3 : B3 = [B2 EXCEPT ![b].at = @ + 1]
    OBVIOUS
  <2>17. PICK B4 : B4 = [B3 EXCEPT ![b].stage = "next"]
    OBVIOUS
  <2>18. G = [B4 EXCEPT ![b].target = Absent]
    BY <2>7, <2>8, <2>15, <2>16, <2>17
  <2>19. f \in [Batches -> BatchRecord] /\ d = f[b]
    BY <1>1, <2>2, <2>5
  <2>9. B1 = [f EXCEPT ![b] = d1]
    BY <1>3, <1>30, <2>8, <2>19
  <2>10. d1.landed = d.landed /\ d1.at = n
    BY <1>2, <1>30, <2>2 DEF BatchRecord
  <2>11. B2 = [f EXCEPT ![b] = d2]
    BY <1>4, <1>31, <2>9, <2>10, <2>15, <2>19
  <2>12. d2.at = n
    BY <1>30, <1>31, <2>2, <2>10 DEF BatchRecord
  <2>13. B3 = [f EXCEPT ![b] = d3]
    BY <1>5, <1>32, <2>11, <2>12, <2>16, <2>19
  <2>14. B4 = [f EXCEPT ![b] = d4]
    BY <1>33, <2>13, <2>17, <2>19
  <2>20. G = [f EXCEPT ![b] = r]
    BY <1>34, <2>14, <2>18, <2>19
  <2> QED BY <2>1, <2>4, <2>5, <2>20
<1>7. /\ BatchOK(d) /\ d \in BatchRecord /\ d.files \in Seq(Files) /\ d.at \in Nat /\ d.stage = "sent"
      /\ d.status \in Seq(ActiveStatus \cup EndStatus) /\ d.landed \in Seq(Places2 \cup {Absent})
  BY <1>1, BatchFacts
<1>8. /\ n \in 1..Len(d.files) /\ n \in 1..Len(d.status) /\ n \in 1..Len(d.landed)
      /\ d.target = Destination(d.base, d.files[n].path)
  BY <1>2, <1>7 DEF BatchOK
<1>9. spot \in Places2 \cup {Absent}
  BY <1>1, <1>7 DEF BatchRecord
<1>10. s \in Seq(ActiveStatus \cup EndStatus) /\ Len(s) = Len(d.status)
  BY <1>3, <1>7, <1>8, Replaced
<1>11. /\ l \in Seq(Places2 \cup {Absent}) /\ Len(l) = Len(d.landed)
       /\ \A i \in 1..Len(d.landed) : l[i] = IF i = n THEN spot ELSE d.landed[i]
  BY <1>4, <1>7, <1>8, <1>9, Replaced
<1>12. /\ r.files = d.files /\ r.base = d.base /\ r.at = n + 1 /\ r.stage = "next" /\ r.status = s
       /\ r.landed = l /\ r \in BatchRecord
  <2> DEFINE B(at, stage, target, ss, ls) ==
        [files |-> d.files, base |-> d.base, at |-> at, stage |-> stage, target |-> target,
         status |-> ss, landed |-> ls]
  <2>1. d = B(n, "sent", d.target, d.status, d.landed)
    BY <1>2, <1>7 DEF BatchRecord
  <2>2. d1 = B(n, "sent", d.target, s, d.landed)
    BY <1>30, <2>1
  <2>3. d2 = B(n, "sent", d.target, s, l)
    BY <1>31, <2>2
  <2>4. d3 = B(m, "sent", d.target, s, l)
    BY <1>32, <2>3
  <2>5. d4 = B(m, "next", d.target, s, l)
    BY <1>33, <2>4
  <2>6. r = B(m, "next", Absent, s, l)
    BY <1>34, <2>5
  <2>7. m \in Nat /\ d.files \in Seq(Files) /\ d.base \in Bases \cup {Absent}
    BY <1>2, <1>5, <1>7 DEF BatchRecord
  <2> QED BY <1>5, <1>10, <1>11, <2>6, <2>7 DEF BatchRecord
<1>13. \A i \in 1..Len(d.files) : d.landed[i] # Absent => i < n /\ d.landed[i] = Destination(d.base, d.files[i].path)
  BY <1>2, <1>7 DEF BatchOK
<1>14. \A i \in 1..Len(d.files) : l[i] # Absent => i < n + 1 /\ l[i] = Destination(d.base, d.files[i].path)
  BY <1>1, <1>7, <1>8, <1>11, <1>13 DEF BatchOK
<1>15. BatchOK(r) /\ r.stage # "idle"
  BY <1>2, <1>7, <1>8, <1>10, <1>11, <1>12, <1>14 DEF BatchOK
<1>16. \A i \in 1..Len(d.files) : d.landed[i] # Absent => r.landed[i] # Absent
  BY <1>7, <1>8, <1>11, <1>12, <1>13 DEF BatchOK
<1>17. BatchesInv' /\ MarksInv'
  BY <1>1, <1>6, <1>7, <1>12, <1>15, <1>16, BatchGoesOn
<1>18. QueueInv' /\ PathsInv'
  BY <1>6, PatchedTyped DEF UploadsIInv, PathsInv
<1> QED BY <1>17, <1>18 DEF UploadsIInv

LEMMA ResultsKeep == ASSUME UploadsIInv, NEW b \in Batches, SkipEmpty(b) \/ UploadFile(b) PROVE UploadsIInv'
<1>1. uploaded \in [Contents -> Places2 \cup {Absent}]
  BY DEF UploadsIInv, MarksInv
<1>2. batches[b].target \in Places2 \cup {Absent}
  BY BatchFacts DEF BatchRecord
<1>3. {"success", "duplicate", "error"} \subseteq EndStatus
  BY DEF EndStatus
<1>4. CASE SkipEmpty(b)
  BY <1>1, <1>3, <1>4, EndedKeeps DEF SkipEmpty
<1>5. CASE UploadFile(b)
  <2>1. batches[b].stage = "sent" /\ UNCHANGED <<paths, marked, dismissed>>
    BY <1>5 DEF UploadFile
  <2>2. PICK c : c = File(b).content
    OBVIOUS
  <2>3. CASE uploaded' = [uploaded EXCEPT ![c] = batches[b].target] /\ Ended(b, "success", batches[b].target)
    <3>1. uploaded' \in [Contents -> Places2 \cup {Absent}]
      BY <1>1, <1>2, <2>3
    <3> QED BY <1>3, <2>1, <2>3, <3>1, EndedKeeps
  <2>4. CASE Ended(b, "duplicate", Absent) /\ UNCHANGED uploaded
    BY <1>1, <1>3, <2>1, <2>4, EndedKeeps
  <2>5. CASE Ended(b, "error", Absent) /\ UNCHANGED uploaded
    BY <1>1, <1>3, <2>1, <2>5, EndedKeeps
  <2> QED BY <1>5, <2>2, <2>3, <2>4, <2>5 DEF UploadFile
<1> QED BY <1>4, <1>5

LEMMA FinishBatchKeeps == ASSUME UploadsIInv, NEW b \in Batches, FinishBatch(b) PROVE UploadsIInv'
<1>1. PICK d : d = batches[b]
  OBVIOUS
<1>2. PICK r : r = [d EXCEPT !.stage = "done"]
  OBVIOUS
<1>3. /\ d.stage = "next" /\ batches' = [batches EXCEPT ![b] = r] /\ marked' = marked \cup NewOf(b)
      /\ UNCHANGED <<queue, paths, uploaded, dismissed>>
  BY <1>1, <1>2 DEF FinishBatch
<1>4. BatchOK(d) /\ d \in BatchRecord /\ d.at \in Nat
  BY <1>1, BatchFacts
<1>5. /\ r.files = d.files /\ r.base = d.base /\ r.at = d.at /\ r.stage = "done" /\ r.status = d.status
      /\ r.landed = d.landed /\ r \in BatchRecord
  BY <1>2, <1>4 DEF BatchRecord
<1>6. BatchOK(r) /\ r.stage # "idle" /\ d.stage # "idle"
  BY <1>3, <1>4, <1>5 DEF BatchOK
<1>7. BatchesInv' /\ MarksInv'
  BY <1>1, <1>3, <1>5, <1>6, BatchGoesOn DEF UploadsIInv, MarksInv, NewOf, Size
<1>8. QueueInv' /\ PathsInv'
  BY <1>3 DEF UploadsIInv, QueueInv, PathsInv
<1> QED BY <1>7, <1>8 DEF UploadsIInv

LEMMA ClearsKeep ==
    ASSUME UploadsIInv
    PROVE  /\ DismissOverlay => UploadsIInv'
           /\ \A c \in Contents : ClearNew(c) => UploadsIInv'
<1>1. BatchesInv /\ QueueInv /\ PathsInv /\ MarksInv
  BY DEF UploadsIInv
<1>2. ASSUME UNCHANGED <<batches, paths, uploaded>>, marked' \subseteq marked
      PROVE  BatchesInv' /\ PathsInv' /\ MarksInv'
  BY <1>1, <1>2 DEF BatchesInv, PathsInv, MarksInv, OnlyCreatedAreNew, Size
<1>3. ASSUME DismissOverlay PROVE UploadsIInv'
  <2>1. /\ queue' = [id \in DOMAIN queue |-> Absent] /\ dismissed' = TRUE
        /\ UNCHANGED <<batches, paths, uploaded, marked>>
    BY <1>3 DEF DismissOverlay
  <2>2. QueueInv'
    BY <1>1, <2>1 DEF QueueInv
  <2> QED BY <1>2, <2>1, <2>2 DEF UploadsIInv
<1>4. ASSUME NEW c \in Contents, ClearNew(c) PROVE UploadsIInv'
  <2>1. marked' = marked \ {c} /\ UNCHANGED <<batches, queue, paths, uploaded, dismissed>>
    BY <1>4 DEF ClearNew
  <2>2. QueueInv'
    BY <1>1, <2>1 DEF QueueInv
  <2> QED BY <1>2, <2>1, <2>2 DEF UploadsIInv
<1> QED BY <1>3, <1>4

-----------------------------------------------------------------------------
(* Uploads: the theorems.                                                  *)

LEMMA UploadsInitInvariant == UploadsInit => UploadsIInv
<1> SUFFICES ASSUME UploadsInit PROVE UploadsIInv
  OBVIOUS
<1>1. \A b \in Batches : batches[b] = NoBatch
  BY DEF UploadsInit
<1>2. BatchesInv
  <2>1. NoBatch \in BatchRecord
    BY NoBatchOK DEF BatchOK
  <2> QED BY <1>1, <2>1, NoBatchOK DEF UploadsInit, BatchesInv
<1>3. QueueInv /\ PathsInv /\ MarksInv
  BY DEF UploadsInit, QueueInv, PathsInv, MarksInv, OnlyCreatedAreNew
<1> QED BY <1>2, <1>3 DEF UploadsIInv

LEMMA UploadsStepInvariant == UploadsIInv /\ [UploadsNext]_uploadVars => UploadsIInv'
<1> SUFFICES ASSUME UploadsIInv, [UploadsNext]_uploadVars PROVE UploadsIInv'
  OBVIOUS
<1>1. ASSUME NEW b \in Batches, NEW files \in FileLists, NEW f \in Bases,
             ChooseFiles(b, files, f) \/ DropOnNode(b, files, f)
      PROVE  UploadsIInv'
  BY <1>1, ChosenKeeps, DropOnNodeFacts
<1>2. ASSUME NEW b \in Batches, NEW files \in FileLists, DropOnWindow(b, files) PROVE UploadsIInv'
  BY <1>2, ChosenKeeps, UploadConstants
<1>3. ASSUME NEW b \in Batches,
             NextFile(b) \/ ResolvePath(b) \/ PathRefused(b) \/ SkipEmpty(b) \/ UploadFile(b) \/ FinishBatch(b)
      PROVE  UploadsIInv'
  BY <1>3, NextFileKeeps, ResolvePathKeeps, PathRefusedKeeps, ResultsKeep, FinishBatchKeeps
<1>4. ASSUME DismissOverlay \/ \E c \in Contents : ClearNew(c) PROVE UploadsIInv'
  BY <1>4, ClearsKeep
<1>5. ASSUME UNCHANGED uploadVars PROVE UploadsIInv'
  BY <1>5 DEF uploadVars, UploadsIInv, BatchesInv, QueueInv, PathsInv, MarksInv, OnlyCreatedAreNew, Size
<1> QED BY <1>1, <1>2, <1>3, <1>4, <1>5 DEF UploadsNext

LEMMA UploadsInvariant == UploadsSpec => []UploadsIInv
<1>1. UploadsInit => UploadsIInv
  BY UploadsInitInvariant
<1>2. UploadsIInv /\ [UploadsNext]_uploadVars => UploadsIInv'
  BY UploadsStepInvariant
<1> QED BY <1>1, <1>2, PTL DEF UploadsSpec

LEMMA UploadsIInvIsTyped == UploadsIInv => UploadsTypeOK
<1> SUFFICES ASSUME UploadsIInv PROVE UploadsTypeOK
  OBVIOUS
<1>1. ASSUME NEW b \in Batches
      PROVE  /\ Len(batches[b].status) = Size(b) /\ Len(batches[b].landed) = Size(b)
             /\ batches[b].at \in 0..(MaxFiles + 1) /\ batches[b].target \in Places2 \cup {Absent}
  <2>1. PICK d : d = batches[b]
    OBVIOUS
  <2>2. BatchOK(d) /\ d \in BatchRecord /\ d.at \in Nat /\ Size(b) = Len(d.files) /\ d.files \in Seq(Files)
    BY <2>1, BatchFacts
  <2>3. Len(d.files) \in Nat /\ MaxFiles \in Nat
    BY <2>2, UploadConstants
  <2> QED BY <2>1, <2>2, <2>3 DEF BatchOK, BatchRecord
<1> QED BY <1>1 DEF UploadsIInv, QueueInv, MarksInv, UploadsTypeOK

\* A batch keeps one status and one spot for each of its files, and what is
\* queued, stored and marked has the shape it should.
THEOREM UploadsTyped == UploadsSpec => []UploadsTypeOK
  BY UploadsIInvIsTyped, UploadsInvariant, PTL

LEMMA UploadsIInvIsAccounted == UploadsIInv => UploadsAreAccounted
<1> SUFFICES ASSUME UploadsIInv PROVE UploadsAreAccounted
  OBVIOUS
<1>1. FilesLandWhereAimed
  BY DEF UploadsIInv, BatchesInv, BatchOK, FilesLandWhereAimed, Size
<1>2. ActiveUploadsAreShown
  <2>1. Absent \notin ActiveStatus
    BY UploadConstants DEF ActiveStatus
  <2> QED BY <2>1 DEF UploadsIInv, QueueInv, ActiveUploadsAreShown, Visible
<1>3. OnlyCreatedAreNew
  BY DEF UploadsIInv, MarksInv
<1> QED BY <1>1, <1>2, <1>3 DEF UploadsAreAccounted

\* Batches side by side, which share and clear one cache of paths: a file is
\* created at its path below the folder of its own batch, what is uploading is on
\* the screen, and only what was created here is marked as new.
THEOREM UploadsAccounted == UploadsSpec => []UploadsAreAccounted
  BY UploadsIInvIsAccounted, UploadsInvariant, PTL

\* What is out of the queue stays out, once its batch has begun.
StaysOut == \A b \in Batches, i \in 1..MaxFiles :
                Shown(b, i) = Absent /\ batches[b].stage # "idle" => Shown(b, i)' = Absent

LEMMA UploadsKeepCleared == UploadsIInv /\ [UploadsNext]_uploadVars => [StaysOut]_uploadVars
<1> SUFFICES ASSUME UploadsIInv, UploadsNext, NEW b \in Batches, NEW i \in 1..MaxFiles,
                    queue[<<b, i>>] = Absent, batches[b].stage # "idle"
             PROVE  queue'[<<b, i>>] = Absent
  BY DEF Shown, StaysOut
<1>1. PICK id : id = <<b, i>>
  OBVIOUS
<1>2. id \in Batches \X (1..MaxFiles) /\ id[1] = b /\ queue[id] = Absent
  BY <1>1
<1>3. QueueInv
  BY DEF UploadsIInv
<1>4. ASSUME NEW e \in Batches, NEW files \in FileLists, NEW f \in Bases,
             ChooseFiles(e, files, f) \/ DropOnWindow(e, files)
      PROVE  queue'[id] = Absent
  <2>1. queue' = Appended(queue, e, files) /\ batches[e].stage = "idle"
    BY <1>4 DEF ChooseFiles, DropOnWindow, Idle2
  <2>2. id[1] # e
    BY <1>1, <2>1
  <2>3. queue \in [Batches \X (1..MaxFiles) -> ActiveStatus \cup EndStatus \cup {Absent}]
    BY <1>3 DEF QueueInv
  <2>4. Appended(queue, e, files)[id] = queue[id]
    BY ONLY <1>2, <2>2, <2>3 DEF Appended
  <2> QED BY <1>2, <2>1, <2>4
<1>5. ASSUME NEW e \in Batches, NEW files \in FileLists, NEW f \in Bases, DropOnNode(e, files, f)
      PROVE  queue'[id] = Absent
  <2>1. queue' = Appended(Appended(queue, e, files), e + 1, files)
    BY <1>5 DEF DropOnNode
  <2>2. e # b /\ e + 1 # b
    BY <1>5, DropOnNodeFacts
  <2>3. PICK q : q = Appended(queue, e, files)
    OBVIOUS
  <2>4. PICK a : a = e + 1
    OBVIOUS
  <2>5. q \in [Batches \X (1..MaxFiles) -> ActiveStatus \cup EndStatus \cup {Absent}]
    BY <1>3, <2>3, AppendedTyped DEF QueueInv
  <2>8. queue \in [Batches \X (1..MaxFiles) -> ActiveStatus \cup EndStatus \cup {Absent}]
    BY <1>3 DEF QueueInv
  <2>6. q[id] = Absent
    BY ONLY <1>2, <2>2, <2>3, <2>8 DEF Appended
  <2>7. queue' = Appended(q, a, files) /\ a # b
    BY <2>1, <2>2, <2>3, <2>4
  <2> QED BY <1>2, <2>5, <2>6, <2>7 DEF Appended
<1>6. ASSUME NEW e \in Batches, NextFile(e) \/ SkipEmpty(e) \/ UploadFile(e) PROVE queue'[id] = Absent
  <2>1. \E x, v : queue' = Patched(queue, x, v)
    BY <1>6 DEF NextFile, SkipEmpty, UploadFile, Ended
  <2>2. PICK x, v : queue' = Patched(queue, x, v)
    BY <2>1
  <2>3. queue \in [Batches \X (1..MaxFiles) -> ActiveStatus \cup EndStatus \cup {Absent}]
    BY <1>3 DEF QueueInv
  <2>4. Patched(queue, x, v)[id] = IF id = x /\ queue[x] # Absent THEN v ELSE queue[id]
    BY <1>2, <2>3 DEF Patched
  <2>5. id = x => queue[x] = Absent
    BY <1>2
  <2> QED BY SMTT(60), <1>2, <2>2, <2>4, <2>5
<1>7. ASSUME NEW e \in Batches, PathRefused(e) PROVE queue'[id] = Absent
  BY <1>2, <1>3, <1>7 DEF PathRefused, QueueInv
<1>8. ASSUME NEW e \in Batches, ResolvePath(e) \/ FinishBatch(e) PROVE queue'[id] = Absent
  BY <1>2, <1>8 DEF ResolvePath, FinishBatch
<1>9. ASSUME DismissOverlay \/ \E c \in Contents : ClearNew(c) PROVE queue'[id] = Absent
  BY <1>2, <1>3, <1>9 DEF DismissOverlay, ClearNew, QueueInv
<1>10. queue'[id] = Absent
  BY <1>4, <1>5, <1>6, <1>7, <1>8, <1>9, UploadConstants DEF UploadsNext
<1> QED BY <1>1, <1>10

\* What was cleared from the queue is not brought back by the results of the
\* batch it belongs to, which goes on.
THEOREM QueueKeepsCleared == UploadsSpec => ClearedItemsStayOut
<1>1. UploadsSpec => [][StaysOut]_uploadVars
  BY UploadsKeepCleared, UploadsInvariant, PTL DEF UploadsSpec
<1> QED BY <1>1 DEF ClearedItemsStayOut, StaysOut

-----------------------------------------------------------------------------
(* The shell: the invariant.                                               *)

BridgeRecord == [viewing : Leaflets \cup {Nil}, here : Shelves, detailed : BOOLEAN]

ViewTypes ==
  /\ viewing \in Leaflets \cup {Nil} /\ inspected \in Leaflets \cup {Nil} /\ previewed \in Leaflets \cup {Nil}
  /\ here \in Shelves /\ address \in Routes /\ returnTo \in Routes \cup {NoRoute} /\ routed \in Shelves \cup {Nil}
  /\ bridged \in BridgeRecord

\* The stack is the one of the document viewed when its effect last ran.
StackInv == mainStack = IF bridged.viewing # Nil THEN <<"documents", "viewer">> ELSE <<"documents">>

\* The folder last routed to is the one selected, but while an effect is due or
\* the address has just been made to follow the folder.
RouteInv ==
  \/ FolderEffectDue
  \/ routed \in {here, Nil}
  \/ ~ViewerEffectDue /\ address = FolderPath(here)

\* What is not yet on display, or still is, has the timer that corrects it.
BackdropInv ==
  /\ backdrop \in [drawn : BOOLEAN, visible : BOOLEAN, timers : SUBSET {"show", "hide"}]
  /\ opener = (previewed # Nil)
  /\ previewed # Nil => /\ backdrop.drawn /\ "hide" \notin backdrop.timers
                        /\ backdrop.visible \/ "show" \in backdrop.timers
  /\ previewed = Nil => /\ ~backdrop.visible /\ "show" \notin backdrop.timers
                        /\ backdrop.drawn => "hide" \in backdrop.timers

WidthInv ==
  /\ screen \in [width : Windows, refitted : BOOLEAN]
  /\ wide \in [PanelKeys -> 0..screen.width] /\ preferred \in [PanelKeys -> Nat]
  /\ collapsed \in BOOLEAN /\ suppressed \in BOOLEAN /\ dragging \in PanelKeys \cup {Nil}

\* The sidebar was told of the panel when the widths were last looked at.
RoomInv ==
  ~DetailEffectDue /\ ~collapsed /\ ~screen.refitted => suppressed = (Detailed /\ ~Roomy(screen.width, wide))

DragInv == dragging = "detail" => bridged.detailed

\* Notices are on display in the order they came in, each with its timer.
ToastInv ==
  /\ notices \in 0..MaxNotices /\ timers \subseteq 1..notices
  /\ toasts \in Seq(1..notices) /\ Len(toasts) <= MaxToasts
  /\ \A i, j \in 1..Len(toasts) : i < j => toasts[i] < toasts[j]
  /\ \A i \in 1..Len(toasts) : toasts[i] \in timers

ShellIInv ==
  /\ ViewTypes /\ StackInv /\ RouteInv
  /\ BackdropInv
  /\ WidthInv /\ RoomInv /\ DragInv
  /\ ToastInv

-----------------------------------------------------------------------------
(* The shell: lemmas.                                                      *)

LEMMA RouteKinds ==
    /\ \A f \in Shelves : FolderPath(f) \in Routes /\ FolderPath(f).kind = "folder" /\ FolderPath(f).id = f
    /\ \A d \in Leaflets : DocumentPath(d) \in Routes /\ DocumentPath(d).kind = "document"
    /\ \A a \in Routes : \/ a.kind = "folder" /\ a.id \in Shelves /\ a = FolderPath(a.id)
                         \/ a.kind = "document"
<1>1. /\ \A f \in Shelves : FolderPath(f) \in Routes /\ FolderPath(f).kind = "folder" /\ FolderPath(f).id = f
      /\ \A d \in Leaflets : DocumentPath(d) \in Routes /\ DocumentPath(d).kind = "document"
  BY DEF Routes, FolderPath, DocumentPath
<1>2. ASSUME NEW a \in Routes
      PROVE  \/ a.kind = "folder" /\ a.id \in Shelves /\ a = FolderPath(a.id)
             \/ a.kind = "document"
  <2>1. CASE \E f \in Shelves : a = FolderPath(f)
    BY <1>1, <2>1
  <2>2. CASE \E d \in Leaflets : a = DocumentPath(d)
    BY <1>1, <2>2
  <2> QED BY <2>1, <2>2 DEF Routes
<1> QED BY <1>1, <1>2

LEMMA TargetTyped == ASSUME ViewTypes PROVE Target \in Shelves
BY RouteKinds, ShellConstants DEF ViewTypes, Target

\* A list that has an element once at most, without it.
LEMMA WithoutIt ==
    ASSUME NEW S, NEW s \in Seq(S), NEW e, \A i, j \in 1..Len(s) : s[i] = e /\ s[j] = e => i = j
    PROVE  /\ Without(s, e) \in Seq(S) /\ Len(Without(s, e)) <= Len(s)
           /\ \A i \in 1..Len(Without(s, e)) :
                /\ Without(s, e)[i] # e
                /\ \E m \in 1..Len(s) : Without(s, e)[i] = s[m] /\ i <= m
           /\ (\A i \in 1..Len(s) : s[i] # e) => Without(s, e) = s
           /\ \A i, j \in 1..Len(Without(s, e)) : i < j =>
                \E m, n \in 1..Len(s) : m < n /\ Without(s, e)[i] = s[m] /\ Without(s, e)[j] = s[n]
<1>1. DOMAIN s = 1..Len(s) /\ Len(s) \in Nat
  OBVIOUS
<1>2. CASE \A i \in DOMAIN s : s[i] # e
  <2>1. Without(s, e) = s
    BY <1>2 DEF Without
  <2> QED BY <1>1, <1>2, <2>1
<1>3. CASE \E i \in DOMAIN s : s[i] = e
  <2>1. PICK k : k = CHOOSE i \in DOMAIN s : s[i] = e
    OBVIOUS
  <2>2. k \in 1..Len(s) /\ s[k] = e
    BY <1>1, <1>3, <2>1
  <2>3. PICK t : t = [i \in 1..(Len(s) - 1) |-> IF i < k THEN s[i] ELSE s[i + 1]]
    OBVIOUS
  <2>4. Without(s, e) = t
    BY <1>3, <2>1, <2>3 DEF Without
  <2>5. \A i \in 1..(Len(s) - 1) : t[i] \in S
    BY <1>1, <2>2, <2>3
  <2>6. t \in Seq(S) /\ Len(t) = Len(s) - 1
    BY <1>1, <2>2, <2>3, <2>5
  <2>7. ASSUME NEW i \in 1..Len(t) PROVE t[i] # e /\ \E m \in 1..Len(s) : t[i] = s[m] /\ i <= m
    <3>1. CASE i < k
      BY <1>1, <2>2, <2>3, <2>6, <3>1
    <3>2. CASE ~(i < k)
      <4>1. t[i] = s[i + 1] /\ i + 1 \in 1..Len(s) /\ i + 1 # k
        BY <1>1, <2>2, <2>3, <2>6, <3>2
      <4> QED BY <2>2, <4>1
    <3> QED BY <3>1, <3>2
  <2>8. ASSUME NEW i \in 1..Len(t), NEW j \in 1..Len(t), i < j
        PROVE  \E m, n \in 1..Len(s) : m < n /\ t[i] = s[m] /\ t[j] = s[n]
    <3>1. PICK m : m = IF i < k THEN i ELSE i + 1
      OBVIOUS
    <3>2. PICK n : n = IF j < k THEN j ELSE j + 1
      OBVIOUS
    <3>3. m \in 1..Len(s) /\ n \in 1..Len(s) /\ m < n /\ t[i] = s[m] /\ t[j] = s[n]
      BY <1>1, <2>2, <2>3, <2>6, <2>8, <3>1, <3>2
    <3> QED BY <3>3
  <2>9. ~ \A i \in 1..Len(s) : s[i] # e
    BY <2>2
  <2> QED BY <2>4, <2>6, <2>7, <2>8, <2>9
<1> QED BY <1>2, <1>3

LEMMA StackAfter == ASSUME StackInv PROVE StackOfViewer = IF viewing # Nil THEN <<"documents", "viewer">> ELSE <<"documents">>
<1>1. PICK s : s = Without(mainStack, "viewer")
  OBVIOUS
<1>2. s = <<"documents">>
  <2>1. CASE mainStack = <<"documents">>
    <3>1. \A i \in DOMAIN mainStack : mainStack[i] # "viewer"
      BY <2>1
    <3> QED BY <1>1, <2>1, <3>1 DEF Without
  <2>2. CASE mainStack = <<"documents", "viewer">>
    <3>1. PICK k : k = CHOOSE i \in DOMAIN mainStack : mainStack[i] = "viewer"
      OBVIOUS
    <3>2. DOMAIN mainStack = {1, 2} /\ mainStack[1] = "documents" /\ mainStack[2] = "viewer" /\ Len(mainStack) = 2
      BY <2>2
    <3>3. k = 2
      BY <3>1, <3>2
    <3>4. s = [i \in 1..1 |-> IF i < k THEN mainStack[i] ELSE mainStack[i + 1]]
      BY <1>1, <3>1, <3>2 DEF Without
    <3>5. s = [i \in 1..1 |-> "documents"]
      BY <3>2, <3>3, <3>4
    <3> QED BY <3>5
  <2> QED BY <2>1, <2>2 DEF StackInv
<1>3. Append(<<"documents">>, "viewer") = <<"documents", "viewer">>
  <2>1. PICK u : u = Append(<<"documents">>, "viewer")
    OBVIOUS
  <2>2. PICK d : d = <<"documents">>
    OBVIOUS
  <2>3. d \in Seq({"documents", "viewer"}) /\ Len(d) = 1 /\ d[1] = "documents"
    BY <2>2
  <2>4. u \in Seq({"documents", "viewer"}) /\ Len(u) = 2 /\ u[1] = "documents" /\ u[2] = "viewer"
    BY <2>1, <2>2, <2>3, AppendProperties
  <2>5. u = <<"documents", "viewer">>
    BY <2>4
  <2> QED BY <2>1, <2>5
<1>4. StackOfViewer = IF viewing # Nil THEN Append(s, "viewer") ELSE s
  BY <1>1 DEF StackOfViewer
<1> QED BY <1>2, <1>3, <1>4

LEMMA FittedTyped ==
    ASSUME NEW w \in Windows, NEW open \in BOOLEAN, NEW pref \in [PanelKeys -> Nat]
    PROVE  Fitted(w, open, pref) \in [PanelKeys -> 0..w] /\ PreferredAfter(w, open, pref) \in [PanelKeys -> Nat]
<1>1. w \in Nat /\ w > 0 /\ SideWidth \in Nat
  BY ShellConstants
<1>2. PICK s : s = pref["sidebar"]
  OBVIOUS
<1>3. PICK d : d = pref["detail"]
  OBVIOUS
<1>4. s \in Nat /\ d \in Nat
  BY <1>2, <1>3 DEF PanelKeys
<1>5. PreferredAfter(w, open, pref) \in [PanelKeys -> Nat]
  BY <1>1 DEF PreferredAfter, PanelKeys
<1>6. CASE ~Solo(w, pref)
  <2>1. s <= w
    BY <1>1, <1>2, <1>4, <1>6 DEF Solo, Smaller
  <2>2. PICK x : x = Smaller(d, w - s)
    OBVIOUS
  <2>3. x \in 0..w
    BY <1>1, <1>4, <2>1, <2>2 DEF Smaller
  <2>4. Fitted(w, open, pref) = [pref EXCEPT !["detail"] = x]
    BY <1>2, <1>3, <1>6, <2>2 DEF Fitted, PanelKeys
  <2> QED BY <1>1, <1>2, <1>4, <1>5, <2>1, <2>3, <2>4 DEF PanelKeys
<1>7. CASE Solo(w, pref)
  <2>1. PICK x : x = Smaller(d, w)
    OBVIOUS
  <2>2. x \in 0..w /\ 0 \in 0..w /\ w \in 0..w
    BY <1>1, <1>4, <2>1 DEF Smaller
  <2>3. /\ open => Fitted(w, open, pref) = [sidebar |-> 0, detail |-> x]
        /\ ~open => Fitted(w, open, pref) = [sidebar |-> w, detail |-> 0]
    BY <1>3, <1>7, <2>1 DEF Fitted
  <2>4. [sidebar |-> 0, detail |-> x] \in [PanelKeys -> 0..w] /\ [sidebar |-> w, detail |-> 0] \in [PanelKeys -> 0..w]
    BY <2>2 DEF PanelKeys
  <2> QED BY <1>5, <2>3, <2>4
<1> QED BY <1>6, <1>7

LEMMA ClampedTyped == ASSUME NEW p \in PanelKeys, NEW w \in Windows, NEW v \in Nat PROVE Clamped(p, w, v) \in 0..w
<1>1. w \in Nat /\ MinWidth[p] \in Nat /\ MainWidth \in Nat
  BY ShellConstants DEF PanelKeys
<1>2. PICK m : m = MinWidth[p]
  OBVIOUS
<1>3. PICK q : q = IF p = "sidebar" THEN w \div 4 ELSE (2 * w) \div 5
  OBVIOUS
<1>4. q \in Int
  BY <1>1, <1>3
<1>5. PICK most : most = Larger(q, m)
  OBVIOUS
<1>6. PICK allowed : allowed = Smaller(w, Larger(m, Smaller(most, w - MainWidth)))
  OBVIOUS
<1>7. most \in Int /\ allowed \in Int /\ allowed <= w
  BY <1>1, <1>2, <1>4, <1>5, <1>6 DEF Smaller, Larger
<1>8. Clamped(p, w, v) = Smaller(Larger(v, m), Larger(0, allowed))
  BY <1>2, <1>3, <1>5, <1>6 DEF Clamped
<1> QED BY <1>1, <1>2, <1>7, <1>8 DEF Smaller, Larger

-----------------------------------------------------------------------------
(* The shell: what the user does, the effects done.                        *)

\* What the user does changes what is on display; the effects come after.
LEMMA UserView ==
    ASSUME ShellIInv, EffectsDone, UNCHANGED <<routed, bridged, mainStack>>,
           viewing' \in Leaflets \cup {Nil}, inspected' \in Leaflets \cup {Nil}, previewed' \in Leaflets \cup {Nil},
           here' \in Shelves, address' \in Routes, returnTo' \in Routes \cup {NoRoute}
    PROVE  ViewTypes' /\ StackInv' /\ RouteInv'
<1>1. ViewTypes' /\ StackInv'
  BY DEF ShellIInv, ViewTypes, StackInv
<1>2. routed \in {here, Nil}
  <2>1. ViewTypes /\ RouteInv /\ ~FolderEffectDue /\ ~RouteEffectDue
    BY DEF ShellIInv, EffectsDone
  <2>2. CASE address = FolderPath(here)
    <3>1. address.kind = "folder" /\ address.id = here
      BY <2>1, <2>2, RouteKinds DEF ViewTypes
    <3> QED BY <2>1, <3>1 DEF RouteEffectDue, Target
  <2> QED BY <2>1, <2>2 DEF RouteInv
<1>3. RouteInv'
  <2>1. bridged.here = here
    BY DEF EffectsDone, FolderEffectDue
  <2> QED BY <1>2, <2>1 DEF RouteInv, FolderEffectDue
<1> QED BY <1>1, <1>3

LEMMA UserRoom ==
    ASSUME ShellIInv, EffectsDone, UNCHANGED <<sizeVars, bridged>>, inspected' \in Leaflets \cup {Nil}
    PROVE  WidthInv' /\ RoomInv' /\ DragInv'
BY DEF ShellIInv, WidthInv, RoomInv, DragInv, EffectsDone, DetailEffectDue, Detailed, sizeVars, Roomy

LEMMA NoticesRest == ASSUME ShellIInv, UNCHANGED noticeVars PROVE ToastInv'
BY DEF ShellIInv, ToastInv, noticeVars

LEMMA BackdropRests == ASSUME ShellIInv, UNCHANGED <<previewed, opener, backdrop>> PROVE BackdropInv'
BY DEF ShellIInv, BackdropInv

LEMMA ViewerUserKeeps == ASSUME ShellIInv, ViewerUser PROVE ShellIInv'
<1> DEFINE Acted ==
      /\ EffectsDone /\ UNCHANGED <<routed, bridged, mainStack, sizeVars, noticeVars>>
      /\ viewing' \in Leaflets \cup {Nil} /\ inspected' \in Leaflets \cup {Nil} /\ previewed' \in Leaflets \cup {Nil}
      /\ here' \in Shelves /\ address' \in Routes /\ returnTo' \in Routes \cup {NoRoute}
<1>1. Acted
  <2>1. ViewTypes
    BY DEF ShellIInv
  <2>2. ASSUME NEW d \in Leaflets, Navigate(d) \/ Inspect(d) \/ OpenPreview(d) PROVE Acted
    BY <2>1, <2>2 DEF ViewTypes, Navigate, Inspect, OpenPreview, ShellActing, Viewed, routeVars
  <2>3. CASE MaximizeDetail \/ CloseDetail \/ CloseViewer
    BY <2>1, <2>3 DEF ViewTypes, MaximizeDetail, CloseDetail, CloseViewer, ShellActing, Viewed, routeVars
  <2>4. CASE ClosePreview \/ MaximizePreview
    BY <2>1, <2>4 DEF ViewTypes, ClosePreview, MaximizePreview, ShellActing, Viewed, routeVars
  <2>5. ASSUME NEW f \in Shelves, NavigateToFolder(f) \/ SelectFolder(f) PROVE Acted
    BY <2>1, <2>5 DEF ViewTypes, NavigateToFolder, SelectFolder, ShellActing, routeVars
  <2>6. ASSUME NEW a \in Routes, EnterAddress(a) PROVE Acted
    BY <2>1, <2>6 DEF ViewTypes, EnterAddress, ShellActing, viewerVars
  <2> QED BY <2>2, <2>3, <2>4, <2>5, <2>6 DEF ViewerUser
<1>2. BackdropInv'
  <2>1. BackdropInv /\ ViewTypes
    BY DEF ShellIInv
  <2>2. CASE UNCHANGED <<previewed, opener, backdrop>>
    BY <2>2, BackdropRests
  <2>3. ASSUME NEW d \in Leaflets, OpenPreview(d) PROVE BackdropInv'
    <3>1. previewed' = d /\ d # Nil /\ opener' = TRUE
      BY <2>3, ShellConstants DEF OpenPreview
    <3>2. CASE previewed = Nil
      <4>1. backdrop' = [backdrop EXCEPT !.drawn = TRUE, !.timers = {"show"}]
        BY <2>3, <3>2 DEF OpenPreview, BackdropEffect, TimersFor
      <4> QED BY <2>1, <3>1, <4>1 DEF BackdropInv
    <3>3. CASE previewed # Nil
      <4>1. backdrop' = backdrop
        BY <2>3, <3>3 DEF OpenPreview
      <4> QED BY <2>1, <3>1, <3>3, <4>1 DEF BackdropInv
    <3> QED BY <3>2, <3>3
  <2>4. CASE ClosePreview \/ MaximizePreview
    <3>1. previewed' = Nil /\ opener' = FALSE /\ backdrop' = [backdrop EXCEPT !.visible = FALSE, !.timers = {"hide"}]
      BY <2>4 DEF ClosePreview, MaximizePreview, BackdropEffect, TimersFor
    <3> QED BY <2>1, <3>1 DEF BackdropInv
  <2> QED BY <2>2, <2>3, <2>4 DEF ViewerUser, Navigate, Inspect, MaximizeDetail, CloseDetail, CloseViewer,
                                  NavigateToFolder, SelectFolder, EnterAddress, Viewed, viewerVars
<1> QED BY <1>1, <1>2, UserView, UserRoom, NoticesRest DEF ShellIInv

-----------------------------------------------------------------------------
(* The shell: the panels.                                                  *)

LEMMA PanelUserView ==
    ASSUME ShellIInv, PanelUser
    PROVE  /\ ViewTypes' /\ StackInv' /\ RouteInv' /\ BackdropInv' /\ ToastInv'
           /\ EffectsDone /\ inspected' \in {inspected, Nil} /\ bridged' = bridged
<1>1. /\ EffectsDone /\ inspected' \in {inspected, Nil}
      /\ UNCHANGED <<routeVars, noticeVars, viewing, previewed, returnTo, here, opener, backdrop>>
  BY DEF PanelUser, Drag, Drop, CollapseSidebar, ExpandSidebar, ResizeWindow, ShellActing, DetailIfRoomy,
         viewerVars
<1>2. UNCHANGED <<routed, bridged, mainStack, address>>
  BY <1>1 DEF routeVars
<1>3. ViewTypes' /\ StackInv' /\ RouteInv'
  BY <1>1, <1>2, UserView DEF ShellIInv, ViewTypes
<1> QED BY <1>1, <1>2, <1>3, BackdropRests, NoticesRest

LEMMA DragKeeps ==
    ASSUME ShellIInv, NEW p \in PanelKeys, NEW v \in Asks, Drag(p, v) PROVE WidthInv' /\ RoomInv' /\ DragInv'
<1>1. WidthInv /\ RoomInv /\ DragInv /\ ViewTypes
  BY DEF ShellIInv
<1>2. PICK w : w = screen.width
  OBVIOUS
<1>3. w \in Windows /\ v \in Nat /\ bridged.detailed = Detailed /\ bridged' = bridged
  BY <1>1, <1>2, ShellConstants DEF WidthInv, Drag, ShellActing, EffectsDone, DetailEffectDue, routeVars
<1>4. PICK x : x = Clamped(p, w, v)
  OBVIOUS
<1>5. x \in 0..w
  BY <1>3, <1>4, ClampedTyped
<1>6. dragging' = p /\ wide' = [wide EXCEPT ![p] = x] /\ screen' = [screen EXCEPT !.refitted = FALSE]
  BY <1>2, <1>4 DEF Drag
<1>7. screen' \in [width : Windows, refitted : BOOLEAN] /\ screen'.width = w /\ preferred' = preferred /\ collapsed' = collapsed
  BY <1>1, <1>2, <1>6 DEF WidthInv, Drag
<1>8. CASE p = "detail"
  <2>1. Detailed /\ inspected' = inspected /\ suppressed' = (IF collapsed THEN suppressed ELSE ~Roomy(w, wide'))
    BY <1>2, <1>8 DEF Drag
  <2>2. WidthInv'
    BY <1>1, <1>2, <1>5, <1>6, <1>7, <2>1 DEF WidthInv, Roomy
  <2> QED BY <1>1, <1>3, <1>6, <1>7, <1>8, <2>1, <2>2 DEF RoomInv, DragInv, Detailed
<1>9. CASE p = "sidebar"
  <2>1. ~collapsed /\ ~suppressed /\ suppressed' = suppressed /\ inspected' = IF Roomy(w, wide') THEN inspected ELSE Nil
    BY <1>2, <1>9 DEF Drag, SidebarShown
  <2>2. WidthInv'
    BY <1>1, <1>2, <1>5, <1>6, <1>7, <2>1 DEF WidthInv
  <2>3. RoomInv'
    <3>1. screen'.width = w /\ suppressed' = FALSE
      BY <1>1, <1>7, <2>1 DEF WidthInv
    <3>2. CASE Roomy(w, wide')
      BY <3>1, <3>2 DEF RoomInv
    <3>3. CASE ~Roomy(w, wide') /\ Detailed
      <4>1. Detailed' = FALSE /\ bridged'.detailed = TRUE
        BY <1>3, <2>1, <3>3 DEF Detailed
      <4> QED BY <4>1 DEF RoomInv, DetailEffectDue
    <3>4. CASE ~Roomy(w, wide') /\ ~Detailed
      <4>1. Detailed' = FALSE
        BY <2>1, <3>4 DEF Detailed
      <4> QED BY <3>1, <4>1 DEF RoomInv
    <3> QED BY <3>2, <3>3, <3>4
  <2> QED BY <1>6, <1>9, <2>2, <2>3 DEF DragInv
<1> QED BY <1>8, <1>9 DEF PanelKeys

LEMMA PanelUserKeeps == ASSUME ShellIInv, PanelUser PROVE ShellIInv'
<1>1. WidthInv /\ RoomInv /\ DragInv /\ ViewTypes
  BY DEF ShellIInv
<1>2. EffectsDone /\ inspected' \in {inspected, Nil} /\ bridged' = bridged
  BY PanelUserView
<1>3. bridged.detailed = Detailed
  BY <1>2 DEF EffectsDone, DetailEffectDue
<1>4. ASSUME Drop PROVE WidthInv' /\ RoomInv' /\ DragInv'
  <2>1. dragging \in PanelKeys /\ wide[dragging] \in Nat
    BY <1>1, <1>4, ShellConstants DEF WidthInv, Drop
  <2>2. WidthInv'
    BY <1>1, <1>4, <2>1 DEF WidthInv, Drop
  <2>3. UNCHANGED <<inspected, bridged, screen, wide, collapsed, suppressed>> /\ dragging' = Nil
    BY <1>4 DEF Drop, viewerVars, routeVars
  <2>4. RoomInv'
    BY <1>1, <2>3 DEF RoomInv, DetailEffectDue, Detailed, Roomy
  <2>5. DragInv'
    BY <2>3, ShellConstants DEF DragInv
  <2> QED BY <2>2, <2>4, <2>5
<1>5. ASSUME CollapseSidebar PROVE WidthInv' /\ RoomInv' /\ DragInv'
  BY <1>1, <1>2, <1>5 DEF RoomInv, DragInv, WidthInv, CollapseSidebar
<1>6. ASSUME ExpandSidebar PROVE WidthInv' /\ RoomInv' /\ DragInv'
  <2>1. /\ ~(~collapsed /\ ~suppressed) /\ ~collapsed' /\ suppressed' = (suppressed /\ ~collapsed)
        /\ inspected' = IF Roomy(screen.width, wide) THEN inspected ELSE Nil
        /\ screen' = [screen EXCEPT !.refitted = screen.refitted /\ ~collapsed]
        /\ UNCHANGED <<wide, preferred, dragging>> /\ collapsed' = FALSE
    BY <1>6 DEF ExpandSidebar, SidebarShown, DetailIfRoomy
  <2>2. WidthInv' /\ screen'.width = screen.width /\ screen'.refitted = (screen.refitted /\ ~collapsed)
    BY <1>1, <2>1 DEF WidthInv
  <2>3. RoomInv'
    BY <1>1, <1>2, <1>3, <2>1, <2>2 DEF RoomInv, Detailed, DetailEffectDue, WidthInv, Roomy
  <2> QED BY <1>1, <1>2, <2>1, <2>2, <2>3 DEF DragInv
<1>7. ASSUME NEW w \in Windows, ResizeWindow(w) PROVE WidthInv' /\ RoomInv' /\ DragInv'
  <2>1. /\ screen' = [width |-> w, refitted |-> TRUE] /\ wide' = Fitted(w, Detailed, preferred)
        /\ preferred' = PreferredAfter(w, Detailed, preferred) /\ UNCHANGED <<collapsed, suppressed, dragging>>
    BY <1>7 DEF ResizeWindow
  <2>2. Detailed \in BOOLEAN
    BY DEF Detailed
  <2>3. WidthInv'
    BY <1>1, <2>1, <2>2, FittedTyped DEF WidthInv
  <2>4. screen'.refitted = TRUE /\ dragging' = dragging
    BY <2>1
  <2> QED BY <1>1, <1>2, <2>3, <2>4 DEF RoomInv, DragInv
<1>8. WidthInv' /\ RoomInv' /\ DragInv'
  BY <1>4, <1>5, <1>6, <1>7, DragKeeps DEF PanelUser
<1> QED BY <1>8, PanelUserView DEF ShellIInv

-----------------------------------------------------------------------------
(* The shell: the effects.                                                 *)

LEMMA ViewerEffectKeeps == ASSUME ShellIInv, ViewerEffect PROVE ShellIInv'
<1>1. ViewTypes /\ StackInv /\ RouteInv /\ ViewerEffectDue
  BY DEF ShellIInv, ViewerEffect
<1>2. /\ bridged' = [bridged EXCEPT !.viewing = viewing] /\ mainStack' = StackOfViewer
      /\ address' = IF viewing # Nil THEN DocumentPath(viewing) ELSE ReturnPath
      /\ UNCHANGED <<viewing, inspected, previewed, returnTo, here, opener, routed, backdrop, sizeVars, noticeVars>>
  BY DEF ViewerEffect, viewerVars
<1>3. /\ bridged' \in BridgeRecord /\ bridged'.viewing = viewing /\ bridged'.here = bridged.here
      /\ bridged'.detailed = bridged.detailed
  BY <1>1, <1>2 DEF ViewTypes, BridgeRecord
<1>4. address' \in Routes
  BY <1>1, <1>2, RouteKinds DEF ViewTypes, ReturnPath
<1>5. ViewTypes'
  BY <1>1, <1>2, <1>3, <1>4 DEF ViewTypes
<1>6. StackInv'
  BY <1>1, <1>2, <1>3, StackAfter DEF StackInv
<1>7. RouteInv'
  BY <1>1, <1>2, <1>3 DEF RouteInv, FolderEffectDue
<1>8. WidthInv' /\ RoomInv' /\ DragInv'
  BY <1>2, <1>3 DEF ShellIInv, WidthInv, RoomInv, DragInv, DetailEffectDue, Detailed, sizeVars, Roomy
<1> QED BY <1>2, <1>5, <1>6, <1>7, <1>8, BackdropRests, NoticesRest DEF ShellIInv

LEMMA FolderEffectKeeps == ASSUME ShellIInv, FolderEffect PROVE ShellIInv'
<1>1. ViewTypes /\ StackInv /\ RouteInv /\ ~ViewerEffectDue
  BY DEF ShellIInv, FolderEffect
<1>2. /\ bridged' = [bridged EXCEPT !.here = here] /\ address' = FolderPath(here)
      /\ UNCHANGED <<viewing, inspected, previewed, returnTo, here, opener, routed, mainStack, backdrop, sizeVars, noticeVars>>
  BY DEF FolderEffect, AddressOfFolder, viewerVars
<1>3. /\ bridged' \in BridgeRecord /\ bridged'.viewing = bridged.viewing /\ bridged'.here = here
      /\ bridged'.detailed = bridged.detailed
  BY <1>1, <1>2 DEF ViewTypes, BridgeRecord
<1>4. ViewTypes' /\ StackInv'
  BY <1>1, <1>2, <1>3, RouteKinds DEF ViewTypes, StackInv
<1>5. RouteInv'
  <2>1. address' = FolderPath(here')
    BY <1>2
  <2> QED BY <1>1, <1>2, <1>3, <2>1 DEF RouteInv, ViewerEffectDue
<1>6. WidthInv' /\ RoomInv' /\ DragInv'
  BY <1>2, <1>3 DEF ShellIInv, WidthInv, RoomInv, DragInv, DetailEffectDue, Detailed, sizeVars, Roomy
<1> QED BY <1>2, <1>4, <1>5, <1>6, BackdropRests, NoticesRest DEF ShellIInv

LEMMA RouteEffectKeeps == ASSUME ShellIInv, RouteEffect PROVE ShellIInv'
<1>1. ViewTypes /\ StackInv /\ Target \in Shelves
  BY TargetTyped DEF ShellIInv
<1>2. /\ routed' = Target /\ here' = Target
      /\ UNCHANGED <<viewing, inspected, previewed, returnTo, opener, address, bridged, mainStack, backdrop, sizeVars, noticeVars>>
  BY DEF RouteEffect, RouteTaken
<1>3. ViewTypes' /\ StackInv' /\ RouteInv'
  BY <1>1, <1>2 DEF ViewTypes, StackInv, RouteInv
<1>4. WidthInv' /\ RoomInv' /\ DragInv'
  BY <1>2 DEF ShellIInv, WidthInv, RoomInv, DragInv, DetailEffectDue, Detailed, sizeVars, Roomy
<1> QED BY <1>2, <1>3, <1>4, BackdropRests, NoticesRest DEF ShellIInv

\* The sidebar is told with the widths from before they are fitted: it knows of
\* the widths now unless fitting changed them.
LEMMA DetailEffectKeeps == ASSUME ShellIInv, DetailEffect PROVE ShellIInv'
<1>1. ViewTypes /\ StackInv /\ RouteInv /\ WidthInv
  BY DEF ShellIInv
<1>2. PICK w : w = screen.width
  OBVIOUS
<1>3. /\ bridged' = [bridged EXCEPT !.detailed = Detailed]
      /\ suppressed' = SuppressedBy(Detailed, wide)
      /\ wide' = Fitted(w, Detailed, preferred) /\ preferred' = PreferredAfter(w, Detailed, preferred)
      /\ dragging' = DragAfter(Detailed)
      /\ UNCHANGED <<viewing, inspected, previewed, returnTo, here, opener, address, routed, mainStack, backdrop, collapsed, noticeVars>>
  BY <1>2 DEF DetailEffect, viewerVars
<1>4. PICK z \in BOOLEAN : z = (Detailed /\ wide' # wide)
  OBVIOUS
<1>5. screen' = [screen EXCEPT !.refitted = z]
  BY <1>4 DEF DetailEffect
<1>6. screen' \in [width : Windows, refitted : BOOLEAN] /\ screen'.width = w /\ screen'.refitted = z
  BY <1>1, <1>2, <1>5 DEF WidthInv
<1>7. Detailed \in BOOLEAN /\ Detailed' = Detailed
  BY <1>3 DEF Detailed
<1>8. /\ bridged' \in BridgeRecord /\ bridged'.viewing = bridged.viewing /\ bridged'.here = bridged.here
      /\ bridged'.detailed = Detailed
  BY <1>1, <1>3, <1>7 DEF ViewTypes, BridgeRecord
<1>9. ViewTypes' /\ StackInv'
  BY <1>1, <1>3, <1>8 DEF ViewTypes, StackInv
<1>10. RouteInv'
  BY <1>1, <1>3, <1>8 DEF RouteInv, FolderEffectDue, ViewerEffectDue
<1>11. suppressed' \in BOOLEAN /\ (~collapsed => suppressed' = (Detailed /\ ~Roomy(w, wide)))
  BY <1>1, <1>2, <1>3, <1>7 DEF SuppressedBy, WidthInv
<1>12. WidthInv'
  BY <1>1, <1>2, <1>3, <1>6, <1>7, <1>11, FittedTyped DEF WidthInv, DragAfter
<1>13. RoomInv'
  <2> SUFFICES ASSUME ~collapsed', ~screen'.refitted PROVE suppressed' = (Detailed' /\ ~Roomy(w, wide'))
    BY <1>6 DEF RoomInv
  <2>1. ~collapsed /\ ~z
    BY <1>3, <1>6
  <2>2. CASE Detailed
    <3>1. wide' = wide
      BY <1>4, <2>1, <2>2
    <3> QED BY <1>7, <1>11, <2>1, <3>1
  <2>3. CASE ~Detailed
    BY <1>7, <1>11, <2>1, <2>3
  <2> QED BY <2>2, <2>3
<1>14. DragInv'
  BY <1>3, <1>8, ShellConstants DEF DragInv, DragAfter
<1> QED BY <1>3, <1>9, <1>10, <1>12, <1>13, <1>14, BackdropRests, NoticesRest DEF ShellIInv

LEMMA BackdropTimerKeeps == ASSUME ShellIInv, NEW t \in {"show", "hide"}, BackdropTimer(t) PROVE ShellIInv'
<1>1. UNCHANGED <<viewerVars, routeVars, sizeVars, noticeVars>>
  BY DEF BackdropTimer
<1>2. PICK T : T = backdrop.timers \ {t}
  OBVIOUS
<1>3. PICK v : v = ((t = "show") \/ backdrop.visible)
  OBVIOUS
<1>4. PICK d : d = ((t = "show") /\ backdrop.drawn)
  OBVIOUS
<1>5. backdrop' = [backdrop EXCEPT !.timers = T, !.visible = v, !.drawn = d] /\ t \in backdrop.timers
  BY <1>2, <1>3, <1>4 DEF BackdropTimer
<1>6. BackdropInv
  BY DEF ShellIInv
<1>7. /\ backdrop' \in [drawn : BOOLEAN, visible : BOOLEAN, timers : SUBSET {"show", "hide"}]
      /\ backdrop'.timers = T /\ backdrop'.visible = v /\ backdrop'.drawn = d
  BY <1>2, <1>3, <1>4, <1>5, <1>6 DEF BackdropInv
<1>8. BackdropInv'
  BY <1>1, <1>2, <1>3, <1>4, <1>5, <1>6, <1>7 DEF BackdropInv, viewerVars
<1>9. ViewTypes' /\ StackInv' /\ RouteInv'
  BY <1>1 DEF ShellIInv, ViewTypes, StackInv, RouteInv, FolderEffectDue, ViewerEffectDue, viewerVars, routeVars
<1>10. WidthInv' /\ RoomInv' /\ DragInv'
  BY <1>1 DEF ShellIInv, WidthInv, RoomInv, DragInv, DetailEffectDue, Detailed, viewerVars, routeVars, sizeVars, Roomy
<1> QED BY <1>1, <1>8, <1>9, <1>10, NoticesRest DEF ShellIInv

-----------------------------------------------------------------------------
(* The shell: the notices.                                                 *)

LEMMA ToastShown ==
    ASSUME ToastInv, ShowToast
    PROVE  ToastInv'
<1>1. PICK n : n = notices + 1
  OBVIOUS
<1>2. /\ notices \in 0..MaxNotices /\ notices < MaxNotices /\ MaxNotices \in Nat /\ MaxToasts \in Nat \ {0}
      /\ timers \subseteq 1..notices /\ toasts \in Seq(1..notices) /\ Len(toasts) <= MaxToasts
      /\ notices' = n /\ n \in 1..MaxNotices
  BY <1>1, ShellConstants DEF ToastInv, ShowToast
<1>3. PICK s : s = Append(toasts, n)
  OBVIOUS
<1>4. PICK m : m = Len(toasts)
  OBVIOUS
<1>5. /\ m \in Nat /\ s \in Seq(1..n) /\ Len(s) = m + 1 /\ s[m + 1] = n
      /\ \A i \in 1..m : s[i] = toasts[i] /\ s[i] \in 1..notices
      /\ \A i \in 1..(m + 1) : s[i] \in 1..n
  <2>1. \A i \in 1..m : toasts[i] \in 1..notices
    BY <1>2, <1>4
  <2>2. toasts \in Seq(1..n) /\ n \in 1..n
    BY <1>1, <1>2, <1>4, <2>1
  <2>3. /\ m \in Nat /\ s \in Seq(1..n) /\ Len(s) = m + 1 /\ s[m + 1] = n
        /\ \A i \in 1..m : s[i] = toasts[i]
    BY <1>3, <1>4, <2>2, AppendProperties
  <2>4. PICK S : S = 1..n
    OBVIOUS
  <2>5. s \in Seq(S)
    BY <2>3, <2>4
  <2>6. \A i \in 1..Len(s) : s[i] \in S
    BY <2>5
  <2>7. \A i \in 1..(m + 1) : s[i] \in 1..n
    BY <2>3, <2>4, <2>6
  <2> QED BY <2>1, <2>3, <2>7
<1>6. \A i, j \in 1..(m + 1) : i < j => s[i] < s[j]
  <2> SUFFICES ASSUME NEW i \in 1..(m + 1), NEW j \in 1..(m + 1), i < j PROVE s[i] < s[j]
    OBVIOUS
  <2>1. i \in 1..m
    BY <1>5
  <2>2. CASE j = m + 1
    BY <1>1, <1>2, <1>5, <2>1, <2>2
  <2>3. CASE j \in 1..m
    BY <1>4, <1>5, <2>1, <2>3 DEF ToastInv
  <2> QED BY <1>5, <2>2, <2>3
<1>7. /\ toasts' = IF Len(s) > MaxToasts THEN Tail(s) ELSE s
      /\ timers' = (IF Len(s) > MaxToasts THEN timers \ {s[1]} ELSE timers) \cup {s[Len(s)]}
  BY <1>1, <1>2, <1>3 DEF ShowToast, TimersAfter
<1>8. timers' \subseteq 1..n
  <2>1. timers' \subseteq timers \cup {n}
    BY <1>5, <1>7
  <2> QED BY <1>1, <1>2, <2>1
<1>9. CASE Len(s) > MaxToasts
  <2>1. PICK t : t = Tail(s)
    OBVIOUS
  <2>2. t \in Seq(1..n) /\ Len(t) = m /\ \A i \in 1..m : t[i] = s[i + 1]
    BY <1>5, <2>1, HeadTailProperties, EmptySeq
  <2>3. toasts' = t /\ timers' = (timers \ {s[1]}) \cup {n}
    BY <1>5, <1>7, <1>9, <2>1
  <2>4. ASSUME NEW i \in 1..m PROVE t[i] \in timers'
    <3>1. t[i] = s[i + 1] /\ s[i + 1] # s[1] /\ i + 1 \in 1..(m + 1)
      <4>1. i + 1 \in 1..(m + 1) /\ 1 \in 1..(m + 1) /\ 1 < i + 1 /\ t[i] = s[i + 1]
        BY <1>5, <2>2
      <4>2. s[1] < s[i + 1] /\ s[1] \in 1..n /\ s[i + 1] \in 1..n
        BY <1>5, <1>6, <4>1
      <4> QED BY <4>1, <4>2
    <3>2. CASE i + 1 = m + 1
      BY <1>5, <2>3, <3>1, <3>2
    <3>3. CASE i + 1 \in 1..m
      BY <1>4, <1>5, <2>3, <3>1, <3>3 DEF ToastInv
    <3> QED BY <1>5, <3>1, <3>2, <3>3
  <2>5. \A i, j \in 1..m : i < j => t[i] < t[j]
    BY <1>5, <1>6, <2>2
  <2> QED BY <1>2, <1>4, <1>5, <1>8, <2>2, <2>3, <2>4, <2>5 DEF ToastInv
<1>10. CASE ~(Len(s) > MaxToasts)
  <2>1. toasts' = s /\ timers' = timers \cup {n}
    BY <1>5, <1>7, <1>10
  <2>2. ASSUME NEW i \in 1..(m + 1) PROVE s[i] \in timers'
    <3>1. CASE i = m + 1
      BY <1>5, <2>1, <3>1
    <3>2. CASE i \in 1..m
      BY <1>4, <1>5, <2>1, <3>2 DEF ToastInv
    <3> QED BY <1>5, <3>1, <3>2
  <2> QED BY <1>2, <1>5, <1>6, <1>8, <1>10, <2>1, <2>2 DEF ToastInv
<1> QED BY <1>9, <1>10

LEMMA ToastRemoved == ASSUME ToastInv, NEW t \in 1..MaxNotices, RemoveToast(t) PROVE ToastInv'
<1>1. /\ notices \in 0..MaxNotices /\ timers \subseteq 1..notices /\ toasts \in Seq(1..notices) /\ Len(toasts) <= MaxToasts
      /\ notices' = notices /\ timers' = timers \ {t}
  BY DEF ToastInv, RemoveToast
<1>2. PICK s : s = Without(toasts, t)
  OBVIOUS
<1>3. toasts' = s
  BY <1>2 DEF RemoveToast
<1>4. Len(toasts) \in Nat /\ MaxToasts \in Nat /\ \A i \in 1..Len(toasts) : toasts[i] \in 1..notices
  <2>1. MaxToasts \in Nat
    BY ShellConstants
  <2>2. Len(toasts) \in Nat /\ \A i \in 1..Len(toasts) : toasts[i] \in 1..notices
    BY ONLY <1>1
  <2> QED BY <2>1, <2>2
<1>5. \A i, j \in 1..Len(toasts) : toasts[i] = t /\ toasts[j] = t => i = j
  <2> SUFFICES ASSUME NEW i \in 1..Len(toasts), NEW j \in 1..Len(toasts), toasts[i] = t, toasts[j] = t, i < j PROVE FALSE
    BY <1>4
  <2>1. toasts[i] < toasts[j]
    BY DEF ToastInv
  <2> QED BY <2>1
<1>20. PICK S : S = 1..notices
  OBVIOUS
<1>21. toasts \in Seq(S)
  BY <1>1, <1>20
<1>22. /\ s \in Seq(S) /\ Len(s) <= Len(toasts)
       /\ \A i \in 1..Len(s) : s[i] # t /\ \E m \in 1..Len(toasts) : s[i] = toasts[m] /\ i <= m
       /\ \A i, j \in 1..Len(s) : i < j => \E m, n \in 1..Len(toasts) : m < n /\ s[i] = toasts[m] /\ s[j] = toasts[n]
  <2>1. PICK q : q = toasts
    OBVIOUS
  <2>2. q \in Seq(S) /\ \A i, j \in 1..Len(q) : q[i] = t /\ q[j] = t => i = j
    BY <1>5, <1>21, <2>1
  <2>3. /\ Without(q, t) \in Seq(S) /\ Len(Without(q, t)) <= Len(q)
        /\ \A i \in 1..Len(Without(q, t)) :
             /\ Without(q, t)[i] # t
             /\ \E m \in 1..Len(q) : Without(q, t)[i] = q[m] /\ i <= m
        /\ \A i, j \in 1..Len(Without(q, t)) : i < j =>
             \E m, n \in 1..Len(q) : m < n /\ Without(q, t)[i] = q[m] /\ Without(q, t)[j] = q[n]
    BY <2>2, WithoutIt
  <2> QED BY <1>2, <2>1, <2>3
<1>6. /\ s \in Seq(1..notices) /\ Len(s) <= Len(toasts)
      /\ \A i \in 1..Len(s) : s[i] # t /\ \E m \in 1..Len(toasts) : s[i] = toasts[m]
      /\ \A i, j \in 1..Len(s) : i < j => \E m, n \in 1..Len(toasts) : m < n /\ s[i] = toasts[m] /\ s[j] = toasts[n]
  BY <1>20, <1>22
<1>7. Len(s) <= MaxToasts
  BY <1>1, <1>4, <1>6
<1>8. \A i \in 1..Len(s) : s[i] \in timers'
  BY <1>1, <1>6 DEF ToastInv
<1>9. \A i, j \in 1..Len(s) : i < j => s[i] < s[j]
  BY <1>6 DEF ToastInv
<1> QED BY <1>1, <1>3, <1>6, <1>7, <1>8, <1>9 DEF ToastInv

LEMMA ShellNoticesKeep == ASSUME ShellIInv, ShellNotices PROVE ShellIInv'
<1>1. ToastInv'
  BY ToastShown, ToastRemoved DEF ShellIInv, ShellNotices
<1>2. UNCHANGED <<viewerVars, routeVars, backdrop, sizeVars>>
  BY DEF ShellNotices, ShowToast, RemoveToast
<1>3. ViewTypes' /\ StackInv' /\ RouteInv'
  BY <1>2 DEF ShellIInv, ViewTypes, StackInv, RouteInv, FolderEffectDue, ViewerEffectDue, viewerVars, routeVars
<1>4. WidthInv' /\ RoomInv' /\ DragInv'
  BY <1>2 DEF ShellIInv, WidthInv, RoomInv, DragInv, DetailEffectDue, Detailed, viewerVars, routeVars, sizeVars, Roomy
<1>5. BackdropInv'
  BY <1>2, BackdropRests DEF viewerVars
<1> QED BY <1>1, <1>3, <1>4, <1>5 DEF ShellIInv

-----------------------------------------------------------------------------
(* The shell: the theorems.                                                *)

LEMMA ShellStarts == ShellInit => ShellIInv
<1> SUFFICES ASSUME ShellInit PROVE ShellIInv
  OBVIOUS
<1>1. /\ viewing \in Leaflets \cup {Nil} /\ here \in Shelves /\ address \in Routes
      /\ mainStack = IF viewing # Nil THEN <<"documents", "viewer">> ELSE <<"documents">>
  BY RouteKinds, ShellConstants DEF ShellInit
<1>2. /\ inspected = Nil /\ previewed = Nil /\ returnTo = NoRoute /\ routed = Nil /\ opener = FALSE
      /\ bridged = [viewing |-> viewing, here |-> here, detailed |-> FALSE]
      /\ backdrop = [drawn |-> FALSE, visible |-> FALSE, timers |-> {}]
      /\ suppressed = FALSE /\ dragging = Nil /\ collapsed \in BOOLEAN
      /\ toasts = <<>> /\ timers = {} /\ notices = 0
      /\ screen \in [width : Windows, refitted : {FALSE}]
  BY DEF ShellInit
<1>3. ViewTypes /\ StackInv /\ RouteInv
  BY <1>1, <1>2 DEF ViewTypes, StackInv, RouteInv, BridgeRecord
<1>4. BackdropInv /\ ToastInv
  <2>1. BackdropInv
    BY <1>2 DEF BackdropInv
  <2>2. toasts \in Seq(1..notices) /\ Len(toasts) = 0
    BY <1>2
  <2>3. MaxNotices \in Nat /\ MaxToasts \in Nat
    BY ShellConstants
  <2> QED BY <1>2, <2>1, <2>2, <2>3 DEF ToastInv
<1>5. WidthInv
  <2>1. screen.width \in Windows /\ screen \in [width : Windows, refitted : BOOLEAN] /\ Windows \subseteq Nat
    BY <1>2, ShellConstants
  <2>2. PICK side \in Asks, det \in Asks :
          LET stored == [sidebar |-> Clamped("sidebar", screen.width, side), detail |-> Clamped("detail", screen.width, det)] IN
          wide = Fitted(screen.width, FALSE, stored) /\ preferred = PreferredAfter(screen.width, FALSE, stored)
    BY DEF ShellInit
  <2>3. PICK x : x = Clamped("sidebar", screen.width, side)
    OBVIOUS
  <2>4. PICK y : y = Clamped("detail", screen.width, det)
    OBVIOUS
  <2>5. x \in 0..screen.width /\ y \in 0..screen.width
    BY <2>1, <2>3, <2>4, ClampedTyped, ShellConstants DEF PanelKeys
  <2>6. PICK stored : stored = [sidebar |-> x, detail |-> y]
    OBVIOUS
  <2>7. stored \in [PanelKeys -> Nat]
    BY <2>1, <2>5, <2>6 DEF PanelKeys
  <2>8. wide = Fitted(screen.width, FALSE, stored) /\ preferred = PreferredAfter(screen.width, FALSE, stored)
    BY <2>2, <2>3, <2>4, <2>6
  <2>9. wide \in [PanelKeys -> 0..screen.width] /\ preferred \in [PanelKeys -> Nat]
    BY <2>1, <2>7, <2>8, FittedTyped
  <2> QED BY <1>2, <2>1, <2>9 DEF WidthInv
<1>6. RoomInv /\ DragInv
  BY <1>2, ShellConstants DEF RoomInv, DragInv, Detailed
<1> QED BY <1>3, <1>4, <1>5, <1>6 DEF ShellIInv

LEMMA ShellStepInvariant == ShellIInv /\ [ShellNext]_shellVars => ShellIInv'
<1> SUFFICES ASSUME ShellIInv, [ShellNext]_shellVars PROVE ShellIInv'
  OBVIOUS
<1>1. CASE ShellEffects
  BY <1>1, ViewerEffectKeeps, FolderEffectKeeps, RouteEffectKeeps, DetailEffectKeeps, BackdropTimerKeeps DEF ShellEffects
<1>2. CASE ViewerUser
  BY <1>2, ViewerUserKeeps
<1>3. CASE PanelUser
  BY <1>3, PanelUserKeeps
<1>4. CASE ShellNotices
  BY <1>4, ShellNoticesKeep
<1>5. CASE UNCHANGED shellVars
  <2>1. UNCHANGED <<viewerVars, routeVars, backdrop, sizeVars, noticeVars>>
    BY <1>5 DEF shellVars
  <2>2. ViewTypes' /\ StackInv' /\ RouteInv'
    BY <2>1 DEF ShellIInv, ViewTypes, StackInv, RouteInv, FolderEffectDue, ViewerEffectDue, viewerVars, routeVars
  <2>3. WidthInv' /\ RoomInv' /\ DragInv'
    BY <2>1 DEF ShellIInv, WidthInv, RoomInv, DragInv, DetailEffectDue, Detailed, viewerVars, routeVars, sizeVars, Roomy
  <2>4. BackdropInv' /\ ToastInv'
    BY <2>1, BackdropRests, NoticesRest DEF viewerVars
  <2> QED BY <2>2, <2>3, <2>4 DEF ShellIInv
<1> QED BY <1>1, <1>2, <1>3, <1>4, <1>5 DEF ShellNext

LEMMA ShellInvariant == ShellSpec => []ShellIInv
<1>1. ShellIInv /\ [ShellNext]_shellVars => ShellIInv'
  BY ShellStepInvariant
<1> QED BY <1>1, ShellStarts, PTL DEF ShellSpec

LEMMA ShellIInvIsTyped == ShellIInv => ShellTypeOK
<1> SUFFICES ASSUME ShellIInv PROVE ShellTypeOK
  OBVIOUS
<1>1. /\ mainStack \in {<<"documents">>, <<"documents", "viewer">>}
      /\ timers \subseteq 1..MaxNotices
  <2>1. StackInv /\ notices \in 0..MaxNotices /\ timers \subseteq 1..notices /\ MaxNotices \in Nat
    BY ShellConstants DEF ShellIInv, ToastInv
  <2>2. timers \subseteq 1..MaxNotices
    BY <2>1
  <2> QED BY <2>1, <2>2 DEF StackInv
<1> QED BY <1>1 DEF ShellIInv, ViewTypes, BridgeRecord, BackdropInv, WidthInv, ToastInv, ShellTypeOK

\* The shape of the shell's state, and no panel is wider than the window.
THEOREM ShellTyped == ShellSpec => []ShellTypeOK
  BY ShellIInvIsTyped, ShellInvariant, PTL

LEMMA ShellIInvIsInStep == ShellIInv => ShellIsInStep
<1> SUFFICES ASSUME ShellIInv PROVE ShellIsInStep
  OBVIOUS
<1>1. StackFollowsViewer
  <2>1. ASSUME EffectsDone PROVE bridged.viewing = viewing
    BY <2>1 DEF EffectsDone, ViewerEffectDue
  <2>2. StackInv
    BY DEF ShellIInv
  <2>3. CASE mainStack = <<"documents">>
    <3>1. "viewer" \notin {mainStack[i] : i \in DOMAIN mainStack}
      BY <2>3
    <3>2. bridged.viewing = Nil
      <4>1. Len(mainStack) = 1 /\ Len(<<"documents", "viewer">>) = 2
        BY <2>3
      <4> QED BY <2>2, <4>1 DEF StackInv
    <3> QED BY <2>1, <3>1, <3>2 DEF StackFollowsViewer
  <2>4. CASE mainStack = <<"documents", "viewer">>
    <3>1. 2 \in DOMAIN mainStack /\ mainStack[2] = "viewer" /\ Len(mainStack) = 2 /\ Len(<<"documents">>) = 1
      BY <2>4
    <3>2. bridged.viewing # Nil
      BY <2>2, <3>1 DEF StackInv
    <3> QED BY <2>1, <3>1, <3>2 DEF StackFollowsViewer
  <2> QED BY <2>2, <2>3, <2>4 DEF StackInv
<1>2. AddressIsOfFolder
  <2> SUFFICES ASSUME EffectsDone, address.kind = "folder" PROVE address.id = here
    BY DEF AddressIsOfFolder
  <2>1. ViewTypes /\ RouteInv /\ ~FolderEffectDue /\ ~RouteEffectDue
    BY DEF ShellIInv, EffectsDone
  <2>2. address.id = routed /\ address.id \in Shelves
    BY <2>1, RouteKinds DEF RouteEffectDue, Target, ViewTypes
  <2>3. CASE address = FolderPath(here)
    BY <2>1, <2>3, RouteKinds DEF ViewTypes
  <2> QED BY <2>1, <2>2, <2>3, ShellConstants DEF RouteInv
<1>3. BackdropFollows
  BY DEF ShellIInv, BackdropInv, BackdropFollows
<1>4. SidebarGivesWay
  BY DEF ShellIInv, RoomInv, EffectsDone, SidebarGivesWay
<1>5. DraggedIsShown
  BY DEF ShellIInv, DragInv, EffectsDone, DetailEffectDue, DraggedIsShown
<1>6. ToastsAreTimed
  BY DEF ShellIInv, ToastInv, ToastsAreTimed
<1> QED BY <1>1, <1>2, <1>3, <1>4, <1>5, <1>6 DEF ShellIsInStep

\* Once the effects have run, stack, address, overlay, sidebar and drag are those
\* of what is viewed, selected, previewed and inspected; and every notice on
\* display has its timer.
THEOREM ShellFollows == ShellSpec => []ShellIsInStep
  BY ShellIInvIsInStep, ShellInvariant, PTL

-----------------------------------------------------------------------------
(* The selection: what a filter leaves of a sequence.                      *)

\* How many of the positions I are not after i.
Place(I, i) == Cardinality({j \in I : j <= i})

LEMMA PlacesFinite ==
    ASSUME NEW n \in Nat, NEW I \in SUBSET (1..n)
    PROVE  IsFiniteSet(I) /\ Cardinality(I) \in 0..n
<1>1. IsFiniteSet(1..n) /\ Cardinality(1..n) = n
  BY FS_Interval
<1>2. IsFiniteSet(I) /\ Cardinality(I) <= n
  BY <1>1, FS_Subset
<1> QED BY <1>2, FS_CardinalityType

\* The places of the positions are 1, 2, 3 and so on.
LEMMA Places ==
    ASSUME NEW n \in Nat, NEW I \in SUBSET (1..n)
    PROVE  /\ \A i \in I : Place(I, i) \in 1..Cardinality(I)
           /\ \A i, j \in I : i < j => Place(I, i) < Place(I, j)
           /\ \A k \in 1..Cardinality(I) : \E i \in I : Place(I, i) = k
<1>1. IsFiniteSet(I) /\ Cardinality(I) \in Nat /\ I \subseteq Int
  BY PlacesFinite
<1>2. ASSUME NEW i \in I PROVE Place(I, i) \in 1..Cardinality(I)
  <2>1. PICK S : S = {j \in I : j <= i}
    OBVIOUS
  <2>2. S \in SUBSET I /\ i \in S
    BY <1>1, <2>1
  <2>3. IsFiniteSet(S) /\ Cardinality(S) <= Cardinality(I) /\ Cardinality(S) \in Nat
    BY <1>1, <2>2, FS_Subset, FS_CardinalityType
  <2>4. Cardinality(S) # 0
    BY <2>2, <2>3, FS_EmptySet
  <2> QED BY <1>1, <2>1, <2>3, <2>4 DEF Place
<1>3. ASSUME NEW i \in I, NEW j \in I, i < j PROVE Place(I, i) < Place(I, j)
  <2>1. PICK S : S = {k \in I : k <= i}
    OBVIOUS
  <2>2. PICK T : T = {k \in I : k <= j}
    OBVIOUS
  <2>3. S \in SUBSET T /\ j \in T /\ j \notin S /\ T \in SUBSET I
    <3>1. i \in Int /\ j \in Int /\ \A k \in I : k \in Int
      BY <1>1
    <3>2. \A k \in I : k <= i => k <= j
      BY <1>3, <3>1
    <3>3. ~(j <= i) /\ j <= j
      BY <1>3, <3>1
    <3> QED BY <2>1, <2>2, <3>2, <3>3
  <2>4. IsFiniteSet(T) /\ Cardinality(T) \in Nat
    BY <1>1, <2>3, FS_Subset, FS_CardinalityType
  <2>5. Cardinality(S) <= Cardinality(T) /\ Cardinality(S) # Cardinality(T) /\ Cardinality(S) \in Nat
    BY <2>3, <2>4, FS_Subset, FS_CardinalityType
  <2> QED BY <2>1, <2>2, <2>4, <2>5 DEF Place
<1>4. \A k \in 1..Cardinality(I) : \E i \in I : Place(I, i) = k
  <2>1. PICK f : f = [i \in I |-> Place(I, i)]
    OBVIOUS
  <2>2. \A i, j \in I : f[i] = f[j] => i = j
    <3>1. SUFFICES ASSUME NEW i \in I, NEW j \in I, f[i] = f[j], i # j PROVE FALSE
      OBVIOUS
    <3>2. i < j \/ j < i
      BY <1>1, <3>1
    <3>3. f[i] \in Int /\ f[j] \in Int
      BY <1>2, <2>1
    <3> QED BY <1>3, <2>1, <3>1, <3>2, <3>3
  <2>3. f \in Injection(I, 1..Cardinality(I))
    BY <1>2, <2>1, <2>2 DEF Injection, IsInjective
  <2>4. IsFiniteSet(1..Cardinality(I)) /\ Cardinality(1..Cardinality(I)) = Cardinality(I)
    BY <1>1, FS_Interval
  <2>5. f \in Surjection(I, 1..Cardinality(I))
    BY <2>3, <2>4, FS_Injection
  <2> QED BY <2>1, <2>5 DEF Surjection
<1> QED BY <1>2, <1>3, <1>4

\* What is kept are the entries at the positions, one for each, in their order.
LEMMA KeptFacts ==
    ASSUME NEW E, NEW s \in Seq(E), NEW I \in SUBSET DOMAIN s
    PROVE  /\ Kept(s, I) \in Seq(E) /\ Len(Kept(s, I)) <= Len(s)
           /\ \E g \in [DOMAIN Kept(s, I) -> I] :
                 /\ \A m \in DOMAIN Kept(s, I) : Kept(s, I)[m] = s[g[m]]
                 /\ \A m, k \in DOMAIN Kept(s, I) : m < k => g[m] < g[k]
                 /\ \A i \in I : \E m \in DOMAIN Kept(s, I) : g[m] = i
<1>1. Len(s) \in Nat /\ DOMAIN s = 1..Len(s) /\ I \in SUBSET (1..Len(s)) /\ I \subseteq Int
  BY LenProperties
<1>2. PICK n : n = Cardinality(I)
  OBVIOUS
<1>3. n \in 0..Len(s) /\ n \in Nat
  BY <1>1, <1>2, PlacesFinite
<1>4. /\ \A i \in I : Place(I, i) \in 1..n
      /\ \A i, j \in I : i < j => Place(I, i) < Place(I, j)
      /\ \A k \in 1..n : \E i \in I : Place(I, i) = k
  BY <1>1, <1>2, Places
<1>5. PICK g : g = [m \in 1..n |-> CHOOSE i \in I : Place(I, i) = m]
  OBVIOUS
<1>6. \A m \in 1..n : g[m] \in I /\ Place(I, g[m]) = m
  BY <1>4, <1>5
<1>7. \A m, k \in 1..n : m < k => g[m] < g[k]
  <2>1. SUFFICES ASSUME NEW m \in 1..n, NEW k \in 1..n, m < k, ~(g[m] < g[k]) PROVE FALSE
    OBVIOUS
  <2>2. PICK i \in I, j \in I : i = g[m] /\ j = g[k]
    BY <1>6
  <2>3. i = j \/ j < i
    BY <1>1, <2>1, <2>2
  <2>4. Place(I, i) = m /\ Place(I, j) = k /\ Place(I, i) \in Int
    BY <1>6, <2>2
  <2> QED BY <1>3, <1>4, <2>1, <2>3, <2>4
<1>8. \A i \in I : \E m \in 1..n : g[m] = i
  <2>1. SUFFICES ASSUME NEW i \in I, NEW m \in 1..n, m = Place(I, i) PROVE g[m] = i
    BY <1>4
  <2>2. PICK j \in I : j = g[m] /\ Place(I, j) = m
    BY <1>6
  <2>3. i < j \/ j < i \/ i = j
    BY <1>1
  <2>4. Place(I, i) \in Int /\ Place(I, j) \in Int
    BY <1>4
  <2> QED BY <1>4, <2>1, <2>2, <2>3, <2>4
<1>9. PICK t : t = Kept(s, I)
  OBVIOUS
<1>10. t = [m \in 1..n |-> s[g[m]]]
  <2>1. t = [m \in 1..n |-> s[CHOOSE i \in I : Place(I, i) = m]]
    BY <1>2, <1>9 DEF Kept, Place
  <2> QED BY <1>5, <2>1
<1>11. t \in Seq(E) /\ Len(t) = n /\ DOMAIN t = 1..n
  <2>1. \A m \in 1..n : s[g[m]] \in E
    BY <1>1, <1>6, LenProperties
  <2> QED BY <1>3, <1>10, <2>1
<1>12. g \in [DOMAIN t -> I]
  BY <1>5, <1>6, <1>11
<1>13. Len(t) <= Len(s)
  BY <1>3, <1>1, <1>11
<1>14. /\ \A m \in DOMAIN t : t[m] = s[g[m]]
       /\ \A m, k \in DOMAIN t : m < k => g[m] < g[k]
       /\ \A i \in I : \E m \in DOMAIN t : g[m] = i
  BY <1>7, <1>8, <1>10, <1>11
<1> QED BY ONLY <1>9, <1>11, <1>12, <1>13, <1>14

\* A filter keeps the entries it is asked for, no two of the same if there were
\* none, and folders before documents.
LEMMA AmongFacts ==
    ASSUME NEW E, NEW s \in Seq(E), NEW S
    PROVE  /\ Among(s, S) \in Seq(E) /\ Len(Among(s, S)) <= Len(s)
           /\ Range(Among(s, S)) = Range(s) \cap S
           /\ IsInjective(s) => IsInjective(Among(s, S))
           /\ FoldersFirst(s) => FoldersFirst(Among(s, S))
<1>1. PICK I : I = {i \in DOMAIN s : s[i] \in S}
  OBVIOUS
<1>2. PICK t : t = Among(s, S)
  OBVIOUS
<1>3. t = Kept(s, I) /\ I \in SUBSET DOMAIN s
  BY <1>1, <1>2 DEF Among
<1>4. t \in Seq(E) /\ Len(t) <= Len(s)
  BY <1>3, KeptFacts
<1>5. PICK g \in [DOMAIN t -> I] :
        /\ \A m \in DOMAIN t : t[m] = s[g[m]]
        /\ \A m, k \in DOMAIN t : m < k => g[m] < g[k]
        /\ \A i \in I : \E m \in DOMAIN t : g[m] = i
  BY <1>3, KeptFacts
<1>6. \A m \in DOMAIN t : g[m] \in DOMAIN s /\ s[g[m]] \in S
  BY <1>1, <1>5
<1>7. Range(t) = Range(s) \cap S
  <2>1. Range(t) \subseteq Range(s) \cap S
    BY <1>5, <1>6 DEF Range
  <2>2. Range(s) \cap S \subseteq Range(t)
    BY <1>1, <1>5 DEF Range
  <2> QED BY <2>1, <2>2
<1>8. DOMAIN t \subseteq Int /\ DOMAIN s \subseteq Int
  BY <1>4, LenProperties
<1>9. \A m, k \in DOMAIN t : g[m] = g[k] => m = k
  <2>1. SUFFICES ASSUME NEW m \in DOMAIN t, NEW k \in DOMAIN t, g[m] = g[k], m # k PROVE FALSE
    OBVIOUS
  <2>2. m < k \/ k < m
    BY <1>8, <2>1
  <2>3. g[m] \in Int /\ g[k] \in Int
    BY <1>6, <1>8
  <2> QED BY <1>5, <2>1, <2>2, <2>3
<1>10. IsInjective(s) => IsInjective(t)
  BY <1>5, <1>6, <1>9 DEF IsInjective
<1>11. FoldersFirst(s) => FoldersFirst(t)
  BY <1>5, <1>6 DEF FoldersFirst
<1> QED BY <1>2, <1>4, <1>7, <1>10, <1>11

LEMMA DedupedFacts ==
    ASSUME NEW E, NEW s \in Seq(E)
    PROVE  /\ Deduped(s) \in Seq(E)
           /\ Range(Deduped(s)) = Range(s)
           /\ IsInjective(Deduped(s))
<1>1. PICK I : I = {i \in DOMAIN s : \A j \in 1..(i - 1) : s[j] # s[i]}
  OBVIOUS
<1>2. PICK t : t = Deduped(s)
  OBVIOUS
<1>3. t = Kept(s, I) /\ I \in SUBSET DOMAIN s
  BY <1>1, <1>2 DEF Deduped
<1>4. t \in Seq(E)
  BY <1>3, KeptFacts
<1>5. PICK g \in [DOMAIN t -> I] :
        /\ \A m \in DOMAIN t : t[m] = s[g[m]]
        /\ \A m, k \in DOMAIN t : m < k => g[m] < g[k]
        /\ \A i \in I : \E m \in DOMAIN t : g[m] = i
  BY <1>3, KeptFacts
<1>6. DOMAIN t \subseteq Int /\ DOMAIN s = 1..Len(s) /\ Len(s) \in Nat
  BY <1>4, LenProperties
<1>7. \A i \in DOMAIN s : \E j \in I : s[j] = s[i]
  <2>1. SUFFICES ASSUME NEW i \in DOMAIN s PROVE \E j \in I : s[j] = s[i]
    OBVIOUS
  <2>2. PICK T : T = {j \in DOMAIN s : s[j] = s[i]}
    OBVIOUS
  <2>3. T \in SUBSET Nat /\ i \in T
    BY <1>6, <2>1, <2>2
  <2>4. PICK x \in T : \A y \in T : x <= y
    BY <2>3, LeastExists
  <2>5. x \in DOMAIN s /\ s[x] = s[i] /\ x \in 1..Len(s)
    BY <1>6, <2>2, <2>4
  <2>6. \A j \in 1..(x - 1) : s[j] # s[x]
    <3>1. SUFFICES ASSUME NEW j \in 1..(x - 1), s[j] = s[x] PROVE FALSE
      OBVIOUS
    <3>2. j \in DOMAIN s /\ ~(x <= j)
      BY <1>6, <2>5, <3>1
    <3>3. j \in T
      BY <2>2, <2>5, <3>1, <3>2
    <3> QED BY <2>4, <3>2, <3>3
  <2> QED BY <1>1, <2>5, <2>6
<1>8. Range(t) = Range(s)
  <2>1. Range(t) \subseteq Range(s)
    BY <1>3, <1>5 DEF Range
  <2>2. Range(s) \subseteq Range(t)
    BY <1>5, <1>7 DEF Range
  <2> QED BY <2>1, <2>2
<1>9. IsInjective(t)
  <2>1. \A m, k \in DOMAIN t : m < k => t[m] # t[k]
    <3>1. SUFFICES ASSUME NEW m \in DOMAIN t, NEW k \in DOMAIN t, m < k, t[m] = t[k] PROVE FALSE
      OBVIOUS
    <3>2. PICK i \in I, j \in I : i = g[m] /\ j = g[k] /\ i < j /\ s[i] = s[j]
      BY <1>5, <3>1
    <3>3. i \in 1..(j - 1)
      BY <1>3, <1>6, <3>2
    <3> QED BY <1>1, <3>2, <3>3
  <2>2. \A m, k \in DOMAIN t : m = k \/ m < k \/ k < m
    BY <1>6
  <2> QED BY <2>1, <2>2 DEF IsInjective
<1> QED BY <1>2, <1>4, <1>8, <1>9

\* Two sequences that share nothing, put together.
LEMMA TogetherFacts ==
    ASSUME NEW E, NEW s \in Seq(E), NEW t \in Seq(E)
    PROVE  /\ s \o t \in Seq(E)
           /\ Range(s \o t) = Range(s) \cup Range(t)
           /\ IsInjective(s) /\ IsInjective(t) /\ Range(s) \cap Range(t) = {} => IsInjective(s \o t)
<1>1. PICK u : u = s \o t
  OBVIOUS
<1>2. /\ u \in Seq(E) /\ Len(u) = Len(s) + Len(t) /\ DOMAIN u = 1..(Len(s) + Len(t))
      /\ \A i \in 1..(Len(s) + Len(t)) : u[i] = IF i <= Len(s) THEN s[i] ELSE t[i - Len(s)]
  BY <1>1, ConcatProperties, LenProperties
<1>3. Len(s) \in Nat /\ DOMAIN s = 1..Len(s) /\ Len(t) \in Nat /\ DOMAIN t = 1..Len(t)
  BY LenProperties
<1>4. Range(u) = Range(s) \cup Range(t)
  BY <1>1, RangeConcatenation
<1>5. ASSUME IsInjective(s), IsInjective(t), Range(s) \cap Range(t) = {} PROVE IsInjective(u)
  <2>1. SUFFICES ASSUME NEW i \in DOMAIN u, NEW j \in DOMAIN u, u[i] = u[j] PROVE i = j
    BY DEF IsInjective
  <2>2. i \in Int /\ j \in Int
    BY <1>2, <1>3
  <2>3. ASSUME NEW k \in DOMAIN u, k <= Len(s) PROVE k \in DOMAIN s /\ u[k] = s[k] /\ u[k] \in Range(s)
    BY <1>2, <1>3, <2>3 DEF Range
  <2>4. ASSUME NEW k \in DOMAIN u, ~(k <= Len(s))
        PROVE  k - Len(s) \in DOMAIN t /\ u[k] = t[k - Len(s)] /\ u[k] \in Range(t)
    <3>1. k - Len(s) \in DOMAIN t /\ u[k] = t[k - Len(s)]
      BY <1>2, <1>3, <2>4
    <3> QED BY <3>1 DEF Range
  <2>5. CASE i <= Len(s) /\ j <= Len(s)
    BY <1>5, <2>1, <2>3, <2>5 DEF IsInjective
  <2>6. CASE ~(i <= Len(s)) /\ ~(j <= Len(s))
    <3>1. i - Len(s) = j - Len(s)
      BY <1>5, <2>1, <2>4, <2>6 DEF IsInjective
    <3> QED BY <1>3, <2>2, <3>1
  <2>7. ASSUME NEW k \in DOMAIN u, NEW l \in DOMAIN u, k <= Len(s), ~(l <= Len(s)) PROVE u[k] # u[l]
    BY <1>5, <2>3, <2>4, <2>7
  <2> QED BY <2>1, <2>5, <2>6, <2>7
<1> QED BY <1>1, <1>2, <1>4, <1>5

-----------------------------------------------------------------------------
(* The selection: the invariant.                                           *)

\* Lists that may be on the screen; in a search's results there is no folder.
ListsOK ==
  /\ shelf \in Listings /\ found \in Listings \cup {Unsearched}
  /\ Searching => Range(found) \cap Binders = {}

\* What is picked is in the order of picking, and nothing twice.
PickedOK(p, o) ==
  /\ p \in Seq(Entries) /\ IsInjective(p)
  /\ o \in Seq(Entries) /\ IsInjective(o)
  /\ Range(p) \subseteq Range(o)

SelectionTypes ==
  /\ ListsOK /\ PickedOK(picked, order)
  /\ focusDoc \in Sheets \cup {NoKey} /\ lastDoc \in Sheets \cup {NoKey} /\ activeDoc \in Sheets \cup {NoKey}
  /\ anchor \in Entries \cup {NoKey} /\ focusKey \in Entries \cup {NoKey}
  /\ synced \in BOOLEAN /\ cleared \in BOOLEAN
  /\ carried.docs \subseteq Sheets /\ carried.folders \subseteq Binders /\ moving.ids \subseteq Sheets
  /\ picks \in 0..MaxPicks /\ lists \in 0..MaxLists

\* The selection was cleared once the search was seen, and since then only
\* what the search found was picked.
SearchIsClean ==
  /\ ~synced => ~cleared
  /\ Searching /\ synced => Range(picked) \subseteq Sheets

SelectionIInv == SelectionTypes /\ SearchIsClean

LEMMA ListingFacts ==
    ASSUME NEW s
    PROVE  s \in Listings <=> s \in Seq(Entries) /\ Len(s) <= MaxRows /\ IsInjective(s) /\ FoldersFirst(s)
<1>1. ASSUME s \in Seq(Entries) PROVE Len(s) \in Nat /\ s \in [1..Len(s) -> Entries]
  BY <1>1, LenProperties
<1>2. ASSUME NEW n \in 0..MaxRows, s \in [1..n -> Entries] PROVE s \in Seq(Entries) /\ Len(s) = n /\ n <= MaxRows
  BY <1>2, SelectionConstants
<1>3. s \in UNION {[1..n -> Entries] : n \in 0..MaxRows} <=> s \in Seq(Entries) /\ Len(s) <= MaxRows
  BY <1>1, <1>2, SelectionConstants
<1> QED BY <1>3 DEF Listings

LEMMA RowsFacts ==
    ASSUME ListsOK
    PROVE  /\ Rows \in Seq(Entries) /\ Range(Rows) \subseteq Entries
           /\ Searching => Range(Rows) \subseteq Sheets
<1>1. Rows \in Listings
  BY DEF ListsOK, Rows, Searching
<1>2. Rows \in Seq(Entries)
  BY <1>1, ListingFacts
<1>3. Range(Rows) \subseteq Entries
  BY <1>2, RangeOfSeq
<1> QED BY <1>2, <1>3 DEF ListsOK, Rows, Entries

LEMMA EndsFacts ==
    ASSUME NEW E, NEW t \in Seq(E)
    PROVE  /\ LastOf(t) \in Range(t) \cup {NoKey} /\ FirstOf(t) \in Range(t) \cup {NoKey}
           /\ Range(t) \subseteq E
<1>1. Len(t) \in Nat /\ DOMAIN t = 1..Len(t) /\ Range(t) \subseteq E
  BY LenProperties, RangeOfSeq
<1>2. CASE t = <<>>
  BY <1>1, <1>2 DEF LastOf, FirstOf
<1>3. CASE t # <<>>
  <2>1. Len(t) \in 1..Len(t) /\ 1 \in 1..Len(t)
    BY <1>1, <1>3, EmptySeq
  <2> QED BY <1>1, <1>3, <2>1 DEF LastOf, FirstOf, Range
<1> QED BY <1>2, <1>3

LEMMA OneFacts ==
    ASSUME NEW k \in Entries
    PROVE  <<k>> \in Seq(Entries) /\ Range(<<k>>) = {k}
<1>1. <<k>> \in Seq(Entries) /\ Len(<<k>>) = 1 /\ <<k>>[1] = k /\ DOMAIN <<k>> = 1..1
  OBVIOUS
<1> QED BY <1>1 DEF Range

LEMMA NoneFacts == <<>> \in Seq(Entries) /\ Range(<<>>) = {} /\ IsInjective(<<>>) /\ Len(<<>>) = 0
BY DEF Range, IsInjective

\* updateSelectionOrder leaves the picked keys in order, none of them twice.
LEMMA OrderedFacts ==
    ASSUME NEW keys \in Seq(Entries), IsInjective(keys), NEW touched \in Seq(Entries),
           order \in Seq(Entries), IsInjective(order)
    PROVE  PickedOK(keys, Ordered(keys, touched))
<1>1. PICK a : a = Among(order, Range(keys) \ Range(touched))
  OBVIOUS
<1>2. PICK u : u = Deduped(touched)
  OBVIOUS
<1>3. u \in Seq(Entries) /\ Range(u) = Range(touched) /\ IsInjective(u)
  BY <1>2, DedupedFacts
<1>4. PICK b : b = Among(u, Range(keys))
  OBVIOUS
<1>5. a \in Seq(Entries) /\ IsInjective(a) /\ Range(a) = Range(order) \cap (Range(keys) \ Range(touched))
  BY <1>1, AmongFacts
<1>6. b \in Seq(Entries) /\ IsInjective(b) /\ Range(b) = Range(touched) \cap Range(keys)
  BY <1>3, <1>4, AmongFacts
<1>7. PICK before : before = a \o b
  OBVIOUS
<1>8. before \in Seq(Entries) /\ IsInjective(before)
  BY <1>5, <1>6, <1>7, TogetherFacts
<1>9. PICK c : c = Among(keys, Range(keys) \ Range(before))
  OBVIOUS
<1>10. c \in Seq(Entries) /\ IsInjective(c) /\ Range(c) = Range(keys) \ Range(before)
  BY <1>9, AmongFacts
<1>11. PICK o : o = before \o c
  OBVIOUS
<1>12. o \in Seq(Entries) /\ IsInjective(o) /\ Range(o) = Range(before) \cup Range(c)
  BY <1>8, <1>10, <1>11, TogetherFacts
<1>13. Ordered(keys, touched) = o
  BY <1>1, <1>2, <1>4, <1>7, <1>9, <1>11 DEF Ordered
<1> QED BY <1>10, <1>12, <1>13 DEF PickedOK

LEMMA OnTheListFacts ==
    ASSUME ListsOK, NEW keys \in Seq(Entries)
    PROVE  /\ OnTheList(keys) \in Seq(Entries) /\ IsInjective(OnTheList(keys))
           /\ Range(OnTheList(keys)) = Range(keys) \cap Range(Rows)
<1>1. PICK u : u = Deduped(keys)
  OBVIOUS
<1>2. u \in Seq(Entries) /\ Range(u) = Range(keys) /\ IsInjective(u)
  BY <1>1, DedupedFacts
<1>3. OnTheList(keys) = Among(u, Range(Rows))
  BY <1>1 DEF OnTheList
<1> QED BY <1>2, <1>3, AmongFacts

\* applySelection picks of the keys those on the list.
LEMMA ApplyFacts ==
    ASSUME SelectionTypes, NEW keys \in Seq(Entries), NEW touched \in Seq(Entries), NEW at,
           Apply(keys, at, touched)
    PROVE  /\ PickedOK(picked', order')
           /\ Range(picked') = Range(keys) \cap Range(Rows)
           /\ focusDoc' \in Sheets \cup {NoKey} /\ anchor' \in Entries \cup {NoKey}
           /\ at \in Range(picked') => anchor' = at
<1>1. PICK unique : unique = OnTheList(keys)
  OBVIOUS
<1>2. /\ unique \in Seq(Entries) /\ IsInjective(unique)
      /\ Range(unique) = Range(keys) \cap Range(Rows) /\ Range(unique) \subseteq Entries
  BY <1>1, OnTheListFacts, RangeOfSeq DEF SelectionTypes
<1>3. PICK mark : mark = IF at \in Range(unique) THEN at ELSE NoKey
  OBVIOUS
<1>4. /\ picked' = unique /\ order' = Ordered(unique, touched)
      /\ focusDoc' = IF focusDoc \in Range(unique) THEN focusDoc
                     ELSE IF mark \in Sheets THEN mark ELSE LastOf(Among(unique, Sheets))
      /\ anchor' = IF mark # NoKey THEN mark
                   ELSE IF anchor \in Range(unique) THEN anchor ELSE LastOf(unique)
  BY <1>1, <1>3 DEF Apply
<1>5. PickedOK(picked', order')
  BY <1>2, <1>4, OrderedFacts DEF SelectionTypes, PickedOK
<1>6. LastOf(unique) \in Entries \cup {NoKey}
  BY <1>2, EndsFacts
<1>7. LastOf(Among(unique, Sheets)) \in Sheets \cup {NoKey}
  <2>1. PICK t : t = Among(unique, Sheets)
    OBVIOUS
  <2>2. t \in Seq(Entries) /\ Range(t) \subseteq Sheets
    BY <1>2, <2>1, AmongFacts
  <2> QED BY <2>1, <2>2, EndsFacts
<1>8. focusDoc' \in Sheets \cup {NoKey}
  BY <1>4, <1>7 DEF SelectionTypes
<1>9. anchor' \in Entries \cup {NoKey}
  BY <1>2, <1>3, <1>4, <1>6
<1>10. at \in Range(picked') => anchor' = at
  BY <1>2, <1>3, <1>4, SelectionConstants DEF Entries
<1> QED BY <1>2, <1>4, <1>5, <1>8, <1>9, <1>10

\* Every choice picks of what is on the list.
NewPick ==
  /\ PickedOK(picked', order') /\ Range(picked') \subseteq Range(Rows)
  /\ focusDoc' \in Sheets \cup {NoKey} /\ anchor' \in Entries \cup {NoKey}

LEMMA RowOfFacts ==
    ASSUME ListsOK, NEW k \in Range(Rows)
    PROVE  RowOf(k) \in 1..Len(Rows) /\ Rows[RowOf(k)] = k /\ Len(Rows) \in Nat /\ k \in Entries
<1>1. Rows \in Seq(Entries) /\ Range(Rows) \subseteq Entries
  BY RowsFacts
<1>2. DOMAIN Rows = 1..Len(Rows) /\ Len(Rows) \in Nat
  BY <1>1, LenProperties
<1>3. \E i \in DOMAIN Rows : Rows[i] = k
  BY DEF Range
<1> QED BY <1>1, <1>2, <1>3 DEF RowOf

LEMMA SpanFacts ==
    ASSUME ListsOK, NEW a \in Range(Rows), NEW b \in Range(Rows)
    PROVE  Span(a, b) \in Seq(Entries) /\ {a, b} \subseteq Range(Span(a, b))
<1>1. PICK i : i = RowOf(a)
  OBVIOUS
<1>2. PICK j : j = RowOf(b)
  OBVIOUS
<1>3. i \in 1..Len(Rows) /\ j \in 1..Len(Rows) /\ Rows[i] = a /\ Rows[j] = b /\ Len(Rows) \in Nat
  BY <1>1, <1>2, RowOfFacts
<1>4. Rows \in Seq(Entries)
  BY RowsFacts
<1>5. ASSUME NEW m \in 1..Len(Rows), NEW n \in 1..Len(Rows), m <= n
      PROVE  SubSeq(Rows, m, n) \in Seq(Entries) /\ {Rows[m], Rows[n]} \subseteq Range(SubSeq(Rows, m, n))
  <2>1. PICK t : t = SubSeq(Rows, m, n)
    OBVIOUS
  <2>2. \A h \in m..n : Rows[h] \in Entries
    BY <1>3, <1>4, <1>5, ElementOfSeq
  <2>3. m \in Int /\ n \in Int
    BY <1>3
  <2>4. t \in Seq(Entries) /\ Len(t) = n - m + 1 /\ \A h \in 1..(n - m + 1) : t[h] = Rows[m + h - 1]
    BY <1>5, <2>1, <2>2, <2>3, SubSeqProperties
  <2>5. DOMAIN t = 1..(n - m + 1)
    BY <2>4, LenProperties
  <2>6. 1 \in DOMAIN t /\ t[1] = Rows[m]
    BY <1>5, <2>3, <2>4, <2>5
  <2>7. n - m + 1 \in DOMAIN t /\ t[n - m + 1] = Rows[n]
    BY <1>5, <2>3, <2>4, <2>5
  <2> QED BY <2>1, <2>4, <2>6, <2>7 DEF Range
<1>6. CASE i <= j
  <2>1. Span(a, b) = SubSeq(Rows, i, j)
    BY <1>1, <1>2, <1>6 DEF Span
  <2> QED BY <1>3, <1>5, <1>6, <2>1
<1>7. CASE ~(i <= j)
  <2>1. Span(a, b) = SubSeq(Rows, j, i) /\ j <= i
    BY <1>1, <1>2, <1>3, <1>7 DEF Span
  <2> QED BY <1>3, <1>5, <2>1
<1> QED BY <1>6, <1>7

LEMMA OnlyPicks ==
    ASSUME SelectionTypes, NEW k \in Range(Rows), Apply(<<k>>, k, <<k>>)
    PROVE  NewPick /\ Range(picked') = {k}
<1>1. k \in Entries
  BY RowsFacts DEF SelectionTypes
<1>2. <<k>> \in Seq(Entries) /\ Range(<<k>>) = {k}
  BY <1>1, OneFacts
<1> QED BY <1>2, ApplyFacts DEF NewPick

LEMMA AlsoPicks ==
    ASSUME SelectionTypes, NEW k \in Range(Rows), Apply(Append(picked, k), k, <<k>>)
    PROVE  NewPick
<1>1. k \in Entries
  BY RowsFacts DEF SelectionTypes
<1>2. <<k>> \in Seq(Entries) /\ Append(picked, k) \in Seq(Entries)
  BY <1>1, OneFacts, AppendProperties DEF SelectionTypes, PickedOK
<1> QED BY <1>2, ApplyFacts DEF NewPick

LEMMA TogglePicks ==
    ASSUME SelectionTypes, NEW k \in Range(Rows), ChooseToggled(k)
    PROVE  NewPick
<1>1. CASE k \in Range(picked)
  <2>1. PICK keys : keys = Among(picked, Entries \ {k})
    OBVIOUS
  <2>2. keys \in Seq(Entries)
    BY <2>1, AmongFacts DEF SelectionTypes, PickedOK
  <2>3. Apply(keys, k, <<>>)
    BY <1>1, <2>1 DEF ChooseToggled
  <2> QED BY <2>2, <2>3, NoneFacts, ApplyFacts DEF NewPick
<1>2. CASE k \notin Range(picked)
  BY <1>2, AlsoPicks DEF ChooseToggled
<1> QED BY <1>1, <1>2

\* A range that starts from an anchor on the list reaches from it and keeps it.
LEMMA RangePicks ==
    ASSUME SelectionTypes, NEW k \in Range(Rows), ChooseRange(k)
    PROVE  /\ NewPick
           /\ anchor \in Range(Rows) => anchor' = anchor /\ {anchor, k} \subseteq Range(picked')
<1>1. k \in Entries /\ Range(Rows) \subseteq Entries /\ ListsOK
  BY RowsFacts DEF SelectionTypes
<1>2. PICK from : from = PickedAnchor(k)
  OBVIOUS
<1>3. anchor \in Range(Rows) => from = anchor
  BY <1>1, <1>2, SelectionConstants DEF PickedAnchor, Entries
<1>4. CASE from \in Range(Rows)
  <2>1. PICK span : span = Span(from, k)
    OBVIOUS
  <2>2. span \in Seq(Entries) /\ {from, k} \subseteq Range(span)
    BY <1>1, <1>4, <2>1, SpanFacts
  <2>3. PICK touched : touched = Among(span, {k} \cup (Range(span) \ Range(picked)))
    OBVIOUS
  <2>4. touched \in Seq(Entries)
    BY <2>2, <2>3, AmongFacts
  <2>5. Apply(span, from, touched)
    BY <1>2, <1>4, <2>1, <2>3 DEF ChooseRange, AnchorOfRange
  <2>6. NewPick /\ Range(picked') = Range(span) \cap Range(Rows) /\ (from \in Range(picked') => anchor' = from)
    BY <2>2, <2>4, <2>5, ApplyFacts DEF NewPick
  <2> QED BY <1>3, <1>4, <2>2, <2>6
<1>5. CASE from \notin Range(Rows)
  <2>1. Apply(<<k>>, from, <<k>>)
    BY <1>2, <1>5 DEF ChooseRange, AnchorOfRange
  <2>2. <<k>> \in Seq(Entries)
    BY <1>1, OneFacts
  <2> QED BY <1>3, <1>5, <2>1, <2>2, ApplyFacts DEF NewPick
<1> QED BY <1>4, <1>5

-----------------------------------------------------------------------------
(* The selection: the steps.                                               *)

\* A choice of what is on the list keeps the invariant.
LEMMA ChoiceKeeps ==
    ASSUME SelectionIInv, NewPick, focusKey' \in Entries \cup {NoKey},
           UNCHANGED <<listVars, lastDoc, activeDoc, synced, cleared, moving, lists>>,
           picks' \in 0..MaxPicks,
           carried'.docs \subseteq Sheets /\ carried'.folders \subseteq Binders
    PROVE  SelectionIInv'
<1>1. UNCHANGED <<shelf, found>> /\ Searching' = Searching
  BY DEF listVars, Searching
<1>2. ListsOK'
  BY <1>1 DEF SelectionIInv, SelectionTypes, ListsOK
<1>3. SelectionTypes'
  BY <1>2 DEF SelectionIInv, SelectionTypes, NewPick
<1>4. SearchIsClean'
  BY <1>1, RowsFacts DEF SelectionIInv, SelectionTypes, SearchIsClean, NewPick
<1> QED BY <1>3, <1>4 DEF SelectionIInv

\* What the user picks counts.
LEMMA PickingCounts ==
    ASSUME SelectionTypes, Picking
    PROVE  picks' \in 0..MaxPicks /\ carried = Nothing
BY SelectionConstants DEF SelectionTypes, Picking

LEMMA ClicksKeep ==
    ASSUME SelectionIInv, NEW k \in Entries, Click(k) \/ ToggleClick(k) \/ RangeClick(k) \/ GridClick(k)
    PROVE  SelectionIInv' /\ Range(picked') \subseteq Range(Rows)
<1>1. Picking /\ k \in Range(Rows) /\ RestOfPick /\ SelectionTypes
  BY DEF Click, ToggleClick, RangeClick, GridClick, SelectionIInv
<1>2. NewPick /\ focusKey' \in Entries \cup {NoKey}
  <2>1. CASE Click(k)
    BY <1>1, <2>1, OnlyPicks DEF Click, ChooseOnly
  <2>2. CASE ToggleClick(k)
    BY <1>1, <2>2, TogglePicks DEF ToggleClick, ChooseToggled
  <2>3. CASE RangeClick(k)
    BY <1>1, <2>3, RangePicks DEF RangeClick, ChooseRange
  <2>4. CASE GridClick(k)
    BY <1>1, <2>4, AlsoPicks DEF GridClick, ChooseAlso, SelectionTypes
  <2> QED BY <2>1, <2>2, <2>3, <2>4
<1>3. picks' \in 0..MaxPicks
  BY <1>1, PickingCounts
<1> QED BY <1>1, <1>2, <1>3, ChoiceKeeps DEF RestOfPick, NewPick, SelectionTypes

LEMMA KeyRowFacts ==
    ASSUME SelectionTypes, Rows # <<>>, NEW up \in BOOLEAN
    PROVE  KeyRow(up) \in Range(Rows)
<1>1. Rows \in Seq(Entries) /\ picked \in Seq(Entries)
  BY RowsFacts DEF SelectionTypes, PickedOK
<1>2. Len(Rows) \in 1..Len(Rows) /\ 1 \in 1..Len(Rows) /\ DOMAIN Rows = 1..Len(Rows)
  BY <1>1, EmptySeq, LenProperties
<1>3. LastOf(Rows) \in Range(Rows) /\ FirstOf(Rows) \in Range(Rows)
  BY <1>2 DEF LastOf, FirstOf, Range
<1>4. PICK t : t = Among(picked, Range(Rows))
  OBVIOUS
<1>5. t \in Seq(Entries) /\ Range(t) \subseteq Range(Rows)
  BY <1>1, <1>4, AmongFacts
<1>6. t # <<>> => LastOf(t) \in Range(Rows)
  <2>1. SUFFICES ASSUME t # <<>> PROVE LastOf(t) \in Range(t)
    BY <1>5
  <2>2. Len(t) \in DOMAIN t
    BY <1>5, <2>1, EmptySeq, LenProperties
  <2> QED BY <2>1, <2>2 DEF LastOf, Range
<1> QED BY <1>3, <1>4, <1>6 DEF KeyRow

LEMMA ArrowKeeps ==
    ASSUME SelectionIInv, NEW n \in 1..2, NEW up \in BOOLEAN, NEW toEnd \in BOOLEAN, NEW shift \in BOOLEAN,
           ArrowKey(n, up, toEnd, shift)
    PROVE  SelectionIInv' /\ Range(picked') \subseteq Range(Rows)
<1>1. SelectionTypes
  BY DEF SelectionIInv
<1>2. PICK to \in DOMAIN Rows :
        /\ Picking /\ RestOfPick
        /\ IF shift THEN ChooseAlso(Rows[to]) /\ focusKey' = Rows[to] ELSE ChooseOnly(Rows[to])
  BY DEF ArrowKey
<1>3. PICK k : k = Rows[to]
  OBVIOUS
<1>4. k \in Range(Rows) /\ k \in Entries
  BY <1>1, <1>3, RowsFacts DEF Range, SelectionTypes
<1>5. NewPick /\ focusKey' = k
  <2>1. ChooseAlso(k) => NewPick
    BY <1>1, <1>4, AlsoPicks DEF ChooseAlso
  <2>2. ChooseOnly(k) => NewPick /\ focusKey' = k
    BY <1>1, <1>4, OnlyPicks DEF ChooseOnly
  <2> QED BY <1>2, <1>3, <2>1, <2>2
<1> QED BY <1>1, <1>2, <1>4, <1>5, PickingCounts, ChoiceKeeps DEF RestOfPick, NewPick, SelectionTypes

\* What a step may do: a choice adds only what is on the list, and a drag takes what is picked.
AddsListed == Range(picked') \ Range(picked) # {} => Range(picked') \subseteq Range(Rows)
TakesPicked == carried = Nothing /\ carried' # Nothing => carried'.docs \cup carried'.folders = Range(picked')
SoundStep == SelectionIInv' /\ AddsListed /\ TakesPicked

\* What leaves the lists alone and picks nothing new.
LEMMA QuietKeeps ==
    ASSUME SelectionTypes', UNCHANGED listVars, Range(picked') \subseteq Range(picked), SelectionIInv,
           \/ UNCHANGED <<synced, cleared>>
           \/ ~synced' /\ ~cleared'
    PROVE  SelectionIInv' /\ AddsListed
<1>1. Searching' = Searching
  BY DEF listVars, Searching
<1> QED BY <1>1 DEF SelectionIInv, SearchIsClean, AddsListed

LEMMA StaysTyped ==
    ASSUME SelectionTypes, UNCHANGED listVars
    PROVE  ListsOK'
BY DEF SelectionTypes, ListsOK, listVars, Searching

LEMMA DragStartKeeps ==
    ASSUME SelectionIInv, NEW k \in Entries, DragStart(k)
    PROVE  SoundStep
<1>1. /\ SelectionTypes /\ Picking /\ k \in Range(Rows) /\ carried' = CarriedFrom(k)
      /\ UNCHANGED <<listVars, lastDoc, activeDoc, synced, cleared, moving, lists>>
  BY DEF DragStart, SelectionIInv
<1>2. picks' \in 0..MaxPicks
  BY <1>1, PickingCounts
<1>3. carried'.docs \subseteq Sheets /\ carried'.folders \subseteq Binders
  BY <1>1 DEF CarriedFrom
<1>4. picked \in Seq(Entries) /\ Range(picked) \subseteq Entries
  BY <1>1, RangeOfSeq DEF SelectionTypes, PickedOK
<1>5. CASE k \in Range(picked)
  <2>1. UNCHANGED <<picked, order, anchor, focusDoc, focusKey>>
    BY <1>5 DEF DragStart, pickVars
  <2>2. SelectionTypes'
    BY <1>1, <1>2, <1>3, <2>1, StaysTyped DEF SelectionTypes, PickedOK
  <2>3. carried'.docs \cup carried'.folders = Range(picked')
    BY <1>1, <1>4, <1>5, <2>1 DEF CarriedFrom, Entries
  <2>4. SelectionIInv' /\ AddsListed
    BY <1>1, <2>1, <2>2, QuietKeeps
  <2> QED BY <2>3, <2>4 DEF SoundStep, TakesPicked
<1>6. CASE k \notin Range(picked)
  <2>1. Apply(<<k>>, k, <<k>>) /\ focusKey' \in Entries \cup {NoKey}
    BY <1>1, <1>6 DEF DragStart, ChooseOnly, SelectionTypes
  <2>2. NewPick /\ Range(picked') = {k}
    BY <1>1, <2>1, OnlyPicks
  <2>3. SelectionIInv'
    BY <1>1, <1>2, <1>3, <2>1, <2>2, ChoiceKeeps
  <2>4. carried'.docs \cup carried'.folders = {k}
    BY <1>1, <1>6 DEF CarriedFrom, Entries
  <2> QED BY <1>1, <2>2, <2>3, <2>4 DEF SoundStep, AddsListed, TakesPicked
<1> QED BY <1>5, <1>6

LEMMA FocusListKeeps == ASSUME SelectionIInv, FocusList PROVE SoundStep
<1>1. SelectionTypes /\ Picking /\ Rows # <<>> /\ focusKey' = KeyRow(FALSE)
  BY DEF FocusList, SelectionIInv
<1>2. /\ UNCHANGED <<picked, order, anchor, focusDoc>>
      /\ UNCHANGED <<listVars, lastDoc, activeDoc, synced, cleared, carried, moving, lists>>
  BY DEF FocusList, RestOfPick
<1>3. PICK up \in BOOLEAN : up = FALSE
  OBVIOUS
<1>4. focusKey' \in Entries
  BY <1>1, <1>3, KeyRowFacts, RowsFacts DEF SelectionTypes
<1>5. SelectionTypes'
  BY <1>1, <1>2, <1>4, PickingCounts, StaysTyped DEF SelectionTypes, PickedOK
<1>6. SelectionIInv' /\ AddsListed
  BY <1>2, <1>5, QuietKeeps
<1> QED BY <1>2, <1>6 DEF SoundStep, TakesPicked

LEMMA ClearPickedKeeps == ASSUME SelectionIInv, ClearPicked PROVE SoundStep
<1>1. SelectionTypes /\ Picking /\ Apply(<<>>, NoKey, <<>>) /\ focusKey' = NoKey
  BY DEF ClearPicked, SelectionIInv
<1>2. UNCHANGED <<listVars, lastDoc, activeDoc, synced, cleared, carried, moving, lists>>
  BY DEF ClearPicked, RestOfPick
<1>3. PICK none \in Seq(Entries) : none = <<>> /\ Range(none) = {}
  BY NoneFacts
<1>4. Apply(none, NoKey, none)
  BY <1>1, <1>3
<1>5. NewPick /\ Range(picked') = {}
  BY <1>1, <1>3, <1>4, ApplyFacts DEF NewPick
<1>6. SelectionIInv'
  BY <1>1, <1>2, <1>5, PickingCounts, ChoiceKeeps DEF SelectionTypes
<1> QED BY <1>2, <1>5, <1>6 DEF SoundStep, AddsListed, TakesPicked

LEMMA DragEndKeeps == ASSUME SelectionIInv, DragEnd PROVE SoundStep
<1>1. /\ carried' = Nothing
      /\ UNCHANGED <<listVars, lastDoc, activeDoc, synced, cleared, moving, picks, lists>>
      /\ UNCHANGED <<picked, order, anchor, focusDoc, focusKey>>
  BY DEF DragEnd, pickVars
<1>2. SelectionTypes'
  BY <1>1, StaysTyped DEF SelectionIInv, SelectionTypes, PickedOK, Nothing
<1>3. SelectionIInv' /\ AddsListed
  BY <1>1, <1>2, QuietKeeps
<1> QED BY <1>1, <1>3 DEF SoundStep, TakesPicked

LEMMA DropKeeps == ASSUME SelectionIInv, DropOnFolder PROVE SoundStep
<1>1. /\ carried' = Nothing /\ moving'.ids = carried.docs
      /\ UNCHANGED <<listVars, lastDoc, activeDoc, synced, cleared, picks, lists>>
      /\ UNCHANGED <<picked, order, anchor, focusDoc, focusKey>>
  BY DEF DropOnFolder, pickVars
<1>2. SelectionTypes'
  BY <1>1, StaysTyped DEF SelectionIInv, SelectionTypes, PickedOK, Nothing
<1>3. SelectionIInv' /\ AddsListed
  BY <1>1, <1>2, QuietKeeps
<1> QED BY <1>1, <1>3 DEF SoundStep, TakesPicked

-----------------------------------------------------------------------------
(* The selection: the effects.                                             *)

LEMMA SearchEntryKeeps == ASSUME SelectionIInv, SearchEntry PROVE SoundStep
<1>1. /\ SelectionTypes /\ SearchIsClean /\ Searching # synced /\ synced' = Searching
      /\ UNCHANGED <<listVars, lastDoc, activeDoc, carried, moving, picks, lists>>
  BY DEF SearchEntry, SearchEntryDue, SelectionIInv
<1>2. Searching \in BOOLEAN /\ Searching' = Searching /\ ListsOK'
  BY <1>1, StaysTyped DEF Searching, listVars
<1>3. CASE Searching
  <2>1. ~synced /\ ~cleared
    BY <1>1, <1>3 DEF SearchIsClean, SelectionTypes
  <2>2. /\ cleared' = TRUE /\ picked' = <<>> /\ order' = <<>> /\ anchor' = NoKey /\ focusDoc' = NoKey
        /\ UNCHANGED focusKey
    BY <1>3, <2>1 DEF SearchEntry
  <2>3. PickedOK(picked', order') /\ Range(picked') = {}
    BY <2>2, NoneFacts DEF PickedOK
  <2>4. SelectionTypes'
    BY <1>1, <1>2, <2>2, <2>3 DEF SelectionTypes
  <2>5. SearchIsClean'
    BY <1>1, <1>2, <1>3, <2>3 DEF SearchIsClean
  <2> QED BY <1>1, <2>3, <2>4, <2>5 DEF SoundStep, SelectionIInv, AddsListed, TakesPicked
<1>4. CASE ~Searching
  <2>1. cleared' = FALSE /\ synced' = FALSE /\ UNCHANGED <<picked, order, anchor, focusDoc, focusKey>>
    BY <1>1, <1>2, <1>4 DEF SearchEntry, ClearedAfterSearch, pickVars
  <2>2. SelectionTypes'
    BY <1>1, <1>2, <2>1 DEF SelectionTypes, PickedOK
  <2>3. SelectionIInv' /\ AddsListed
    BY <1>1, <2>1, <2>2, QuietKeeps
  <2> QED BY <1>1, <2>3 DEF SoundStep, TakesPicked
<1> QED BY <1>3, <1>4

LEMMA FocusDocKeeps == ASSUME SelectionIInv, FocusDocEffect PROVE SoundStep
<1>1. /\ SelectionTypes /\ lastDoc' = focusDoc /\ focusKey' \in {focusDoc, focusKey, NoKey}
      /\ UNCHANGED <<listVars, picked, order, anchor, focusDoc, activeDoc, synced, cleared, carried, moving, picks, lists>>
  BY DEF FocusDocEffect, SelectionIInv
<1>2. SelectionTypes'
  BY <1>1, StaysTyped DEF SelectionTypes, PickedOK, Entries
<1>3. SelectionIInv' /\ AddsListed
  BY <1>1, <1>2, QuietKeeps
<1> QED BY <1>1, <1>3 DEF SoundStep, TakesPicked

LEMMA FocusKeyKeeps == ASSUME SelectionIInv, FocusKeyEffect PROVE SoundStep
<1>1. /\ SelectionTypes /\ focusKey' = KeyInstead
      /\ UNCHANGED <<listVars, picked, order, anchor, focusDoc, lastDoc, activeDoc, synced, cleared, carried, moving, picks, lists>>
  BY DEF FocusKeyEffect, SelectionIInv
<1>2. KeyInstead \in Entries \cup {NoKey}
  <2>1. PICK t : t = Among(picked, Range(Rows))
    OBVIOUS
  <2>2. t \in Seq(Entries)
    BY <1>1, <2>1, AmongFacts DEF SelectionTypes, PickedOK
  <2>3. FirstOf(t) \in Entries \cup {NoKey}
    BY <2>2, EndsFacts
  <2> QED BY <1>1, <2>1, <2>3 DEF KeyInstead, SelectionTypes, Entries
<1>3. SelectionTypes'
  BY <1>1, <1>2, StaysTyped DEF SelectionTypes, PickedOK
<1>4. SelectionIInv' /\ AddsListed
  BY <1>1, <1>3, QuietKeeps
<1> QED BY <1>1, <1>4 DEF SoundStep, TakesPicked

LEMMA ActiveKeeps == ASSUME SelectionIInv, ActiveEffect PROVE SoundStep
<1>1. /\ SelectionTypes /\ activeDoc' = LastOf(Among(picked, Sheets))
      /\ UNCHANGED <<listVars, lastDoc, synced, cleared, carried, moving, picks, lists>>
      /\ UNCHANGED <<picked, order, anchor, focusDoc, focusKey>>
  BY DEF ActiveEffect, SelectionIInv, pickVars
<1>2. activeDoc' \in Sheets \cup {NoKey}
  <2>1. PICK t : t = Among(picked, Sheets)
    OBVIOUS
  <2>2. t \in Seq(Entries) /\ Range(t) \subseteq Sheets
    BY <1>1, <2>1, AmongFacts DEF SelectionTypes, PickedOK
  <2> QED BY <1>1, <2>1, <2>2, EndsFacts
<1>3. SelectionTypes'
  BY <1>1, <1>2, StaysTyped DEF SelectionTypes, PickedOK
<1>4. SelectionIInv' /\ AddsListed
  BY <1>1, <1>3, QuietKeeps
<1> QED BY <1>1, <1>4 DEF SoundStep, TakesPicked

-----------------------------------------------------------------------------
(* The selection: the listings.                                            *)

LEMMA FolderArrivesKeeps == ASSUME SelectionIInv, NEW s \in Listings, FolderArrives(s) PROVE SoundStep
<1>1. /\ SelectionTypes /\ SearchIsClean /\ lists' \in 0..MaxLists /\ shelf' = s /\ picked' = Reconciled(s)
      /\ UNCHANGED <<found, order, anchor, focusDoc, focusKey, lastDoc, activeDoc, synced, cleared, carried, moving, picks>>
  BY SelectionConstants DEF FolderArrives, SelectionIInv, SelectionTypes
<1>2. picked \in Seq(Entries) /\ IsInjective(picked)
  BY <1>1 DEF SelectionTypes, PickedOK
<1>3. PICK a : a = Among(picked, Binders)
  OBVIOUS
<1>4. PICK b : b = Among(picked, Sheets)
  OBVIOUS
<1>5. PICK c : c = Among(a, Range(s))
  OBVIOUS
<1>6. PICK d : d = Among(b, Range(s))
  OBVIOUS
<1>7. a \in Seq(Entries) /\ IsInjective(a) /\ Range(a) = Range(picked) \cap Binders
  BY <1>2, <1>3, AmongFacts
<1>8. b \in Seq(Entries) /\ IsInjective(b) /\ Range(b) = Range(picked) \cap Sheets
  BY <1>2, <1>4, AmongFacts
<1>9. c \in Seq(Entries) /\ IsInjective(c) /\ Range(c) \subseteq Range(picked) \cap Binders
  BY <1>5, <1>7, AmongFacts
<1>10. d \in Seq(Entries) /\ IsInjective(d) /\ Range(d) \subseteq Range(picked) \cap Sheets
  BY <1>6, <1>8, AmongFacts
<1>11. picked' = c \o d
  BY <1>1, <1>3, <1>4, <1>5, <1>6 DEF Reconciled
<1>12. Range(c) \cap Range(d) = {}
  BY <1>9, <1>10, SelectionConstants
<1>13. picked' \in Seq(Entries) /\ IsInjective(picked') /\ Range(picked') \subseteq Range(picked)
  BY <1>9, <1>10, <1>11, <1>12, TogetherFacts
<1>14. PickedOK(picked', order')
  BY <1>1, <1>13 DEF PickedOK, SelectionTypes
<1>15. Searching' = Searching /\ ListsOK'
  BY <1>1 DEF Searching, ListsOK, SelectionTypes
<1>16. SelectionTypes'
  BY <1>1, <1>14, <1>15 DEF SelectionTypes
<1>17. SearchIsClean'
  BY <1>1, <1>13, <1>15 DEF SearchIsClean
<1> QED BY <1>1, <1>13, <1>16, <1>17 DEF SoundStep, SelectionIInv, AddsListed, TakesPicked

\* What a search found has no folder, and the search before it was seen.
LEMMA SearchArrivesKeeps ==
    ASSUME SelectionIInv, NEW s, SearchArrives(s), s = Unsearched \/ (s \in Listings /\ Among(s, Binders) = <<>>)
    PROVE  SoundStep
<1>1. /\ SelectionTypes /\ SearchIsClean /\ lists' \in 0..MaxLists /\ found' = s /\ Rested
      /\ UNCHANGED <<shelf, lastDoc, activeDoc, synced, cleared, carried, moving, picks>>
      /\ UNCHANGED <<picked, order, anchor, focusDoc, focusKey>>
  BY SelectionConstants DEF SearchArrives, SelectionIInv, SelectionTypes, pickVars
<1>2. s # Unsearched => Range(s) \cap Binders = {}
  <2>1. SUFFICES ASSUME s \in Listings, Among(s, Binders) = <<>> PROVE Range(s) \cap Binders = {}
    OBVIOUS
  <2>2. s \in Seq(Entries)
    BY <2>1, ListingFacts
  <2>3. Range(Among(s, Binders)) = Range(s) \cap Binders
    BY <2>2, AmongFacts
  <2> QED BY <2>1, <2>3, NoneFacts
<1>3. ListsOK'
  BY <1>1, <1>2 DEF ListsOK, Searching, SelectionTypes
<1>4. SelectionTypes'
  BY <1>1, <1>3 DEF SelectionTypes, PickedOK
<1>5. SearchIsClean'
  <2>1. Searching = synced
    BY <1>1 DEF Rested, SearchEntryDue
  <2> QED BY <1>1, <2>1 DEF SearchIsClean
<1> QED BY <1>1, <1>4, <1>5 DEF SoundStep, SelectionIInv, AddsListed, TakesPicked

LEMMA MoveSettlesKeeps == ASSUME SelectionIInv, NEW ok \in BOOLEAN, MoveSettles(ok) PROVE SoundStep
<1>1. /\ SelectionTypes /\ SearchIsClean /\ moving'.ids = {}
      /\ UNCHANGED <<lastDoc, activeDoc, synced, cleared, carried, picks, lists>>
  BY DEF MoveSettles, SelectionIInv, Unmoved
<1>2. CASE ~ok
  <2>1. UNCHANGED listVars /\ UNCHANGED <<picked, order, anchor, focusDoc, focusKey>>
    BY <1>2 DEF MoveSettles, pickVars
  <2>2. SelectionTypes'
    BY <1>1, <2>1, StaysTyped DEF SelectionTypes, PickedOK
  <2>3. SelectionIInv' /\ AddsListed
    BY <1>1, <2>1, <2>2, QuietKeeps
  <2> QED BY <1>1, <2>3 DEF SoundStep, TakesPicked
<1>3. CASE ok
  <2>1. PICK rest : rest = Entries \ moving.ids
    OBVIOUS
  <2>2. /\ shelf' = Among(shelf, rest) /\ UNCHANGED found
        /\ picked' = Among(picked, rest) /\ order' = Among(order, rest) /\ anchor' \in {NoKey, anchor}
        /\ focusDoc' \in {NoKey, focusDoc} /\ focusKey' \in {NoKey, focusKey}
    BY <1>3, <2>1 DEF MoveSettles, AnchorAfterMove
  <2>3. shelf \in Seq(Entries) /\ Len(shelf) <= MaxRows /\ IsInjective(shelf) /\ FoldersFirst(shelf)
    BY <1>1, ListingFacts DEF SelectionTypes, ListsOK
  <2>4. PICK t : t = Among(shelf, rest)
    OBVIOUS
  <2>5. t \in Seq(Entries) /\ Len(t) <= Len(shelf) /\ IsInjective(t) /\ FoldersFirst(t)
    BY <2>3, <2>4, AmongFacts
  <2>6. Len(t) <= MaxRows
    <3>1. Len(t) \in Nat /\ Len(shelf) \in Nat
      BY <2>3, <2>5, LenProperties
    <3> QED BY <2>3, <2>5, <3>1, SelectionConstants
  <2>7. t \in Listings
    BY <2>5, <2>6, ListingFacts
  <2>8. Searching' = Searching /\ ListsOK'
    BY <1>1, <2>2, <2>4, <2>7 DEF ListsOK, Searching, SelectionTypes
  <2>9. PickedOK(picked, order)
    BY <1>1 DEF SelectionTypes
  <2>10. picked' \in Seq(Entries) /\ IsInjective(picked') /\ Range(picked') = Range(picked) \cap rest
    BY <2>2, <2>9, AmongFacts DEF PickedOK
  <2>11. order' \in Seq(Entries) /\ IsInjective(order') /\ Range(order') = Range(order) \cap rest
    BY <2>2, <2>9, AmongFacts DEF PickedOK
  <2>12. PickedOK(picked', order')
    BY <2>9, <2>10, <2>11 DEF PickedOK
  <2>13. SelectionTypes'
    BY <1>1, <2>2, <2>8, <2>12 DEF SelectionTypes
  <2>14. SearchIsClean'
    BY <1>1, <2>8, <2>10 DEF SearchIsClean
  <2> QED BY <1>1, <2>10, <2>13, <2>14 DEF SoundStep, SelectionIInv, AddsListed, TakesPicked
<1> QED BY <1>2, <1>3

-----------------------------------------------------------------------------
(* The selection: the theorems.                                            *)

LEMMA SelectionInitInvariant == SelectionInit => SelectionIInv
<1> SUFFICES ASSUME SelectionInit PROVE SelectionIInv
  OBVIOUS
<1>1. picks \in 0..MaxPicks /\ lists \in 0..MaxLists
  BY SelectionConstants DEF SelectionInit
<1>2. ListsOK
  BY DEF SelectionInit, ListsOK, Searching
<1>3. PickedOK(picked, order)
  BY NoneFacts DEF SelectionInit, PickedOK
<1>4. SelectionTypes
  BY <1>1, <1>2, <1>3 DEF SelectionTypes, SelectionInit, Nothing, Unmoved
<1> QED BY <1>4 DEF SelectionInit, SelectionIInv, SearchIsClean

LEMMA SelectionStepSound == SelectionIInv /\ SelectionNext => SoundStep
<1> SUFFICES ASSUME SelectionIInv, SelectionNext PROVE SoundStep
  OBVIOUS
<1>1. CASE SelectionEffects
  BY <1>1, SearchEntryKeeps, FocusDocKeeps, FocusKeyKeeps, ActiveKeeps DEF SelectionEffects
<1>2. CASE ListChanges
  BY <1>2, FolderArrivesKeeps, SearchArrivesKeeps, MoveSettlesKeeps DEF ListChanges
<1>3. ASSUME NEW k \in Entries, Click(k) \/ ToggleClick(k) \/ RangeClick(k) \/ GridClick(k)
      PROVE  SoundStep
  <2>1. UNCHANGED carried
    BY <1>3 DEF Click, ToggleClick, RangeClick, GridClick, RestOfPick
  <2> QED BY <1>3, <2>1, ClicksKeep DEF SoundStep, AddsListed, TakesPicked
<1>4. ASSUME NEW n \in 1..2, NEW up \in BOOLEAN, NEW toEnd \in BOOLEAN, NEW shift \in BOOLEAN,
             ArrowKey(n, up, toEnd, shift)
      PROVE  SoundStep
  <2>1. UNCHANGED carried
    BY <1>4 DEF ArrowKey, RestOfPick
  <2> QED BY <1>4, <2>1, ArrowKeeps DEF SoundStep, AddsListed, TakesPicked
<1>5. CASE Picks
  BY <1>3, <1>4, <1>5, DragStartKeeps, FocusListKeeps, ClearPickedKeeps DEF Picks
<1> QED BY <1>1, <1>2, <1>5, DragEndKeeps, DropKeeps DEF SelectionNext

LEMMA SelectionStutters == SelectionIInv /\ UNCHANGED selVars => SelectionIInv'
BY DEF SelectionIInv, SelectionTypes, SearchIsClean, ListsOK, PickedOK, Searching, selVars, listVars, pickVars

LEMMA SelectionStepInvariant == SelectionIInv /\ [SelectionNext]_selVars => SelectionIInv'
BY SelectionStepSound, SelectionStutters DEF SoundStep

LEMMA SelectionInvariant == SelectionSpec => []SelectionIInv
<1>1. SelectionInit => SelectionIInv
  BY SelectionInitInvariant
<1>2. SelectionIInv /\ [SelectionNext]_selVars => SelectionIInv'
  BY SelectionStepInvariant
<1> QED BY <1>1, <1>2, PTL DEF SelectionSpec

LEMMA SelectionIInvIsTyped == SelectionIInv => SelectionTypeOK
<1> SUFFICES ASSUME SelectionIInv PROVE SelectionTypeOK
  OBVIOUS
<1>1. SelectionTypes /\ PickedOK(picked, order) /\ ListsOK
  BY DEF SelectionIInv, SelectionTypes
<1>2. Range(order) \subseteq Entries
  BY <1>1, RangeOfSeq DEF PickedOK
<1> QED BY <1>1, <1>2 DEF SelectionTypeOK, SelectionTypes, PickedOK, ListsOK

LEMMA SelectionIInvIsClean == SelectionIInv => NoFolderInSearch
BY DEF SelectionIInv, SearchIsClean, NoFolderInSearch, Rested, SearchEntryDue

\* What one step may never do.
LEMMA SelectionStepProperties ==
    ASSUME SelectionIInv, [SelectionNext]_selVars
    PROVE  /\ [Range(picked') \ Range(picked) # {} => Range(picked') \subseteq Range(Rows)]_selVars
           /\ [\A k \in Entries : RangeClick(k) /\ anchor \in Range(Rows)
                   => anchor' = anchor /\ {anchor, k} \subseteq Range(picked')]_selVars
           /\ [MoveSettles(TRUE) => ({anchor'} \cup Range(picked') \cup Range(order')) \cap moving.ids = {}]_selVars
           /\ [carried = Nothing /\ carried' # Nothing => carried'.docs \cup carried'.folders = Range(picked')]_selVars
<1>1. SUFFICES ASSUME SelectionNext
               PROVE  /\ AddsListed /\ TakesPicked
                      /\ \A k \in Entries : RangeClick(k) /\ anchor \in Range(Rows)
                             => anchor' = anchor /\ {anchor, k} \subseteq Range(picked')
                      /\ MoveSettles(TRUE) => ({anchor'} \cup Range(picked') \cup Range(order')) \cap moving.ids = {}
  BY DEF AddsListed, TakesPicked
<1>2. AddsListed /\ TakesPicked
  BY <1>1, SelectionStepSound DEF SoundStep
<1>3. ASSUME NEW k \in Entries, RangeClick(k), anchor \in Range(Rows)
      PROVE  anchor' = anchor /\ {anchor, k} \subseteq Range(picked')
  BY <1>3, RangePicks DEF RangeClick, SelectionIInv
<1>4. ASSUME MoveSettles(TRUE)
      PROVE  ({anchor'} \cup Range(picked') \cup Range(order')) \cap moving.ids = {}
  <2>1. PICK rest : rest = Entries \ moving.ids
    OBVIOUS
  <2>2. picked' = Among(picked, rest) /\ order' = Among(order, rest) /\ anchor' = AnchorAfterMove
    BY <1>4, <2>1 DEF MoveSettles
  <2>3. Range(picked') \subseteq rest /\ Range(order') \subseteq rest
    BY <2>2, AmongFacts DEF SelectionIInv, SelectionTypes, PickedOK
  <2>4. anchor' \notin moving.ids
    BY <2>2, SelectionConstants DEF AnchorAfterMove, SelectionIInv, SelectionTypes
  <2> QED BY <2>1, <2>3, <2>4
<1> QED BY <1>2, <1>3, <1>4

\* What is picked, anchored, focused and dragged are entries of the right kind,
\* what is picked is in the order of picking, and nothing is in either twice.
THEOREM SelectionTyped == SelectionSpec => []SelectionTypeOK
<1>1. SelectionIInv => SelectionTypeOK
  BY SelectionIInvIsTyped
<1> QED BY <1>1, SelectionInvariant, PTL

\* No folder is picked among search results; a choice adds what is listed; a
\* range pivots on its anchor; what was moved is no longer picked nor anchored;
\* and a drag takes what is picked.
THEOREM SelectionSound == SelectionSpec => SelectionIsSound
<1>1. SelectionIInv => NoFolderInSearch
  BY SelectionIInvIsClean
<1>2. SelectionIInv /\ [SelectionNext]_selVars =>
        /\ [Range(picked') \ Range(picked) # {} => Range(picked') \subseteq Range(Rows)]_selVars
        /\ [\A k \in Entries : RangeClick(k) /\ anchor \in Range(Rows)
                => anchor' = anchor /\ {anchor, k} \subseteq Range(picked')]_selVars
        /\ [MoveSettles(TRUE) => ({anchor'} \cup Range(picked') \cup Range(order')) \cap moving.ids = {}]_selVars
        /\ [carried = Nothing /\ carried' # Nothing => carried'.docs \cup carried'.folders = Range(picked')]_selVars
  BY SelectionStepProperties
<1> QED BY <1>1, <1>2, SelectionInvariant, PTL
        DEF SelectionSpec, SelectionIsSound, PickedIsListed, RangesPivot, MovedIsNoAnchor, DragTakesPicked

-----------------------------------------------------------------------------
(* The four parts put together (MCClientViewer): a step is one of one of   *)
(* them, and the others rest.                                              *)

displayVars == <<part, shellVars, panelVars, selVars, uploadVars>>
ViewerIInv == ShellIInv /\ PanelIInv /\ SelectionIInv /\ UploadsIInv

LEMMA ViewerInit == MCInit => ViewerIInv
<1>1. SUFFICES ASSUME MCInit PROVE ViewerIInv
  OBVIOUS
<1>2. ShellIInv
  BY <1>1, ShellStarts DEF MCInit, ShellAtFirst, ShellRests
<1>3. PanelIInv
  BY <1>1, PanelInitInvariant DEF MCInit, InfoAtFirst, InfoRests
<1>4. SelectionIInv
  BY <1>1, SelectionInitInvariant DEF MCInit, SelectionAtFirst, SelectionRests
<1>5. UploadsIInv
  BY <1>1, UploadsInitInvariant DEF MCInit
<1> QED BY <1>2, <1>3, <1>4, <1>5 DEF ViewerIInv

\* A turn of the shell, the details or the uploads is a step of theirs.
LEMMA TurnsAreSteps ==
  /\ ShellTurn => ShellNext
  /\ InfoTurn => PanelNext
  /\ UploadsTurn => UploadsNext
<1>1. ShellTurn => ShellNext
  BY DEF ShellTurn, ShellNext, ViewerUser
<1> QED BY <1>1 DEF InfoTurn, UploadsTurn

\* A step of the four is one of each part, or leaves it alone.
LEMMA ViewerSteps ==
  [MCNext]_displayVars =>
    [ShellNext]_shellVars /\ [PanelNext]_panelVars /\ [SelectionNext]_selVars /\ [UploadsNext]_uploadVars
BY TurnsAreSteps DEF MCNext, displayVars

LEMMA ViewerInvariant == MCSpec => []ViewerIInv
<1>1. ViewerIInv /\ [MCNext]_displayVars => ViewerIInv'
  BY ViewerSteps, ShellStepInvariant, PanelStepInvariant, SelectionStepInvariant, UploadsStepInvariant DEF ViewerIInv
<1> QED BY <1>1, ViewerInit, PTL DEF MCSpec, displayVars

\* The states of shell, details, selection and uploads are well formed, whichever
\* of them acts (MCClientViewer).
THEOREM ViewerTyped == MCSpec => []ViewerTypeOK
<1>1. ViewerIInv => ViewerTypeOK
  BY ShellIInvIsTyped, PanelIInvIsTyped, SelectionIInvIsTyped, UploadsIInvIsTyped DEF ViewerIInv, ViewerTypeOK
<1> QED BY <1>1, ViewerInvariant, PTL

\* Put together, the shell follows what is viewed, the details are of what is
\* viewed, and every file is where its batch was aimed.
THEOREM ViewerSound == MCSpec => [](ShellIsInStep /\ PanelIsOfViewed /\ UploadsAreAccounted)
<1>1. ViewerIInv => ShellIsInStep /\ PanelIsOfViewed /\ UploadsAreAccounted
  BY ShellIInvIsInStep, PanelIInvIsOfViewed, UploadsIInvIsAccounted DEF ViewerIInv
<1> QED BY <1>1, ViewerInvariant, PTL

\* Put together, no step makes the selection unsound and none brings back what
\* was cleared from the upload queue.
THEOREM ViewerStepsSound == MCSpec => ViewerStepsAreSound
<1>1. ViewerIInv => NoFolderInSearch
  BY SelectionIInvIsClean DEF ViewerIInv
<1>2. ViewerIInv /\ [MCNext]_displayVars =>
        /\ [Range(picked') \ Range(picked) # {} => Range(picked') \subseteq Range(Rows)]_selVars
        /\ [\A k \in Entries : RangeClick(k) /\ anchor \in Range(Rows)
                => anchor' = anchor /\ {anchor, k} \subseteq Range(picked')]_selVars
        /\ [MoveSettles(TRUE) => ({anchor'} \cup Range(picked') \cup Range(order')) \cap moving.ids = {}]_selVars
        /\ [carried = Nothing /\ carried' # Nothing => carried'.docs \cup carried'.folders = Range(picked')]_selVars
  BY ViewerSteps, SelectionStepProperties DEF ViewerIInv
<1>3. MCSpec => SelectionIsSound
  BY <1>1, <1>2, ViewerInvariant, PTL
     DEF MCSpec, displayVars, SelectionIsSound, PickedIsListed, RangesPivot, MovedIsNoAnchor, DragTakesPicked
<1>4. ViewerIInv /\ [MCNext]_displayVars => [StaysOut]_uploadVars
  BY ViewerSteps, UploadsKeepCleared DEF ViewerIInv
<1>5. MCSpec => [][StaysOut]_uploadVars
  BY <1>4, ViewerInvariant, PTL DEF MCSpec, displayVars
<1>6. MCSpec => ClearedItemsStayOut
  BY <1>5 DEF ClearedItemsStayOut, StaysOut
<1> QED BY <1>3, <1>6 DEF ViewerStepsAreSound
=============================================================================
