------------------------------ MODULE ClientShell ------------------------------
(***************************************************************************)
(* The shell of the documents route: which document is viewed, inspected   *)
(* or previewed, how the address follows, the panels beside the list and   *)
(* how they share the window, and the notices.                             *)
(*                                                                         *)
(* The viewed document and the selected folder are the truth; effects copy *)
(* them to the panel stack and the address (DocumentsInner), and another   *)
(* copies the address' folder back (useDocumentsWorkspace).                *)
(***************************************************************************)
EXTENDS Integers, Sequences

CONSTANTS
    Leaflets,           \* documents
    Shelves,            \* folders, the root and the trash among them
    Origin,             \* the root folder
    Nil,
    Windows,            \* widths of the window
    Asks,               \* widths a panel is dragged to or was stored with
    MinWidth,           \* per panel, PANEL_LIMITS.minPx
    MainWidth,          \* MINIMUM_MAIN_CONTENT_WIDTH
    SideWidth,          \* DEFAULT_SIDEBAR_WIDTH
    MaxToasts,          \* MAX_TOASTS, 3 in the code
    MaxNotices,         \* bound: notices shown
    MaxShellActs        \* bound: what the user does

ASSUME ShellConstants ==
    /\ Origin \in Shelves /\ Nil \notin Leaflets \cup Shelves \cup {"sidebar", "detail"}
    /\ Windows \subseteq Nat \ {0} /\ Asks \subseteq Nat
    /\ MinWidth \in [{"sidebar", "detail"} -> Nat] /\ {MainWidth, SideWidth} \subseteq Nat
    /\ MaxToasts \in Nat \ {0} /\ {MaxNotices, MaxShellActs} \subseteq Nat

VARIABLES
    viewing,    \* viewerDocumentId
    inspected,  \* detailPanelDocId
    previewed,  \* previewDoc
    returnTo,   \* viewerReturnPathRef
    here,       \* selectedFolder
    address,    \* the path: of a folder or of a document
    routed,     \* prevRouteFolderIdRef
    bridged,    \* viewing, here and the detail panel, as their effects last ran
    mainStack,  \* the panel stack
    backdrop,   \* the overlay: rendered, visible, and its timer
    opener,     \* lastFocusedElement is kept
    screen,     \* window.innerWidth; history: refitted since the room was looked at
    wide,       \* displayed width per panel
    preferred,  \* preferredPanelWidthsRef
    collapsed, suppressed,      \* of the sidebar
    dragging,   \* the panel whose pointer listeners are attached
    toasts, timers,     \* the notices on display, and their timers
    notices, shellActs

viewerVars == <<viewing, inspected, previewed, returnTo, here, opener>>
routeVars == <<address, routed, bridged, mainStack>>
sizeVars == <<screen, wide, preferred, collapsed, suppressed, dragging>>
noticeVars == <<toasts, timers, notices>>
shellVars == <<viewerVars, routeVars, backdrop, sizeVars, noticeVars, shellActs>>

-----------------------------------------------------------------------------
PanelKeys == {"sidebar", "detail"}
FolderPath(f) == [kind |-> "folder", id |-> f]
DocumentPath(d) == [kind |-> "document", id |-> d]
NoRoute == [kind |-> "none", id |-> Nil]
Smaller(a, b) == IF a < b THEN a ELSE b
Larger(a, b) == IF a > b THEN a ELSE b

\* filter(x => x !== e), of a list that has e once at most.
Without(s, e) ==
    IF \A i \in DOMAIN s : s[i] # e THEN s
    ELSE LET k == CHOOSE i \in DOMAIN s : s[i] = e
         IN  [i \in 1..(Len(s) - 1) |-> IF i < k THEN s[i] ELSE s[i + 1]]

\* --- the widths ---------------------------------------------------------------
\* clampPanelWidth: a quarter or two fifths of the window at most, never less
\* than the panel's minimum.
Clamped(p, w, v) ==
    LET most == Larger(IF p = "sidebar" THEN w \div 4 ELSE (2 * w) \div 5, MinWidth[p])
        allowed == Smaller(w, Larger(MinWidth[p], Smaller(most, w - MainWidth))) IN
    Smaller(Larger(v, MinWidth[p]), Larger(0, allowed))

\* clampPanelsWithinViewport, with the detail panel open or not; a sidebar wider
\* than half the window stands alone, or not at all.
Solo(w, pref) == 2 * Smaller(pref["sidebar"], w) > w
Fitted(w, open, pref) ==
    IF ~Solo(w, pref) THEN [pref EXCEPT !["detail"] = Smaller(@, w - pref["sidebar"])]
    ELSE IF open THEN [sidebar |-> 0, detail |-> Smaller(pref["detail"], w)]
    ELSE [sidebar |-> w, detail |-> 0]
PreferredAfter(w, open, pref) == IF Solo(w, pref) /\ ~open THEN [pref EXCEPT !["sidebar"] = SideWidth] ELSE pref

Roomy(w, s) == 4 * (w - s["sidebar"] - s["detail"]) >= w

\* Slip: a sidebar that gave way stays away when the detail panel closes.
SuppressedIfOpened(open, s) == IF collapsed \/ ~open THEN suppressed ELSE ~Roomy(screen.width, s)
\* handlePanelLayoutChange of the detail panel.
SuppressedBy(open, s) == IF collapsed THEN suppressed ELSE open /\ ~Roomy(screen.width, s)

Detailed == inspected # Nil
SidebarShown == ~collapsed /\ ~suppressed

-----------------------------------------------------------------------------
\* --- the effects -----------------------------------------------------------------
ViewerEffectDue == bridged.viewing # viewing
FolderEffectDue == bridged.here # here
DetailEffectDue == bridged.detailed # Detailed
Target == IF address.kind = "folder" THEN address.id ELSE Origin
RouteEffectDue == (Target # Origin \/ address.kind # "document") /\ Target # routed
EffectsDone == ~ViewerEffectDue /\ ~FolderEffectDue /\ ~DetailEffectDue /\ ~RouteEffectDue
ShellActing == EffectsDone /\ shellActs < MaxShellActs /\ shellActs' = shellActs + 1

\* viewerReturnPath falls back to the selected folder.
ReturnPath == IF returnTo = NoRoute THEN FolderPath(here) ELSE returnTo

StackOfViewer == LET s == Without(mainStack, "viewer") IN IF viewing # Nil THEN Append(s, "viewer") ELSE s

ViewerEffect ==
    /\ ViewerEffectDue /\ bridged' = [bridged EXCEPT !.viewing = viewing]
    /\ mainStack' = StackOfViewer
    /\ address' = IF viewing # Nil THEN DocumentPath(viewing) ELSE ReturnPath
    /\ UNCHANGED <<viewerVars, routed, backdrop, sizeVars, noticeVars, shellActs>>

AddressOfFolder == FolderPath(here)

FolderEffect ==
    /\ ~ViewerEffectDue /\ FolderEffectDue /\ bridged' = [bridged EXCEPT !.here = here]
    /\ address' = AddressOfFolder
    /\ UNCHANGED <<viewerVars, routed, mainStack, backdrop, sizeVars, noticeVars, shellActs>>

RouteTaken == Target

RouteEffect ==
    /\ ~ViewerEffectDue /\ ~FolderEffectDue /\ RouteEffectDue
    /\ routed' = RouteTaken /\ here' = Target
    /\ UNCHANGED <<viewing, inspected, previewed, returnTo, opener, address, bridged, mainStack,
                   backdrop, sizeVars, noticeVars, shellActs>>

DragAfter(open) == IF dragging = "detail" /\ ~open THEN Nil ELSE dragging

DetailEffect ==
    /\ DetailEffectDue /\ bridged' = [bridged EXCEPT !.detailed = Detailed]
    /\ suppressed' = SuppressedBy(Detailed, wide)
    /\ wide' = Fitted(screen.width, Detailed, preferred)
    /\ preferred' = PreferredAfter(screen.width, Detailed, preferred)
    /\ screen' = [screen EXCEPT !.refitted = Detailed /\ wide' # wide]
    /\ dragging' = DragAfter(Detailed)
    /\ UNCHANGED <<viewerVars, address, routed, mainStack, backdrop, collapsed, noticeVars, shellActs>>

-----------------------------------------------------------------------------
ShellInit ==
    /\ \/ viewing = Nil /\ here \in Shelves /\ address = FolderPath(here) /\ mainStack = <<"documents">>
       \/ /\ viewing \in Leaflets /\ here = Origin /\ address = DocumentPath(viewing)
          /\ mainStack = <<"documents", "viewer">>
    /\ inspected = Nil /\ previewed = Nil /\ returnTo = NoRoute /\ routed = Nil /\ opener = FALSE
    /\ bridged = [viewing |-> viewing, here |-> here, detailed |-> FALSE]
    /\ backdrop = [drawn |-> FALSE, visible |-> FALSE, timers |-> {}]
    /\ screen \in [width : Windows, refitted : {FALSE}]
    /\ \E side, det \in Asks :
          LET stored == [sidebar |-> Clamped("sidebar", screen.width, side), detail |-> Clamped("detail", screen.width, det)] IN
          wide = Fitted(screen.width, FALSE, stored) /\ preferred = PreferredAfter(screen.width, FALSE, stored)
    /\ collapsed \in BOOLEAN /\ suppressed = FALSE /\ dragging = Nil
    /\ toasts = <<>> /\ timers = {} /\ notices = 0 /\ shellActs = 0

\* --- documents ----------------------------------------------------------------------
\* openDocumentViewer keeps the address it was called at as the way back.
Viewed(d) == viewing' = d /\ inspected' = Nil /\ returnTo' = address

Navigate(d) ==
    /\ ShellActing /\ Viewed(d)
    /\ UNCHANGED <<previewed, here, opener, routeVars, backdrop, sizeVars, noticeVars>>

\* The pointer that would open it is not dragging a panel.
Inspect(d) ==
    /\ ShellActing /\ dragging = Nil /\ inspected' = d
    /\ UNCHANGED <<viewing, previewed, returnTo, here, opener, routeVars, backdrop, sizeVars, noticeVars>>

MaximizeDetail ==
    /\ ShellActing /\ Detailed /\ Viewed(inspected)
    /\ UNCHANGED <<previewed, here, opener, routeVars, backdrop, sizeVars, noticeVars>>

CloseDetail ==
    /\ ShellActing /\ Detailed /\ inspected' = Nil
    /\ UNCHANGED <<viewing, previewed, returnTo, here, opener, routeVars, backdrop, sizeVars, noticeVars>>

CloseViewer ==
    /\ ShellActing /\ viewing # Nil /\ viewing' = Nil
    /\ UNCHANGED <<inspected, previewed, returnTo, here, opener, routeVars, backdrop, sizeVars, noticeVars>>

\* The folder of the viewed document, by its breadcrumb or its summary.
NavigateToFolder(f) ==
    /\ ShellActing /\ viewing # Nil /\ viewing' = Nil /\ here' = f
    /\ UNCHANGED <<inspected, previewed, returnTo, opener, routeVars, backdrop, sizeVars, noticeVars>>

SelectFolder(f) ==
    /\ ShellActing /\ here # f /\ here' = f
    /\ UNCHANGED <<viewing, inspected, previewed, returnTo, opener, routeVars, backdrop, sizeVars, noticeVars>>

EnterAddress(a) ==
    /\ ShellActing /\ address # a /\ address' = a
    /\ UNCHANGED <<viewerVars, routed, bridged, mainStack, backdrop, sizeVars, noticeVars>>

-----------------------------------------------------------------------------
\* --- the preview ----------------------------------------------------------------------
TimersFor(t) == {t}
BackdropEffect(open) ==
    backdrop' = IF open THEN [backdrop EXCEPT !.drawn = TRUE, !.timers = TimersFor("show")]
                ELSE [backdrop EXCEPT !.visible = FALSE, !.timers = TimersFor("hide")]

OpenPreview(d) ==
    /\ ShellActing /\ previewed' = d /\ opener' = TRUE
    /\ IF previewed = Nil THEN BackdropEffect(TRUE) ELSE UNCHANGED backdrop
    /\ UNCHANGED <<viewing, inspected, returnTo, here, routeVars, sizeVars, noticeVars>>

ClosePreview ==
    /\ ShellActing /\ previewed # Nil /\ previewed' = Nil /\ opener' = FALSE
    /\ BackdropEffect(FALSE)
    /\ UNCHANGED <<viewing, inspected, returnTo, here, routeVars, sizeVars, noticeVars>>

MaximizePreview ==
    /\ ShellActing /\ previewed # Nil /\ Viewed(previewed)
    /\ previewed' = Nil /\ opener' = FALSE /\ BackdropEffect(FALSE)
    /\ UNCHANGED <<here, routeVars, sizeVars, noticeVars>>

BackdropTimer(t) ==
    /\ t \in backdrop.timers
    /\ backdrop' = [backdrop EXCEPT !.timers = @ \ {t}, !.visible = (t = "show") \/ @,
                                    !.drawn = (t = "show") /\ @]
    /\ UNCHANGED <<viewerVars, routeVars, sizeVars, noticeVars, shellActs>>

-----------------------------------------------------------------------------
\* --- the panels -------------------------------------------------------------------------
\* setPanelWidth while a panel is dragged: a sidebar without room closes the
\* detail panel, a detail panel without room hides the sidebar.
Drag(p, v) ==
    /\ ShellActing /\ dragging \in {Nil, p}
    /\ IF p = "sidebar" THEN SidebarShown ELSE Detailed
    /\ dragging' = p
    /\ wide' = [wide EXCEPT ![p] = Clamped(p, screen.width, v)]
    /\ screen' = [screen EXCEPT !.refitted = FALSE]
    /\ IF p = "detail" THEN suppressed' = (IF collapsed THEN suppressed ELSE ~Roomy(screen.width, wide'))
                            /\ UNCHANGED inspected
       ELSE /\ UNCHANGED suppressed
            /\ inspected' = IF Roomy(screen.width, wide') THEN inspected ELSE Nil
    /\ UNCHANGED <<viewing, previewed, returnTo, here, opener, routeVars, backdrop, preferred, collapsed, noticeVars>>

Drop ==
    /\ ShellActing /\ dragging # Nil /\ dragging' = Nil
    /\ preferred' = [preferred EXCEPT ![dragging] = wide[dragging]]
    /\ UNCHANGED <<viewerVars, routeVars, backdrop, screen, wide, collapsed, suppressed, noticeVars>>

CollapseSidebar ==
    /\ ShellActing /\ SidebarShown /\ collapsed' = TRUE
    /\ UNCHANGED <<viewerVars, routeVars, backdrop, screen, wide, preferred, suppressed, dragging, noticeVars>>

DetailIfRoomy == IF Roomy(screen.width, wide) THEN inspected ELSE Nil

\* expandSidebar: the toggle is there while the sidebar is hidden. One that was
\* only suppressed, and has room by now, stays hidden.
ExpandSidebar ==
    /\ ShellActing /\ ~SidebarShown
    /\ collapsed' = FALSE /\ suppressed' = (suppressed /\ ~collapsed)
    /\ inspected' = DetailIfRoomy
    /\ screen' = [screen EXCEPT !.refitted = @ /\ ~collapsed]
    /\ UNCHANGED <<viewing, previewed, returnTo, here, opener, routeVars, backdrop, wide, preferred, dragging, noticeVars>>

ResizeWindow(w) ==
    /\ ShellActing /\ screen.width # w
    /\ screen' = [width |-> w, refitted |-> TRUE]
    /\ wide' = Fitted(w, Detailed, preferred) /\ preferred' = PreferredAfter(w, Detailed, preferred)
    /\ UNCHANGED <<viewerVars, routeVars, backdrop, collapsed, suppressed, dragging, noticeVars>>

-----------------------------------------------------------------------------
\* --- the notices ------------------------------------------------------------------------
TimersAfter(s) == (IF Len(s) > MaxToasts THEN timers \ {s[1]} ELSE timers) \cup {s[Len(s)]}

ShowToast ==
    /\ notices < MaxNotices /\ notices' = notices + 1
    /\ LET s == Append(toasts, notices') IN
       /\ toasts' = IF Len(s) > MaxToasts THEN Tail(s) ELSE s
       /\ timers' = TimersAfter(s)
    /\ UNCHANGED <<viewerVars, routeVars, backdrop, sizeVars, shellActs>>

\* Its time is up, or the user closes it.
RemoveToast(t) ==
    /\ t \in {toasts[i] : i \in DOMAIN toasts} \cup timers
    /\ toasts' = Without(toasts, t) /\ timers' = timers \ {t}
    /\ UNCHANGED <<viewerVars, routeVars, backdrop, sizeVars, notices, shellActs>>

-----------------------------------------------------------------------------
Routes == {FolderPath(f) : f \in Shelves} \cup {DocumentPath(d) : d \in Leaflets}
ShellEffects == ViewerEffect \/ FolderEffect \/ RouteEffect \/ DetailEffect \/ \E t \in {"show", "hide"} : BackdropTimer(t)
ViewerUser ==
    \/ \E d \in Leaflets : Navigate(d) \/ Inspect(d) \/ OpenPreview(d)
    \/ MaximizeDetail \/ CloseDetail \/ CloseViewer \/ ClosePreview \/ MaximizePreview
    \/ \E f \in Shelves : NavigateToFolder(f) \/ SelectFolder(f)
    \/ \E a \in Routes : EnterAddress(a)
PanelUser ==
    \/ \E p \in PanelKeys, v \in Asks : Drag(p, v)
    \/ Drop \/ CollapseSidebar \/ ExpandSidebar
    \/ \E w \in Windows : ResizeWindow(w)
ShellNotices == ShowToast \/ \E t \in 1..MaxNotices : RemoveToast(t)
ShellNext == ShellEffects \/ ViewerUser \/ PanelUser \/ ShellNotices

\* Effects run; the user need not do anything.
ShellFairness ==
    WF_shellVars(ViewerEffect) /\ WF_shellVars(FolderEffect) /\ WF_shellVars(RouteEffect) /\ WF_shellVars(DetailEffect)
ShellSpec == ShellInit /\ [][ShellNext]_shellVars /\ ShellFairness

-----------------------------------------------------------------------------
(* Types; and no panel is wider than the window.                            *)
ShellTypeOK ==
    /\ {viewing, inspected, previewed} \subseteq Leaflets \cup {Nil} /\ here \in Shelves
    /\ address \in Routes /\ returnTo \in Routes \cup {NoRoute} /\ routed \in Shelves \cup {Nil}
    /\ bridged \in [viewing : Leaflets \cup {Nil}, here : Shelves, detailed : BOOLEAN]
    /\ mainStack \in {<<"documents">>, <<"documents", "viewer">>}
    /\ backdrop \in [drawn : BOOLEAN, visible : BOOLEAN, timers : SUBSET {"show", "hide"}]
    /\ opener = (previewed # Nil)
    /\ screen \in [width : Windows, refitted : BOOLEAN]
    /\ wide \in [PanelKeys -> 0..screen.width]
    /\ preferred \in [PanelKeys -> Nat] /\ {collapsed, suppressed} \subseteq BOOLEAN
    /\ dragging \in PanelKeys \cup {Nil}
    /\ Len(toasts) <= MaxToasts /\ timers \subseteq 1..MaxNotices

(* Once the effects have run, the viewer's panel lies on top exactly while *)
(* a document is viewed, and an address of a folder is of the folder       *)
(* selected, whichever of the two was changed (DocumentsRoute.tsx:79-157,  *)
(* useDocumentsWorkspace.ts:222-231).                                      *)
StackFollowsViewer == EffectsDone => ("viewer" \in {mainStack[i] : i \in DOMAIN mainStack}) = (viewing # Nil)
AddressIsOfFolder == EffectsDone /\ address.kind = "folder" => address.id = here

(* The overlay's timers out, it is on display exactly while a preview is   *)
(* open, however fast it was opened and closed.                            *)
BackdropFollows ==
    backdrop.timers = {} => (backdrop.drawn = (previewed # Nil)) /\ (backdrop.visible = (previewed # Nil))

(* The sidebar gives way exactly to an open detail panel beside which the  *)
(* list would have less than a quarter of the window.  The panels are      *)
(* fitted to the window after that was decided, on the widths before, and  *)
(* a window that changed is looked at again with the next change of a      *)
(* panel (handlePanelLayoutChange).                                        *)
SidebarGivesWay ==
    EffectsDone /\ ~collapsed /\ ~screen.refitted => suppressed = (Detailed /\ ~Roomy(screen.width, wide))

(* A drag of a panel ends with the panel.                                  *)
DraggedIsShown == EffectsDone /\ dragging = "detail" => Detailed

(* Every notice on display has the timer that takes it away, when older    *)
(* ones are pushed out too.                                                *)
ToastsAreTimed == \A i \in DOMAIN toasts : toasts[i] \in timers

(* The effects that copy the address to the folder and the folder to the   *)
(* address come to rest: neither sets the other off for ever.              *)
BridgeSettles == []<>EffectsDone

\* Viewer, address, backdrop, sidebar, resizing and toasts follow each other once
\* the effects between them have run.
ShellIsInStep ==
    /\ StackFollowsViewer /\ AddressIsOfFolder /\ BackdropFollows
    /\ SidebarGivesWay /\ DraggedIsShown /\ ToastsAreTimed
=============================================================================
