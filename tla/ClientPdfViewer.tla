---------------------------- MODULE ClientPdfViewer ----------------------------
(***************************************************************************)
(* The PDF viewer of the web client: a document is opened by an effect     *)
(* that a new source or width cancels, and its pages draw themselves       *)
(* through a shared stack of requests with a few slots, as they scroll in  *)
(* and out of the viewport.                                                *)
(*                                                                         *)
(* A call of a page's renderPage is a run: it awaits the page, then its    *)
(* drawing, and gives the page's slot back when it ends.                   *)
(***************************************************************************)
EXTENDS Integers, FiniteSets, SequencesExt

CONSTANTS
    NumPages,
    Reach,              \* 2 in the code: pages drawn around a visible one
    MaxRenders,         \* maxConcurrentRenders, 2 in the code
    MaxRuns,            \* bound: calls of renderPage under way
    MaxOpens,           \* bound: sources and widths opened
    MaxScrolls          \* bound: scroll events

ASSUME PdfConstants ==
    /\ {NumPages, MaxRenders, MaxRuns, MaxOpens} \subseteq Nat \ {0}
    /\ {Reach, MaxScrolls} \subseteq Nat

VARIABLES
    loads,      \* the runs of the loading effect, in order
    status,     \* the loading state, the load it is of, and the load whose password
                \* prompt (passwordCallback) it holds, 0 for none
    pdf,        \* pdfRef: the load whose document is shown, 0 for none
    opened,     \* loads whose document is open in pdf.js
    broken,     \* pages pdf.js cannot draw
    visible,    \* visiblePages
    skims,      \* pages that scroll past too fast to be drawn
    wanted,     \* pages whose effect has asked for a slot
    stack,      \* renderQueueRef
    active,     \* activeRendersRef
    canvas,     \* per page: none, allowed, blank once mounted, drawn
    task,       \* renderTaskRef: the run that draws, 0 for none
    rendered,   \* hasRenderedRef
    runs,
    overtaken,  \* history: a run awaited its page when its canvas went away
    scrolls

pdfVars == <<loads, status, pdf, opened, broken, visible, skims, wanted, stack, active, canvas, task, rendered,
             runs, overtaken, scrolls>>
pageVars == <<wanted, stack, active, canvas, task, rendered, runs, overtaken>>
loadVars == <<loads, status, pdf, opened, broken>>

-----------------------------------------------------------------------------
PageNumbers == 1..NumPages
RunIds == 1..MaxRuns
NoRun == [page |-> 0, stage |-> "free", own |-> FALSE, load |-> 0]
RunsOf(p) == {r \in RunIds : runs[r].page = p}
Latest == Len(loads)

\* --- the slots --------------------------------------------------------------
\* requestQueueFlush pops requests from the stack while one is left and a slot is
\* free; a request of a page that has a slot is dropped. The last k requests:
Top(q, k) == {q[i] : i \in (Len(q) - k + 1)..Len(q)}
Popped(q, a) ==
    CHOOSE k \in 0..Len(q) :
        /\ k = Len(q) \/ Cardinality(a \cup Top(q, k)) >= MaxRenders
        /\ \A j \in 0..(k - 1) : Cardinality(a \cup Top(q, j)) < MaxRenders
Served(q, a) ==
    LET popped == Top(q, Popped(q, a))
    IN  [stack |-> SubSeq(q, 1, Len(q) - Popped(q, a)), active |-> a \cup popped, resumed |-> popped \ a]
Asked(p) == Served(Append(stack, p), active)

Freed(p, q) == IF p \in active THEN Served(q, active \ {p}) ELSE [stack |-> q, active |-> active, resumed |-> {}]
GivenUp(p) == Freed(p, RemoveFirst(stack, p))

Grant(s, c) ==
    /\ stack' = s.stack /\ active' = s.active
    /\ canvas' = [p \in PageNumbers |-> IF p \in s.resumed THEN "allowed" ELSE c[p]]

-----------------------------------------------------------------------------
\* The prompt is drawn in place of pages and messages until there is a document;
\* only the next start takes it out of the state.
Starting(l) == [kind |-> "loading", of |-> l, prompt |-> 0]
Prompted == status.prompt # 0 /\ pdf = 0

NoPages ==
    /\ wanted' = {} /\ stack' = <<>> /\ active' = {}
    /\ canvas' = [p \in PageNumbers |-> "none"]
    /\ task' = [p \in PageNumbers |-> 0] /\ rendered' = [p \in PageNumbers |-> FALSE]

PdfInit ==
    /\ loads = <<[stage |-> "opening", cancelled |-> FALSE]>>
    /\ status = Starting(1)
    /\ pdf = 0 /\ opened = {} /\ broken \in SUBSET PageNumbers
    /\ visible = {} /\ skims = {} /\ wanted = {} /\ stack = <<>> /\ active = {}
    /\ canvas = [p \in PageNumbers |-> "none"] /\ task = [p \in PageNumbers |-> 0]
    /\ rendered = [p \in PageNumbers |-> FALSE] /\ runs = [r \in RunIds |-> NoRun]
    /\ overtaken = FALSE /\ scrolls = 0

\* --- loading ----------------------------------------------------------------
\* The effect's cleanup: the loading task is destroyed, and its document with it.
\* Slip: only the document that is shown is.
ClosedIfShown(l) == opened \ {pdf}
ClosedBy(l) == opened \ {l, pdf}
Cancelled(l) == [loads EXCEPT ![l].cancelled = TRUE, ![l].stage = IF @ = "asking" THEN "ended" ELSE @]

\* Its pages unmount: drawings stop, and runs that await their page go on.
Unmounted ==
    /\ NoPages
    /\ runs' = [r \in RunIds |-> IF runs[r].stage = "getting" THEN [runs[r] EXCEPT !.own = FALSE] ELSE NoRun]
    /\ overtaken' = (overtaken \/ \E r \in RunIds : runs[r].stage = "getting")

\* Another source, or a width that outgrows the rendered one.
OpenPdf ==
    /\ Latest < MaxOpens /\ status.kind # "closed"
    /\ loads' = Append(Cancelled(Latest), [stage |-> "opening", cancelled |-> FALSE])
    /\ opened' = ClosedBy(Latest) /\ pdf' = 0
    /\ status' = Starting(Latest + 1)
    /\ Unmounted
    /\ UNCHANGED <<broken, visible, skims, scrolls>>

ClosePdf ==
    /\ status.kind # "closed"
    /\ loads' = Cancelled(Latest)
    /\ opened' = ClosedBy(Latest) /\ pdf' = 0
    /\ status' = [status EXCEPT !.kind = "closed", !.prompt = 0]
    /\ Unmounted
    /\ UNCHANGED <<broken, visible, skims, scrolls>>

\* onPassword looks at nothing: the prompt of a load that was cancelled after
\* pdf.js had sent for a password comes up over the source opened since, and in
\* place of its prompt. No answer to it opens anything.
AskPassword(l) ==
    /\ loads[l].stage = "opening"
    /\ loads' = [loads EXCEPT ![l].stage = IF loads[l].cancelled THEN "ended" ELSE "asking"]
    /\ status' = IF status.kind = "closed" THEN status ELSE [status EXCEPT !.prompt = l]
    /\ UNCHANGED <<pdf, opened, broken, visible, skims, scrolls>> /\ UNCHANGED pageVars

GivePassword(l) ==
    /\ loads[l].stage = "asking" /\ status.prompt = l
    /\ loads' = [loads EXCEPT ![l].stage = "opening"]
    /\ UNCHANGED <<status, pdf, opened, broken, visible, skims, scrolls>> /\ UNCHANGED pageVars

\* loadingTask.promise; that of a destroyed task is refused.
Opened(l) ==
    /\ loads[l].stage = "opening" /\ ~loads[l].cancelled
    /\ loads' = [loads EXCEPT ![l].stage = "describing"]
    /\ opened' = opened \cup {l}
    /\ UNCHANGED <<status, pdf, broken, visible, skims, scrolls>> /\ UNCHANGED pageVars

Described(l) ==
    /\ loads[l].stage = "describing"
    /\ loads' = [loads EXCEPT ![l].stage = "ended"]
    /\ IF loads[l].cancelled THEN opened' = opened \ {l} /\ UNCHANGED <<status, pdf>>
       ELSE status' = [status EXCEPT !.kind = "ready", !.of = l] /\ pdf' = l /\ UNCHANGED opened
    /\ UNCHANGED <<broken, visible, skims, scrolls>> /\ UNCHANGED pageVars

ErrorOf(l) == IF loads[l].cancelled THEN status ELSE [status EXCEPT !.kind = "error", !.of = l]
LoadFails(l) ==
    /\ loads[l].stage \in {"opening", "describing"}
    /\ loads' = [loads EXCEPT ![l].stage = "ended"]
    /\ status' = ErrorOf(l)
    /\ UNCHANGED <<pdf, opened, broken, visible, skims, scrolls>> /\ UNCHANGED pageVars

\* --- scrolling --------------------------------------------------------------
ShouldRender(p) ==
    IF visible = {} THEN p = 1 ELSE \E v \in visible : v - p <= Reach /\ p - v <= Reach

Scrolled == status.kind = "ready" /\ scrolls < MaxScrolls /\ scrolls' = scrolls + 1
\* The intersection observer reports a page in or out of the viewport.
Intersect(p) ==
    /\ Scrolled
    /\ visible' = (visible \ {p}) \cup ({p} \ visible)
    /\ UNCHANGED skims /\ UNCHANGED loadVars /\ UNCHANGED pageVars
\* A scroll event: how fast, so which pages would not stay long enough.
Velocity(s) ==
    /\ Scrolled /\ s # skims
    /\ skims' = s
    /\ UNCHANGED visible /\ UNCHANGED loadVars /\ UNCHANGED pageVars

\* --- a page -----------------------------------------------------------------
Want(p) ==
    /\ status.kind = "ready" /\ p \notin wanted /\ ShouldRender(p) /\ p \notin skims
    /\ wanted' = wanted \cup {p}
    /\ Grant(Asked(p), canvas)
    /\ UNCHANGED <<task, rendered, runs, overtaken, visible, skims, scrolls>> /\ UNCHANGED loadVars

\* The effect's cleanup gives the slot up, the canvas is unmounted and its
\* drawing cancelled.
Unwant(p) ==
    /\ p \in wanted /\ ~(ShouldRender(p) /\ p \notin skims)
    /\ wanted' = wanted \ {p}
    /\ Grant(GivenUp(p), [canvas EXCEPT ![p] = "none"])
    /\ rendered' = [rendered EXCEPT ![p] = @ /\ canvas[p] \notin {"blank", "drawn"}]
    /\ runs' = [r \in RunIds |-> IF r = task[p] THEN NoRun
                                 ELSE IF runs[r].page = p THEN [runs[r] EXCEPT !.own = FALSE] ELSE runs[r]]
    /\ task' = [task EXCEPT ![p] = 0]
    /\ overtaken' = (overtaken \/ \E r \in RunsOf(p) : r # task[p])
    /\ UNCHANGED <<visible, skims, scrolls>> /\ UNCHANGED loadVars

\* The canvas is mounted and renderPage called; it does nothing if a drawing is
\* under way or was finished. Pages are there only while their document is.
Mount(p) ==
    /\ canvas[p] = "allowed"
    /\ canvas' = [canvas EXCEPT ![p] = "blank"]
    /\ IF task[p] # 0 \/ rendered[p] THEN UNCHANGED runs
       ELSE \E r \in RunIds :
              /\ runs[r].stage = "free" /\ \A o \in RunIds : o < r => runs[o].stage # "free"
              /\ runs' = [runs EXCEPT ![r] = [page |-> p, stage |-> "getting", own |-> TRUE, load |-> pdf]]
    /\ UNCHANGED <<wanted, stack, active, task, rendered, overtaken, visible, skims, scrolls>> /\ UNCHANGED loadVars

GetPage(r) ==
    /\ runs[r].stage = "getting" /\ runs[r].load = pdf
    /\ runs' = [runs EXCEPT ![r].stage = "drawing"]
    /\ task' = [task EXCEPT ![runs[r].page] = r]
    /\ UNCHANGED <<wanted, stack, active, canvas, rendered, overtaken, visible, skims, scrolls>> /\ UNCHANGED loadVars

\* What a finished drawing leaves on the canvas.
\* Slip: the canvas is sized once more, which clears it.
CanvasCleared(r) == canvas
CanvasAfter(r) ==
    LET p == runs[r].page IN IF runs[r].own /\ canvas[p] = "blank" THEN [canvas EXCEPT ![p] = "drawn"] ELSE canvas

\* The slot goes back whatever became of the drawing (finally).
\* Slip: a page that cannot be drawn keeps its slot.
SlotIfDrawn(r) == IF runs[r].page \in broken THEN [stack |-> stack, active |-> active, resumed |-> {}]
                  ELSE Freed(runs[r].page, stack)
SlotAfter(r) == Freed(runs[r].page, stack)

EndRun(r) ==
    LET p == runs[r].page
        there == runs[r].load = pdf         \* the page is still mounted for this document
    IN  /\ \/ runs[r].stage = "drawing"
           \/ runs[r].stage = "getting" /\ ~there
        /\ runs' = [runs EXCEPT ![r] = NoRun]
        /\ task' = IF there THEN [task EXCEPT ![p] = 0] ELSE task
        /\ rendered' = IF there /\ p \notin broken THEN [rendered EXCEPT ![p] = TRUE] ELSE rendered
        /\ Grant(SlotAfter(r), IF there /\ p \notin broken THEN CanvasAfter(r) ELSE canvas)
        /\ UNCHANGED <<wanted, overtaken, visible, skims, scrolls>> /\ UNCHANGED loadVars

-----------------------------------------------------------------------------
PageStep(p) == Want(p) \/ Unwant(p) \/ Mount(p)
RunStep(r) == GetPage(r) \/ EndRun(r)
LoadStep(l) == Opened(l) \/ Described(l) \/ LoadFails(l)

PdfNext ==
    \/ OpenPdf \/ ClosePdf
    \/ \E l \in DOMAIN loads : AskPassword(l) \/ GivePassword(l) \/ LoadStep(l)
    \/ \E p \in PageNumbers : Intersect(p) \/ PageStep(p)
    \/ \E s \in SUBSET PageNumbers : Velocity(s)
    \/ \E r \in RunIds : RunStep(r)

\* Effects run, and pdf.js answers.
PdfFairness ==
    /\ \A p \in PageNumbers : WF_pdfVars(PageStep(p))
    /\ \A r \in RunIds : WF_pdfVars(RunStep(r))
    /\ \A l \in 1..MaxOpens : WF_pdfVars(l \in DOMAIN loads /\ LoadStep(l))

PdfSpec == PdfInit /\ [][PdfNext]_pdfVars /\ PdfFairness

-----------------------------------------------------------------------------
\* The shape of the state; a page the viewer holds a request or a slot for is
\* one that asked for it, and no page holds both (PdfViewer.tsx:161-196).
PdfTypeOK ==
    /\ status.kind \in {"loading", "ready", "error", "closed"}
    /\ status.of \in DOMAIN loads /\ status.prompt \in 0..Latest
    /\ pdf \in 0..Latest /\ opened \subseteq DOMAIN loads
    /\ active \subseteq wanted /\ ToSet(stack) \subseteq wanted \ active
    /\ Cardinality(active) <= MaxRenders /\ Len(stack) = Cardinality(ToSet(stack))
    /\ \A p \in PageNumbers : canvas[p] # "none" => p \in wanted

\* A slot is idle only when nothing waits for one, however requests, cancelled
\* requests and finished drawings interleave (PdfViewer.tsx:161-200).
NoIdleSlot == stack # <<>> => Cardinality(active) = MaxRenders

\* Until a run outlives its canvas every slot is held by a page that is about to
\* be drawn or is drawing, so a page that cannot be drawn holds up no other
\* (PdfViewer.tsx:797-805).
SlotsAreInUse ==
    ~overtaken => \A p \in active : canvas[p] = "allowed" \/ \E r \in RunsOf(p) : runs[r].own

\* The loading state is of the latest source, and pages are shown only of its
\* document, while that is open, whatever earlier loads still report
\* (PdfViewer.tsx:362-416).  A prompt may be of an earlier one: see below.
StatusIsOfLatest ==
    /\ status.of = Latest
    /\ status.kind = "ready" => pdf = Latest /\ pdf \in opened

\* Not kept by the code: the prompt shown asks for the latest source's password.
\* One that was under way when its load was cancelled is shown all the same
\* (PdfViewer.tsx:367-373).
PromptIsOfLatest == Prompted => status.prompt = Latest

\* A document is closed when another source is opened or the viewer goes, also
\* one that was opened and whose pages could not be described
\* (PdfViewer.tsx:345-358, 424-428).
AbandonedAreClosed == opened \subseteq {Latest} /\ (status.kind = "closed" => opened = {})

\* Until a run outlives its canvas, a page that stays in reach is drawn, unless
\* it cannot be.
PagesGetDrawn ==
    \A p \in PageNumbers : p \in wanted \ broken ~> p \notin wanted \/ canvas[p] = "drawn" \/ overtaken

\* Loading ends with pages, a message or the source's own request for a password
\* (PdfViewer.tsx:367-416).
LoadingEnds == status.kind = "loading" ~> status.kind # "loading" \/ loads[Latest].stage = "asking"

\* The drawing slots are neither wasted nor lost.
SlotsAreSound == NoIdleSlot /\ SlotsAreInUse

\* Only the latest source is shown and open, however its loads overlap.
SourceIsLatest == StatusIsOfLatest /\ AbandonedAreClosed
=============================================================================
