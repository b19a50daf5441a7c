---------------------------- MODULE ClientDesktop ----------------------------
\* The desk view of a folder (desktop/): the cards of its documents, dragged by
\* mouse or fingers, kept in stacking order, and the layout kept in the browser's
\* database. Each folder's desk is a store of its own, made when the view is
\* mounted (DocumentsPanel.tsx:233 keys it by the folder); search results have a
\* desk whose layout is not kept. Places are on one line and cards of one size;
\* rotation only shows as a physics loop that may go on after the release.
\* A document held, or in a group that is dragged, does not leave the listing.
EXTENDS Integers, FiniteSets, Sequences, Functions
CONSTANTS Papers, Views, Pointers, NoPaper, NoPointer,
          MaxPlace,      \* the last place of the widest desk
          MaxMounts, MaxRequests, MaxDeskActs  \* bounds of the exploration
ASSUME DeskConstants ==
    /\ IsFiniteSet(Papers) /\ NoPaper \notin Papers /\ NoPointer \notin Pointers
    /\ Views \cap {"search", "closed"} = {}
    /\ MaxPlace \in Nat /\ MaxMounts \in Nat /\ MaxRequests \in Nat /\ MaxDeskActs \in Nat
VARIABLES desk,          \* the view on show, the search or no desk at all
          mounts,        \* how many desks were opened: the store in use
          container,     \* how many places fit; 0 until measured
          layout,        \* isLayoutLoaded and isLayoutReady
          items,         \* the documents listed
          cards,         \* LayoutStore.items, each with its CardPhysics and pointer state
          counter,       \* zCounter
          savedLayouts,  \* what was read when the desk was opened
          picked,        \* the selected documents, lowest first
          pointers,      \* activePointersRef: the card under each, or none
          kept,          \* IndexedDB: the records of each view
          requests,      \* its transactions under way, in order
          unread,        \* a read has failed
          puts,          \* history: where each document was put in each view
          lifted,        \* history: a finger was lifted off a card of this desk and drags it still
          deskActs
deskVars == <<desk, mounts, container, layout, items, cards, counter, savedLayouts, picked,
              pointers, kept, requests, unread, puts, lifted, deskActs>>
storageVars == <<kept, requests, unread>>

Spots == 0..MaxPlace
Closed == "closed"
SearchDesk == "search"
NoRecords == <<>>
DeskTypeOK ==
    /\ desk \in Views \cup {SearchDesk, Closed} /\ mounts \in 0..MaxMounts
    /\ container \in 0..(MaxPlace + 1) /\ layout \in {"loading", "loaded", "ready"}
    /\ items \subseteq Papers /\ DOMAIN cards \subseteq Papers
    /\ \A c \in DOMAIN cards :
          /\ cards[c].at \in Spots /\ cards[c].intended \in Spots
          /\ cards[c].z \in Nat /\ cards[c].dirty \in BOOLEAN /\ cards[c].loop \in BOOLEAN
          /\ cards[c].by \in Pointers \cup {NoPointer} /\ cards[c].leader \in Papers \cup {NoPaper}
          /\ cards[c].followers \subseteq Papers /\ cards[c].delta \in {-1, 0, 1}
          /\ cards[c].mode \in {"idle", "click", "armed", "drag"}
    /\ counter \in Nat /\ DOMAIN savedLayouts \subseteq Papers
    /\ Range(picked) \subseteq Papers /\ DOMAIN pointers \subseteq Pointers
    /\ \A p \in DOMAIN pointers : pointers[p] \in Papers \cup {NoPaper}
    /\ \A v \in Views : \A c \in DOMAIN kept[v] : kept[v][c].at \in Spots /\ kept[v][c].z \in Nat
    /\ unread \in BOOLEAN /\ lifted \in BOOLEAN /\ deskActs \in 0..MaxDeskActs

\* ------------------------------------------------------------- the cards
Least(a, b) == IF a < b THEN a ELSE b
\* Slip: a card dragged past the left edge stays there.
RightEdgeOnly(x, width) == Least(x, width - 1)
Constrain(x, width) == LET right == Least(x, width - 1) IN IF right < 0 THEN 0 ELSE right

NewCard(place, z, dirty) ==
    [at |-> place, intended |-> place, z |-> z, dirty |-> dirty, by |-> NoPointer, loop |-> FALSE,
     leader |-> NoPaper, followers |-> {}, delta |-> 0, mode |-> "idle"]
MovedTo(card, place) == [card EXCEPT !.at = place, !.intended = place, !.dirty = TRUE]
Relayout(cs, width) == [c \in DOMAIN cs |-> [cs[c] EXCEPT !.at = Constrain(cs[c].intended, width)]]

StackBelow(c) == {o \in DOMAIN cards \ {c} : cards[o].at = cards[c].at /\ cards[o].z < cards[c].z}
ToFront(cs, ids) ==
    [c \in DOMAIN cs |-> IF c \notin ids THEN cs[c]
        ELSE [cs[c] EXCEPT !.z = counter + Cardinality({o \in ids \cap DOMAIN cs : cs[o].z < cs[c].z}),
                           !.dirty = TRUE]]
\* The orders of a selection, lowest first; a document without a card is below all.
Height(c) == IF c \in DOMAIN cards THEN cards[c].z ELSE -1
ByHeight(ids) ==
    {s \in [1..Cardinality(ids) -> ids] :
        Range(s) = ids /\ \A i, j \in DOMAIN s : i < j => Height(s[i]) <= Height(s[j])}

\* ----------------------------------------------------------- drag groups
Halt(cs, l) ==
    LET freed == [c \in DOMAIN cs |-> IF c \in cs[l].followers THEN [cs[c] EXCEPT !.leader = NoPaper] ELSE cs[c]]
    IN  [freed EXCEPT ![l].loop = FALSE, ![l].followers = {}]
RemoveFollower(cs, c) ==
    IF cs[c].leader = NoPaper THEN cs
    ELSE [cs EXCEPT ![cs[c].leader].followers = @ \ {c}, ![c].leader = NoPaper]
\* Slip: a follower taken by a finger of its own stays with its leader.
BeginAttached(cs, l, p) == [Halt(cs, l) EXCEPT ![l].by = p, ![l].loop = TRUE]
BeginDrag(cs, l, p) == [Halt(RemoveFollower(cs, l), l) EXCEPT ![l].by = p, ![l].loop = TRUE]
FinishDrag(cs, p) == [c \in DOMAIN cs |-> IF cs[c].by = p THEN [cs[c] EXCEPT !.by = NoPointer] ELSE cs[c]]
SnapTo(card, l, place) == [MovedTo(card, place) EXCEPT !.loop = FALSE, !.followers = {}, !.leader = l]
AddFollowers(card, ids) == [card EXCEPT !.followers = @ \cup ids]
\* The cards are stopped and join the leader one after the other: one that is
\* stopped frees those it led, also if they have joined already.
Turns == {turn \in [Papers -> 1..Cardinality(Papers)] : \A c, d \in Papers : turn[c] = turn[d] => c = d}
Attach(cs, l, ids, turn) ==
    LET joined == [c \in DOMAIN cs |-> IF c \in ids THEN SnapTo(cs[c], l, cs[l].at)
                                       ELSE IF c = l THEN AddFollowers(cs[c], ids) ELSE cs[c]]
        freed == {c \in DOMAIN cs : \E o \in ids : c \in cs[o].followers /\ (c \in ids => turn[c] < turn[o])}
    IN  [c \in DOMAIN cs |-> IF c \in freed THEN [joined[c] EXCEPT !.leader = NoPaper] ELSE joined[c]]
AttachToGroup(cs, ids, l, turn) == Attach(cs, l, {c \in (ids \cap DOMAIN cs) \ {l} : cs[c].by = NoPointer}, turn)
DragStart(cs, ids, l, p, turn) ==
    LET begun == BeginDrag(cs, l, p)
    IN  Attach(begun, l, {c \in (ids \cap DOMAIN cs) \ {l} : begun[c].by \in {NoPointer, p}}, turn)

\* ------------------------------------------------------------ the storage
\* saveLayout: what is dirty is written, unless the view has no layout of its own.
SaveLayout(cs) ==
    LET dirty == {c \in DOMAIN cs : cs[c].dirty}
    IN  IF desk \notin Views \/ dirty = {} THEN requests' = requests
        ELSE requests' = Append(requests,
                 [kind |-> "write", view |-> desk, of |-> mounts,
                  entries |-> [c \in dirty |-> [at |-> cs[c].intended, z |-> cs[c].z]]])
RoomToSave == Len(requests) < MaxRequests
PutHere(cs, ids) ==
    puts' = IF desk \notin Views THEN puts
            ELSE [puts EXCEPT ![desk] = [c \in Papers |-> IF c \in ids \cap DOMAIN cs THEN @[c] \cup {cs[c].intended} ELSE @[c]]]

\* Slip: new cards are numbered as on a desk never seen before.
CounterFromScratch(records) == {counter}
CounterAfter(records) ==
    LET above == {records[c].z + 1 : c \in DOMAIN records} \cup {counter}
    IN  {n \in above : \A o \in above : o <= n}
\* loadLayout once the records are read.
LoadLayout(records) ==
    /\ savedLayouts' = records /\ counter' \in CounterAfter(records) /\ layout' = "loaded"
    /\ cards' = Relayout([c \in DOMAIN cards |-> IF c \notin DOMAIN records THEN cards[c]
                   ELSE [cards[c] EXCEPT !.at = records[c].at, !.intended = records[c].at, !.z = records[c].z]], container)
Read(request) ==
    \/ LoadLayout(kept[request.view]) /\ unread' = unread
    \/ LoadLayout(NoRecords) /\ unread' = TRUE
FetchRecords ==
    /\ requests # <<>> /\ Head(requests).kind = "read" /\ requests' = Tail(requests)
    /\ IF Head(requests).of = mounts /\ desk # Closed THEN Read(Head(requests))
       ELSE UNCHANGED <<savedLayouts, counter, layout, cards, unread>>
    /\ UNCHANGED <<desk, mounts, container, items, picked, pointers, kept, puts, lifted, deskActs>>
\* The save's cards are clean once it is over, written or not.
Cleaned(request) ==
    IF request.of # mounts THEN cards
    ELSE [c \in DOMAIN cards |-> IF c \in DOMAIN request.entries THEN [cards[c] EXCEPT !.dirty = FALSE] ELSE cards[c]]
Upserted(records, entries) ==
    [c \in DOMAIN records \cup DOMAIN entries |-> IF c \in DOMAIN entries THEN entries[c] ELSE records[c]]
UpsertRecords ==
    /\ requests # <<>> /\ Head(requests).kind = "write" /\ requests' = Tail(requests)
    /\ cards' = Cleaned(Head(requests))
    /\ \/ kept' = [kept EXCEPT ![Head(requests).view] = Upserted(@, Head(requests).entries)]
       \/ kept' = kept
    /\ UNCHANGED <<desk, mounts, container, layout, items, counter, savedLayouts, picked, pointers, unread, puts, lifted, deskActs>>

\* --------------------------------------------------------------- the desk
FreshStore == cards' = <<>> /\ counter' = 0 /\ lifted' = FALSE
OpenDesk(v) ==
    /\ mounts < MaxMounts /\ RoomToSave /\ mounts' = mounts + 1 /\ desk' = v
    /\ FreshStore /\ savedLayouts' = NoRecords /\ picked' = <<>> /\ pointers' = <<>> /\ container' = 0
    /\ items' \in (SUBSET Papers) \ {{}}
    /\ IF v \in Views
       THEN layout' = "loading" /\ requests' = Append(requests, [kind |-> "read", view |-> v, of |-> mounts + 1])
       ELSE layout' = "loaded" /\ requests' = requests
    /\ UNCHANGED <<kept, unread, puts, deskActs>>
CloseDesk ==
    /\ desk # Closed /\ desk' = Closed /\ items' = {} /\ cards' = <<>> /\ picked' = <<>> /\ pointers' = <<>>
    /\ UNCHANGED <<mounts, container, layout, counter, savedLayouts, puts, lifted, deskActs, storageVars>>
SetContainerSize(width) ==
    /\ desk # Closed /\ container' = width /\ cards' = Relayout(cards, width)
    /\ UNCHANGED <<desk, mounts, layout, items, counter, savedLayouts, picked, pointers, puts, lifted, storageVars>>
Measured == container = 0 /\ (\E w \in 1..(MaxPlace + 1) : SetContainerSize(w)) /\ deskActs' = deskActs

\* The cards follow the listing: those saved first, then the new ones, where there is room.
Enforced(cs, width) == Relayout(cs, width)
PlaceCards ==
    /\ desk # Closed /\ container > 0 /\ layout # "loading" /\ (layout = "loaded" \/ DOMAIN cards # items)
    /\ RoomToSave
    /\ \E spot \in [items \ (DOMAIN cards \cup DOMAIN savedLayouts) -> 0..(container - 1)],
          rank \in [items \ (DOMAIN cards \cup DOMAIN savedLayouts) -> 0..(Cardinality(Papers) - 1)] :
          LET new == DOMAIN spot
              known == {savedLayouts[c].z + 1 : c \in (items \cap DOMAIN savedLayouts) \ DOMAIN cards}
              free == CHOOSE n \in known \cup {counter} : \A o \in known \cup {counter} : o <= n
              placed == [c \in items |->
                            IF c \in DOMAIN cards THEN [cards[c] EXCEPT !.followers = @ \cap items]
                            ELSE IF c \in DOMAIN savedLayouts THEN NewCard(savedLayouts[c].at, savedLayouts[c].z, FALSE)
                            ELSE NewCard(spot[c], free + rank[c], TRUE)]
          IN  /\ \A c, d \in new : rank[c] < Cardinality(new) /\ (rank[c] = rank[d] => c = d)
              /\ counter' = free + Cardinality(new)
              /\ cards' = Enforced(placed, container)
              /\ PutHere(placed, new)
              /\ IF items \subseteq DOMAIN savedLayouts THEN requests' = requests ELSE SaveLayout(placed)
    /\ layout' = "ready"
    /\ UNCHANGED <<desk, mounts, container, items, savedLayouts, picked, pointers, kept, unread, lifted, deskActs>>

\* ------------------------------------------------------------ the pointers
Held(c) == \E p \in DOMAIN pointers : pointers[p] = c
Onto(p, c) == p \in DOMAIN pointers /\ pointers[p] = c /\ c \in DOMAIN cards
MultiTouch == Cardinality(DOMAIN pointers) > 1
With(p, c) == [q \in DOMAIN pointers \cup {p} |-> IF q = p THEN c ELSE pointers[q]]
Without(p) == [q \in DOMAIN pointers \ {p} |-> pointers[q]]
Unpicked(c) == (IF c \in Range(picked) THEN {} ELSE {c}) \cup (StackBelow(c) \ Range(picked))
ShownVars == <<desk, mounts, container, layout, items, savedLayouts, kept, unread>>
PointerVars == <<ShownVars, lifted>>
PointerDown(p, c) ==
    /\ layout = "ready" /\ p \notin DOMAIN pointers /\ c \in DOMAIN cards /\ DOMAIN cards \subseteq items
    /\ pointers' = With(p, c) /\ cards' = [cards EXCEPT ![c].mode = "click"]
    /\ UNCHANGED <<counter, picked, requests, puts, PointerVars>>
CanvasDown(p) ==
    /\ desk # Closed /\ p \notin DOMAIN pointers
    /\ pointers' = With(p, NoPaper) /\ picked' = <<>>
    /\ UNCHANGED <<cards, counter, requests, puts, PointerVars>>
CanvasUp(p) ==
    /\ p \in DOMAIN pointers /\ pointers[p] = NoPaper /\ pointers' = Without(p)
    /\ UNCHANGED <<cards, counter, picked, requests, puts, deskActs, PointerVars>>
PastThreshold(p) ==
    /\ \E c \in DOMAIN cards : Onto(p, c) /\ cards[c].mode = "click" /\ cards' = [cards EXCEPT ![c].mode = "armed"]
    /\ UNCHANGED <<counter, picked, pointers, requests, puts, deskActs, PointerVars>>
\* A touch held for half a second takes the stack, into the group another finger drags.
LongPress(p) ==
    /\ \E c \in DOMAIN cards :
          /\ Onto(p, c) /\ cards[c].mode = "click" /\ Unpicked(c) # {}
          /\ picked' \in ByHeight((Range(picked) \cap DOMAIN cards) \cup Unpicked(c))
          /\ LET leaders == {l \in DOMAIN cards : cards[l].by # NoPointer /\ \E q \in DOMAIN pointers \ {p} : pointers[q] = l}
             IN  IF leaders = {} THEN UNCHANGED <<cards, puts>>
                 ELSE \E l \in leaders, turn \in Turns :
                         cards' = AttachToGroup(cards, Unpicked(c), l, turn) /\ PutHere(cards', Unpicked(c))
    /\ UNCHANGED <<counter, pointers, requests, deskActs, PointerVars>>
StartDrag(p, modifier) ==
    /\ \E c \in DOMAIN cards :
          /\ Onto(p, c) /\ cards[c].mode = "armed"
          /\ LET extend == modifier \/ MultiTouch
                 taken == IF extend THEN Range(picked) \cup Unpicked(c)
                          ELSE IF c \in Range(picked) THEN Range(picked) ELSE {c}
             IN  /\ IF taken = Range(picked) THEN picked' = picked ELSE picked' \in ByHeight(taken)
                 /\ \E turn \in Turns :
                       cards' = [DragStart(ToFront(cards, taken), taken, c, p, turn) EXCEPT ![c].mode = "drag"]
                 /\ counter' = counter + Cardinality(taken \cap DOMAIN cards) /\ PutHere(cards', taken \ {c})
    /\ UNCHANGED <<pointers, requests, deskActs, PointerVars>>
DragMove(p, dx) ==
    /\ \E c \in DOMAIN cards : Onto(p, c) /\ cards[c].mode = "drag"
    /\ \E c \in DOMAIN cards : cards[c].by = p
    /\ \A c \in DOMAIN cards : cards[c].by = p => cards[c].delta = 0
    /\ cards' = [c \in DOMAIN cards |-> IF cards[c].by = p THEN [cards[c] EXCEPT !.delta = dx] ELSE cards[c]]
    /\ UNCHANGED <<counter, picked, pointers, requests, puts, deskActs, PointerVars>>
\* One frame of a loop: the card and its followers move, and are to be saved.
PhysicsTick(c) ==
    /\ c \in DOMAIN cards /\ cards[c].loop
    /\ LET place == Constrain(cards[c].at + cards[c].delta, container)
           group == {c} \cup cards[c].followers
       IN  /\ cards' = [d \in DOMAIN cards |-> IF d \in group THEN [MovedTo(cards[d], place) EXCEPT !.delta = IF d = c THEN 0 ELSE @]
                                               ELSE cards[d]]
           /\ PutHere(cards', group)
    /\ UNCHANGED <<counter, picked, pointers, requests, deskActs, PointerVars>>
\* A loop nobody drags ends once its card has come to rest.
PhysicsRests(c) ==
    /\ c \in DOMAIN cards /\ cards[c].loop /\ cards[c].by = NoPointer
    /\ \E turned \in BOOLEAN :
          cards' = [Halt(cards, c) EXCEPT ![c].delta = 0, ![c].dirty = @ \/ turned]
    /\ UNCHANGED <<counter, picked, pointers, requests, puts, deskActs, PointerVars>>
EndDrag(c, p) ==
    /\ cards' = [FinishDrag(cards, p) EXCEPT ![c].mode = "idle"] /\ SaveLayout(cards)
    /\ UNCHANGED <<counter, picked>>
Click(c, modifier) ==
    LET extend == modifier \/ MultiTouch
        selected == c \in Range(picked)
        front == ~selected /\ ~extend
    IN  /\ IF selected /\ ~extend THEN picked' = picked
           ELSE picked' \in ByHeight(IF selected THEN Range(picked) \ {c} ELSE IF extend THEN Range(picked) \cup {c} ELSE {c})
        /\ cards' = [cards EXCEPT ![c].mode = "idle", ![c].z = IF front THEN counter ELSE @]
        /\ counter' = counter + (IF front THEN 1 ELSE 0) /\ requests' = requests
PointerUp(p, modifier) ==
    /\ RoomToSave
    /\ \E c \in DOMAIN cards : Onto(p, c)
          /\ \/ cards[c].mode \in {"armed", "drag"} /\ EndDrag(c, p)
             \/ cards[c].mode = "click" /\ Click(c, modifier)
             \/ cards[c].mode = "idle" /\ UNCHANGED <<cards, counter, picked, requests>>
    /\ pointers' = Without(p)
    /\ lifted' = (lifted \/ \E c \in DOMAIN cards : cards'[c].by = p)
    /\ UNCHANGED <<puts, deskActs, ShownVars>>
PointerCancel(p) ==
    /\ RoomToSave /\ (\E c \in DOMAIN cards : Onto(p, c) /\ EndDrag(c, p))
    /\ pointers' = Without(p) /\ UNCHANGED <<puts, deskActs, PointerVars>>

\* An arrow key goes from the last card selected to one that way, or takes the top one.
Arrow(way, extend) ==
    /\ layout = "ready" /\ DOMAIN cards # {}
    /\ LET last == IF picked = <<>> THEN NoPaper ELSE picked[Len(picked)]
       IN  IF last \notin DOMAIN cards
           THEN \E top \in DOMAIN cards : picked' = <<top>> /\ \A o \in DOMAIN cards : cards[o].z <= cards[top].z
           ELSE \E c \in DOMAIN cards : (cards[c].at - cards[last].at) * way > 0
                   /\ IF extend THEN picked' \in ByHeight((Range(picked) \cap DOMAIN cards) \cup {c}) ELSE picked' = <<c>>
    /\ UNCHANGED <<cards, counter, pointers, requests, puts, PointerVars>>

\* The listing gains or loses a document.
Arrive(d) ==
    /\ desk # Closed /\ items' = items \cup {d}
    /\ UNCHANGED <<desk, mounts, container, layout, cards, counter, savedLayouts, picked, pointers, puts, lifted, storageVars>>
Leave(d) ==
    /\ desk # Closed /\ d \in items /\ items # {d} /\ items' = items \ {d}
    /\ ~Held(d) /\ (d \in DOMAIN cards => ~cards[d].loop /\ cards[d].leader = NoPaper /\ cards[d].followers = {})
    /\ UNCHANGED <<desk, mounts, container, layout, cards, counter, savedLayouts, picked, pointers, puts, lifted, storageVars>>

DeskInit ==
    /\ desk = Closed /\ mounts = 0 /\ container = 0 /\ layout = "loading" /\ items = {} /\ cards = <<>>
    /\ counter = 0 /\ savedLayouts = NoRecords /\ picked = <<>> /\ pointers = <<>> /\ requests = <<>> /\ unread = FALSE /\ lifted = FALSE
    /\ \E had \in SUBSET Papers : \E at \in [had -> Spots], z \in [had -> 0..(Cardinality(Papers) - 1)] :
          /\ \A c, d \in had : z[c] = z[d] => c = d
          /\ kept = [v \in Views |-> IF v = CHOOSE w \in Views : TRUE
                                       THEN [c \in had |-> [at |-> at[c], z |-> z[c]]] ELSE NoRecords]
    /\ puts = [v \in Views |-> [c \in Papers |-> IF c \in DOMAIN kept[v] THEN {kept[v][c].at} ELSE {}]]
    /\ deskActs = 0
DeskActs ==
    /\ deskActs < MaxDeskActs /\ deskActs' = deskActs + 1
    /\ \/ container > 0 /\ \E w \in (1..(MaxPlace + 1)) \ {container} : SetContainerSize(w)
       \/ \E p \in Pointers : CanvasDown(p) \/ \E c \in Papers : PointerDown(p, c)
       \/ \E way \in {-1, 1}, extend \in BOOLEAN : Arrow(way, extend)
       \/ \E d \in Papers : Arrive(d) \/ Leave(d)
DeskPointers ==
    \E p \in Pointers :
        \/ CanvasUp(p) \/ PastThreshold(p) \/ LongPress(p) \/ PointerCancel(p)
        \/ \E modifier \in BOOLEAN : StartDrag(p, modifier) \/ PointerUp(p, modifier)
        \/ \E dx \in {-1, 1} : DragMove(p, dx)
DeskNext ==
    \/ CloseDesk \/ Measured \/ FetchRecords \/ UpsertRecords \/ PlaceCards
    \/ \E v \in Views \cup {SearchDesk} : OpenDesk(v)
    \/ \E c \in Papers : PhysicsTick(c) \/ PhysicsRests(c)
    \/ DeskActs \/ DeskPointers
\* A desk is measured when it is laid out, the database answers, effects run.
DeskFairness == WF_deskVars(Measured) /\ WF_deskVars(FetchRecords \/ UpsertRecords) /\ WF_deskVars(PlaceCards)
DeskSpec == DeskInit /\ [][DeskNext]_deskVars /\ DeskFairness

\* ----------------------------------------------------------- properties
\* The drag groups hold together whatever the fingers do (CardPhysics, CardDragLogic):
\* a card that follows is one of its leader's followers, and no other finger drags
\* it. As long as no finger was lifted off a card without ending its drag (one that
\* another finger touched meanwhile: the state of useCardPointer.ts:20 is one for
\* each card), it is not dragged itself, and its leader follows nobody: else a
\* frame of one loop would move a card another one moves.
GroupsAreSound ==
    \A c \in DOMAIN cards : cards[c].leader # NoPaper =>
        LET l == cards[c].leader
        IN  /\ l \in DOMAIN cards /\ c \in cards[l].followers /\ cards[c].by \in {NoPointer, cards[l].by}
            /\ ~lifted => cards[c].by = NoPointer /\ cards[l].leader = NoPaper
\* No two cards lie at the same height and the next one brought to the front is
\* above all, across drags, clicks that are not saved, listings that change and desks
\* opened again from what was kept (loadLayout raises zCounter above every record,
\* shown or not), as long as no layout failed to be read.
StackingIsStrict ==
    ~unread => \A c \in DOMAIN cards : cards[c].z < counter /\ \A d \in DOMAIN cards \ {c} : cards[d].z # cards[c].z
\* Every card of a desk on show is on it, after any resize, any drag and any layout
\* kept from a wider window (relayout).
CardsAreOnTheDesk == layout = "ready" => \A c \in DOMAIN cards : cards[c].at < container
\* A layout kept for a view only says where its documents were put in that view: a
\* card that a small window moved in is kept where it was meant to be, and another
\* view's cards are never written (intendedX, one store for each folder).
StoredWhereItWasPut == \A v \in Views : \A c \in DOMAIN kept[v] : kept[v][c].at \in puts[v][c]
\* The desk the user stays on is shown in the end, also when its layout cannot be
\* read (fetchLayoutRecords answers with none).
DeskIsShown == desk # Closed ~> (layout = "ready" \/ desk = Closed)
\* What is on the desk and what is kept of it, across drags, resizes, changed
\* listings and desks opened again (LayoutSystem.ts).
LayoutsAreSound == StackingIsStrict /\ CardsAreOnTheDesk /\ StoredWhereItWasPut
=============================================================================
