-------------------------- MODULE ClientWorkspaceProofs --------------------------
(***************************************************************************)
(* The desk of the client, for any number of documents, views and fingers, *)
(* desks of any width and any number of desks opened: proofs about         *)
(* ClientDesktop. With those of ClientRequestsProofs they give what stays  *)
(* true of MCClientWorkspace, where the session, the documents, the        *)
(* folders and the desk are put together.                                  *)
(***************************************************************************)
EXTENDS MCClientWorkspace, ClientRequestsProofs, FiniteSetTheorems


Record == [at : Spots, z : Nat]
Records == UNION {[S -> Record] : S \in SUBSET Papers}
Card == [at : Spots, intended : Spots, z : Nat, dirty : BOOLEAN, by : Pointers \cup {NoPointer}, loop : BOOLEAN,
         leader : Papers \cup {NoPaper}, followers : SUBSET Papers, delta : {-1, 0, 1},
         mode : {"idle", "click", "armed", "drag"}]
ReadRequest == [kind : {"read"}, view : Views, of : Nat]
WriteRequest == [kind : {"write"}, view : Views, of : Nat, entries : Records]
Shown == Views \cup {SearchDesk}

CardsOK(cs) == DOMAIN cs \subseteq Papers /\ \A c \in DOMAIN cs : cs[c] \in Card
RecordsOK(rs) == DOMAIN rs \subseteq Papers /\ \A c \in DOMAIN rs : rs[c] \in Record
DeskTypes ==
  /\ DeskTypeOK /\ CardsOK(cards) /\ RecordsOK(savedLayouts)
  /\ DOMAIN kept = Views /\ \A v \in Views : RecordsOK(kept[v])
  /\ puts \in [Views -> [Papers -> SUBSET Spots]]
  /\ requests \in Seq(ReadRequest \cup WriteRequest)

\* The reads under way.
ReadsHere(i) == requests[i].kind = "read" /\ requests[i].of = mounts
LoadInv ==
  /\ \A i \in 1..Len(requests) : requests[i].of <= mounts
  /\ desk = Closed => DOMAIN cards = {}
  /\ desk # Closed /\ layout = "loading" =>
       /\ desk \in Views /\ DOMAIN cards = {} /\ requests # <<>>
       /\ ReadsHere(Len(requests)) /\ requests[Len(requests)].view = desk
       /\ \A i \in 1..Len(requests) : ReadsHere(i) => i = Len(requests)
  /\ desk # Closed /\ layout # "loading" => \A i \in 1..Len(requests) : ~ReadsHere(i)
  /\ desk = SearchDesk => DOMAIN savedLayouts = {}

\* The groups of the cards.
Grouped(cs) ==
  \A c \in DOMAIN cs : cs[c].leader # NoPaper =>
     /\ cs[c].leader \in DOMAIN cs /\ c \in cs[cs[c].leader].followers
     /\ cs[c].by \in {NoPointer, cs[cs[c].leader].by}
LeadersIn(cs, its) == \A c \in DOMAIN cs : cs[c].followers # {} => c \in its
Plain(cs, ps) ==
  \A c \in DOMAIN cs :
     /\ cs[c].by # NoPointer => cs[c].by \in DOMAIN ps /\ ps[cs[c].by] = c
     /\ cs[c].leader # NoPaper => cs[c].by = NoPointer /\ cs[cs[c].leader].leader = NoPaper
GroupInv ==
  /\ Grouped(cards) /\ LeadersIn(cards, items) /\ (~lifted => Plain(cards, pointers))
  /\ \A p \in DOMAIN pointers : pointers[p] # NoPaper => pointers[p] \in items

\* Where documents were put.
PutWhere(v, rs) == \A c \in DOMAIN rs : rs[c].at \in puts[v][c]
PlaceInv ==
  /\ layout = "ready" => container > 0 /\ \A c \in DOMAIN cards : cards[c].at < container
  /\ \A v \in Views : PutWhere(v, kept[v])
  /\ \A i \in 1..Len(requests) : requests[i].kind = "write" => PutWhere(requests[i].view, requests[i].entries)
  /\ desk \in Views => PutWhere(desk, savedLayouts) /\ \A c \in DOMAIN cards : cards[c].intended \in puts[desk][c]

\* The heights a document has in a view: kept, under way, or on show.
Written(v, c, z) ==
  \/ v \in Views /\ c \in DOMAIN kept[v] /\ kept[v][c].z = z
  \/ \E i \in 1..Len(requests) : /\ requests[i].kind = "write" /\ requests[i].view = v
                                 /\ c \in DOMAIN requests[i].entries /\ requests[i].entries[c].z = z
OnShow(c, z) ==
  \/ c \in DOMAIN cards /\ cards[c].z = z
  \/ c \in DOMAIN savedLayouts /\ savedLayouts[c].z = z
HasHeight(v, c, z) == Written(v, c, z) \/ (v = desk /\ OnShow(c, z))
Apart == \A v \in Shown, c, d \in Papers, z \in Nat : HasHeight(v, c, z) /\ HasHeight(v, d, z) => c = d
Below == \A c \in Papers, z \in Nat : HasHeight(desk, c, z) => z < counter
HeightInv ==
  /\ desk # Closed /\ layout # "loading" => \A c \in DOMAIN savedLayouts : savedLayouts[c].z < counter
  /\ ~unread => Apart /\ (desk # Closed /\ layout # "loading" => Below)

DeskIInv == DeskTypes /\ LoadInv /\ GroupInv /\ PlaceInv /\ HeightInv

ReqTypes == ReadRequest \cup WriteRequest
\* What a step may add to the requests: what of cs is to be saved.
Entered(w, cs) ==
  /\ w \in WriteRequest /\ w.view = desk /\ w.of = mounts /\ DOMAIN w.entries # {}
  /\ \A c \in DOMAIN w.entries : c \in DOMAIN cs /\ w.entries[c] = [at |-> cs[c].intended, z |-> cs[c].z]
Saves(cs) == requests' = requests \/ (desk \in Views /\ \E w \in WriteRequest : Entered(w, cs) /\ requests' = Append(requests, w))

LEMMA SaveLayoutSaves ==
  ASSUME DeskTypes, NEW cs, CardsOK(cs), SaveLayout(cs)
  PROVE  Saves(cs)
<1>1. PICK dirty : dirty = {c \in DOMAIN cs : cs[c].dirty}
  OBVIOUS
<1>2. CASE desk \notin Views \/ dirty = {}
  BY <1>1, <1>2 DEF SaveLayout, Saves
<1>3. CASE desk \in Views /\ dirty # {}
  <2>1. PICK es : es = [c \in dirty |-> [at |-> cs[c].intended, z |-> cs[c].z]]
    OBVIOUS
  <2>2. PICK w : w = [kind |-> "write", view |-> desk, of |-> mounts, entries |-> es]
    OBVIOUS
  <2>3. requests' = Append(requests, w)
    BY <1>1, <1>3, <2>1, <2>2 DEF SaveLayout
  <2>4. DOMAIN es = dirty /\ dirty \subseteq Papers /\ \A c \in dirty : es[c] = [at |-> cs[c].intended, z |-> cs[c].z]
    BY <1>1, <2>1 DEF CardsOK
  <2>5. \A c \in dirty : [at |-> cs[c].intended, z |-> cs[c].z] \in Record
    BY <1>1 DEF CardsOK, Card, Record
  <2>6. es \in [dirty -> Record]
    BY <2>1, <2>5
  <2>7. es \in Records
    BY <2>4, <2>6 DEF Records
  <2>8. mounts \in Nat
    BY DeskConstants DEF DeskTypes, DeskTypeOK
  <2>9. w \in WriteRequest /\ w.view = desk /\ w.of = mounts /\ w.entries = es
    BY <1>3, <2>2, <2>7, <2>8 DEF WriteRequest
  <2>10. Entered(w, cs)
    BY <1>1, <1>3, <2>4, <2>9 DEF Entered
  <2> QED BY <1>3, <2>3, <2>9, <2>10 DEF Saves
<1> QED BY <1>2, <1>3

LEMMA EntriesOK ==
  ASSUME NEW w \in WriteRequest
  PROVE  w.kind = "write" /\ w.view \in Views /\ w.of \in Nat /\ RecordsOK(w.entries)
<1>1. w.kind = "write" /\ w.view \in Views /\ w.of \in Nat /\ w.entries \in Records
  BY DEF WriteRequest
<1>2. PICK S \in SUBSET Papers : w.entries \in [S -> Record]
  BY <1>1 DEF Records
<1> QED BY <1>1, <1>2 DEF RecordsOK

\* The requests after a step that saves cs: those there were, and one that says
\* what cs says.
LEMMA QueueGrows ==
  ASSUME DeskTypes, NEW cs, Saves(cs)
  PROVE  /\ requests' \in Seq(ReqTypes)
         /\ \A i \in 1..Len(requests') :
              \/ i \in 1..Len(requests) /\ requests'[i] = requests[i]
              \/ desk \in Views /\ Entered(requests'[i], cs) /\ i = Len(requests) + 1
         /\ Len(requests') = Len(requests) \/ (Len(requests') = Len(requests) + 1 /\ \E c \in DOMAIN cs : TRUE)
         /\ \A i \in 1..Len(requests) : requests'[i] = requests[i]
<1>1. requests \in Seq(ReqTypes)
  BY DEF DeskTypes, ReqTypes
<1>2. CASE requests' = requests
  BY <1>1, <1>2
<1>3. CASE desk \in Views /\ \E w \in WriteRequest : Entered(w, cs) /\ requests' = Append(requests, w)
  <2>1. PICK w \in WriteRequest : Entered(w, cs) /\ requests' = Append(requests, w)
    BY <1>3
  <2>2. w \in ReqTypes
    BY DEF ReqTypes
  <2>3. /\ requests' \in Seq(ReqTypes) /\ Len(requests') = Len(requests) + 1
        /\ requests'[Len(requests) + 1] = w
        /\ \A i \in 1..Len(requests) : requests'[i] = requests[i]
    BY <1>1, <2>1, <2>2
  <2>4. \A i \in 1..Len(requests') : i \in 1..Len(requests) \/ i = Len(requests) + 1
    BY <1>1, <2>3
  <2>5. \E c \in DOMAIN cs : TRUE
    BY <2>1 DEF Entered
  <2> QED BY <1>3, <2>1, <2>3, <2>4, <2>5
<1> QED BY <1>2, <1>3 DEF Saves

LEMMA WrittenGrows ==
  ASSUME DeskTypes, NEW cs, Saves(cs), kept' = kept, NEW v, NEW c, NEW z, Written(v, c, z)'
  PROVE  Written(v, c, z) \/ (v = desk /\ c \in DOMAIN cs /\ cs[c].z = z)
<1>1. CASE v \in Views /\ c \in DOMAIN kept'[v] /\ kept'[v][c].z = z
  BY <1>1 DEF Written
<1>2. CASE \E i \in 1..Len(requests') : /\ requests'[i].kind = "write" /\ requests'[i].view = v
                                      /\ c \in DOMAIN requests'[i].entries /\ requests'[i].entries[c].z = z
  <2>1. PICK i \in 1..Len(requests') : /\ requests'[i].kind = "write" /\ requests'[i].view = v
                                      /\ c \in DOMAIN requests'[i].entries /\ requests'[i].entries[c].z = z
    BY <1>2
  <2>2. CASE i \in 1..Len(requests) /\ requests'[i] = requests[i]
    BY <2>1, <2>2 DEF Written
  <2>3. CASE Entered(requests'[i], cs)
    <3>1. PICK w : w = requests'[i]
      OBVIOUS
    <3>2. Entered(w, cs) /\ w.view = v /\ c \in DOMAIN w.entries /\ w.entries[c].z = z
      BY <2>1, <2>3, <3>1
    <3>3. w.view = desk /\ c \in DOMAIN cs /\ w.entries[c] = [at |-> cs[c].intended, z |-> cs[c].z]
      BY <3>2 DEF Entered
    <3> QED BY <3>2, <3>3
  <2> QED BY <2>2, <2>3, QueueGrows
<1> QED BY <1>1, <1>2 DEF Written

\* A step that leaves the listing of records alone keeps the heights apart, when
\* each card keeps its height or gets one of its own from the counter.
LEMMA HeightsKept ==
  ASSUME DeskIInv, UNCHANGED <<desk, layout, savedLayouts, kept, unread>>,
         DOMAIN cards' = DOMAIN cards, \A c \in DOMAIN cards : cards'[c].z \in Nat,
         counter' \in Nat, counter <= counter', Saves(cards),
         \A c \in DOMAIN cards : cards'[c].z = cards[c].z \/ (counter <= cards'[c].z /\ cards'[c].z < counter'),
         ~unread => \A c, d \in DOMAIN cards : cards'[c].z = cards'[d].z /\ counter <= cards'[c].z => c = d
  PROVE  HeightInv'
<1>1. DeskTypes /\ LoadInv /\ HeightInv /\ counter \in Nat /\ RecordsOK(savedLayouts)
  BY DEF DeskIInv, DeskTypes, DeskTypeOK
<1>2. (desk # Closed /\ layout # "loading" => \A c \in DOMAIN savedLayouts : savedLayouts[c].z < counter)'
  BY <1>1 DEF HeightInv, RecordsOK, Record
<1>3. ASSUME ~unread PROVE Apart' /\ (desk # Closed /\ layout # "loading" => Below)'
  <2>1. Apart /\ (desk # Closed /\ layout # "loading" => Below)
    BY <1>1, <1>3 DEF HeightInv
  <2>2. desk = Closed \/ layout = "loading" => DOMAIN cards = {}
    BY <1>1 DEF LoadInv
  <2>3. \A v, c, z : HasHeight(v, c, z)' =>
          HasHeight(v, c, z) \/ (v = desk /\ c \in DOMAIN cards /\ cards'[c].z = z /\ counter <= z /\ z < counter')
    <3>1. TAKE v, c, z
    <3>2. HAVE HasHeight(v, c, z)'
    <3>3. CASE Written(v, c, z)'
      BY <1>1, <3>3, WrittenGrows DEF HasHeight, OnShow
    <3>4. CASE v = desk /\ OnShow(c, z)'
      BY <3>4 DEF HasHeight, OnShow
    <3> QED BY <3>2, <3>3, <3>4 DEF HasHeight
  <2>4. Apart'
    <3>1. SUFFICES ASSUME NEW v \in Shown, NEW c \in Papers, NEW d \in Papers, NEW z \in Nat,
                          HasHeight(v, c, z)', HasHeight(v, d, z)'
                   PROVE  c = d
      BY DEF Apart
    <3>2. CASE HasHeight(v, c, z) /\ HasHeight(v, d, z)
      BY <2>1, <3>2 DEF Apart
    <3>3. CASE ~(HasHeight(v, c, z) /\ HasHeight(v, d, z))
      <4>1. v = desk /\ counter <= z /\ DOMAIN cards # {}
        BY <2>3, <3>1, <3>3
      <4>2. Below
        BY <2>1, <2>2, <4>1
      <4>3. ~HasHeight(v, c, z) /\ ~HasHeight(v, d, z)
        BY <1>1, <4>1, <4>2 DEF Below
      <4>4. c \in DOMAIN cards /\ cards'[c].z = z /\ d \in DOMAIN cards /\ cards'[d].z = z
        BY <2>3, <3>1, <4>3
      <4> QED BY <1>3, <4>1, <4>4
    <3> QED BY <3>2, <3>3
  <2>5. (desk # Closed /\ layout # "loading" => Below)'
    <3>1. SUFFICES ASSUME desk # Closed, layout # "loading", NEW c \in Papers, NEW z \in Nat, HasHeight(desk, c, z)'
                   PROVE  z < counter'
      BY DEF Below
    <3>2. HasHeight(desk, c, z) => z < counter
      BY <2>1, <3>1 DEF Below
    <3>3. HasHeight(desk, c, z) \/ z < counter'
      BY <2>3, <3>1
    <3> QED BY <1>1, <3>2, <3>3
  <2> QED BY <2>4, <2>5
<1> QED BY <1>2, <1>3 DEF HeightInv

LEMMA PlacesKept ==
  ASSUME DeskIInv, UNCHANGED <<desk, savedLayouts, kept>>, NEW cs, Saves(cs),
         puts' \in [Views -> [Papers -> SUBSET Spots]],
         \A v \in Views, c \in Papers : puts[v][c] \subseteq puts'[v][c],
         desk \in Views => \A c \in DOMAIN cs : cs[c].intended \in puts'[desk][c]
  PROVE  /\ \A v \in Views : PutWhere(v, kept[v])'
         /\ \A i \in 1..Len(requests') : requests'[i].kind = "write" => PutWhere(requests[i].view, requests[i].entries)'
         /\ desk \in Views => PutWhere(desk, savedLayouts)'
<1>1. DeskTypes /\ PlaceInv
  BY DEF DeskIInv
<1>2. \A v \in Views : \A rs : RecordsOK(rs) /\ PutWhere(v, rs) => \A c \in DOMAIN rs : rs[c].at \in puts'[v][c]
  BY DEF PutWhere, RecordsOK
<1>3. \A v \in Views : PutWhere(v, kept[v])'
  BY <1>1, <1>2 DEF PlaceInv, PutWhere, DeskTypes
<1>4. desk \in Views => PutWhere(desk, savedLayouts)'
  BY <1>1, <1>2 DEF PlaceInv, PutWhere, DeskTypes
<1>5. ASSUME NEW i \in 1..Len(requests'), requests'[i].kind = "write"
      PROVE  PutWhere(requests[i].view, requests[i].entries)'
  <2>1. CASE i \in 1..Len(requests) /\ requests'[i] = requests[i]
    <3>1. PICK w : w = requests[i]
      OBVIOUS
    <3>2. w \in ReqTypes /\ w.kind = "write"
      BY <1>1, <1>5, <2>1, <3>1 DEF DeskTypes, ReqTypes
    <3>3. w \in WriteRequest
      BY <3>2 DEF ReqTypes, ReadRequest
    <3>4. w.view \in Views /\ RecordsOK(w.entries) /\ PutWhere(w.view, w.entries)
      BY <1>1, <1>5, <2>1, <3>1, <3>3, EntriesOK DEF PlaceInv
    <3>5. \A c \in DOMAIN w.entries : w.entries[c].at \in puts'[w.view][c]
      BY <1>2, <3>4
    <3> QED BY <2>1, <3>1, <3>5 DEF PutWhere
  <2>2. CASE desk \in Views /\ Entered(requests'[i], cs)
    <3>1. PICK w : w = requests'[i]
      OBVIOUS
    <3>2. Entered(w, cs)
      BY <2>2, <3>1
    <3>3. w.view = desk /\ \A c \in DOMAIN w.entries : c \in DOMAIN cs /\ w.entries[c] = [at |-> cs[c].intended, z |-> cs[c].z]
      BY <3>2 DEF Entered
    <3>4. ASSUME NEW c \in DOMAIN w.entries PROVE w.entries[c].at \in puts'[w.view][c]
      <4>0. PICK r : r = w.entries[c]
        OBVIOUS
      <4>5. c \in DOMAIN cs /\ r = [at |-> cs[c].intended, z |-> cs[c].z]
        BY <3>3, <4>0
      <4>6. r.at = cs[c].intended
        BY ONLY <4>5
      <4>1. c \in DOMAIN cs /\ w.entries[c].at = cs[c].intended
        BY ONLY <4>0, <4>5, <4>6
      <4>2. desk \in Views /\ w.view = desk
        BY <2>2, <3>3
      <4>3. cs[c].intended \in puts'[desk][c]
        BY <4>1, <4>2
      <4> QED BY ONLY <4>1, <4>2, <4>3
    <3>5. \A c \in DOMAIN requests'[i].entries : requests'[i].entries[c].at \in puts'[requests'[i].view][c]
      BY <3>1, <3>4
    <3> QED BY ONLY <3>5 DEF PutWhere
  <2> QED BY <1>1, <1>5, <2>1, <2>2, QueueGrows
<1> QED BY <1>3, <1>4, <1>5

LEMMA LoadKept ==
  ASSUME DeskIInv, UNCHANGED <<desk, mounts, layout, savedLayouts>>, DOMAIN cards' = DOMAIN cards, Saves(cards)
  PROVE  LoadInv'
<1>1. DeskTypes /\ LoadInv /\ mounts \in Nat /\ requests \in Seq(ReqTypes)
  BY DEF DeskIInv, DeskTypes, DeskTypeOK, ReqTypes
<1>2. ASSUME NEW i \in 1..Len(requests')
      PROVE  (i \in 1..Len(requests) /\ requests'[i] = requests[i]) \/ (requests'[i].kind = "write" /\ requests'[i].of = mounts)
  <2>1. PICK w : w = requests'[i]
    OBVIOUS
  <2>2. Entered(w, cards) => w.kind = "write" /\ w.of = mounts
    BY DEF Entered, WriteRequest
  <2>3. (i \in 1..Len(requests) /\ requests'[i] = requests[i]) \/ Entered(requests'[i], cards)
    BY <1>1, QueueGrows
  <2>4. Entered(w, cards) \/ (i \in 1..Len(requests) /\ requests'[i] = requests[i])
    BY <2>1, <2>3
  <2> QED BY <2>1, <2>2, <2>4
<1>3. \A i \in 1..Len(requests') : requests'[i].of <= mounts
  BY <1>1, <1>2 DEF LoadInv
<1>4. ASSUME desk # Closed, layout = "loading" PROVE requests' = requests
  <2>1. DOMAIN cards = {}
    BY <1>1, <1>4 DEF LoadInv
  <2> QED BY <2>1 DEF Saves, Entered
<1>5. (desk # Closed /\ layout = "loading" =>
       /\ desk \in Views /\ DOMAIN cards = {} /\ requests # <<>>
       /\ ReadsHere(Len(requests)) /\ requests[Len(requests)].view = desk
       /\ \A i \in 1..Len(requests) : ReadsHere(i) => i = Len(requests))'
  BY <1>1, <1>4 DEF LoadInv, ReadsHere
<1>6. (desk # Closed /\ layout # "loading" => \A i \in 1..Len(requests) : ~ReadsHere(i))'
  BY <1>1, <1>2 DEF LoadInv, ReadsHere
<1> QED BY <1>1, <1>3, <1>5, <1>6 DEF LoadInv
\* What is said of the fingers, the selection and the acts.
PointersOK ==
  /\ Range(picked) \subseteq Papers /\ DOMAIN pointers \subseteq Pointers
  /\ \A p \in DOMAIN pointers : pointers[p] \in Papers \cup {NoPaper} /\ (pointers[p] # NoPaper => pointers[p] \in items)
  /\ lifted \in BOOLEAN /\ deskActs \in 0..MaxDeskActs

LEMMA CardsAreTyped ==
  ASSUME NEW cs, CardsOK(cs)
  PROVE  /\ DOMAIN cs \subseteq Papers
         /\ \A c \in DOMAIN cs :
              /\ cs[c].at \in Spots /\ cs[c].intended \in Spots
              /\ cs[c].z \in Nat /\ cs[c].dirty \in BOOLEAN /\ cs[c].loop \in BOOLEAN
              /\ cs[c].by \in Pointers \cup {NoPointer} /\ cs[c].leader \in Papers \cup {NoPaper}
              /\ cs[c].followers \subseteq Papers /\ cs[c].delta \in {-1, 0, 1}
              /\ cs[c].mode \in {"idle", "click", "armed", "drag"}
BY DEF CardsOK, Card

LEMMA TypesKept ==
  ASSUME DeskTypes, UNCHANGED <<desk, mounts, layout, savedLayouts, kept>>, items' \subseteq Papers,
         container' \in 0..(MaxPlace + 1), unread' \in BOOLEAN,
         CardsOK(cards'), counter' \in Nat, PointersOK',
         puts' \in [Views -> [Papers -> SUBSET Spots]], requests' \in Seq(ReqTypes)
  PROVE  DeskTypes'
<1>1. DeskTypeOK /\ RecordsOK(savedLayouts) /\ DOMAIN kept = Views /\ \A v \in Views : RecordsOK(kept[v])
  BY DEF DeskTypes
<1>2. (desk \in Views \cup {SearchDesk, Closed} /\ mounts \in 0..MaxMounts)'
  BY <1>1 DEF DeskTypeOK
<1>3. (container \in 0..(MaxPlace + 1) /\ layout \in {"loading", "loaded", "ready"} /\ items \subseteq Papers)'
  BY <1>1 DEF DeskTypeOK
<1>4. CardsOK(cards)'
  OBVIOUS
<1>5. (DOMAIN savedLayouts \subseteq Papers)'
  BY <1>1 DEF DeskTypeOK
<1>6. (\A v \in Views : \A c \in DOMAIN kept[v] : kept[v][c].at \in Spots /\ kept[v][c].z \in Nat)'
  BY <1>1 DEF DeskTypeOK
<1>7. (\A c \in DOMAIN cards :
          /\ cards[c].at \in Spots /\ cards[c].intended \in Spots
          /\ cards[c].z \in Nat /\ cards[c].dirty \in BOOLEAN /\ cards[c].loop \in BOOLEAN
          /\ cards[c].by \in Pointers \cup {NoPointer} /\ cards[c].leader \in Papers \cup {NoPaper}
          /\ cards[c].followers \subseteq Papers /\ cards[c].delta \in {-1, 0, 1}
          /\ cards[c].mode \in {"idle", "click", "armed", "drag"})'
  BY <1>4, CardsAreTyped
<1>8. (DOMAIN cards \subseteq Papers)'
  BY <1>4, CardsAreTyped
<1>9. (Range(picked) \subseteq Papers /\ DOMAIN pointers \subseteq Pointers
       /\ (\A p \in DOMAIN pointers : pointers[p] \in Papers \cup {NoPaper})
       /\ lifted \in BOOLEAN /\ deskActs \in 0..MaxDeskActs)'
  BY DEF PointersOK
<1>10. (counter \in Nat /\ unread \in BOOLEAN)'
  OBVIOUS
<1>11. DeskTypeOK'
  BY ONLY <1>2, <1>3, <1>5, <1>6, <1>7, <1>8, <1>9, <1>10 DEF DeskTypeOK
<1>12. (RecordsOK(savedLayouts) /\ DOMAIN kept = Views)'
  BY <1>1
<1>13. (\A v \in Views : RecordsOK(kept[v]))'
  BY <1>1
<1>14. (puts \in [Views -> [Papers -> SUBSET Spots]] /\ requests \in Seq(ReadRequest \cup WriteRequest))'
  BY DEF ReqTypes
<1> QED BY ONLY <1>4, <1>11, <1>12, <1>13, <1>14 DEF DeskTypes

\* A step of the fingers, the keys and the loops: what it must leave in order.
CardsMoved ==
  /\ DOMAIN cards' = DOMAIN cards /\ CardsOK(cards')
  /\ counter' \in Nat /\ counter <= counter'
  /\ layout = "ready" => \A c \in DOMAIN cards : cards'[c].at < container
  /\ \A c \in DOMAIN cards : cards'[c].z = cards[c].z \/ (counter <= cards'[c].z /\ cards'[c].z < counter')
  /\ ~unread => \A c, d \in DOMAIN cards : cards'[c].z = cards'[d].z /\ counter <= cards'[c].z => c = d
PutsGrow ==
  /\ puts' \in [Views -> [Papers -> SUBSET Spots]]
  /\ \A v \in Views, c \in Papers : puts[v][c] \subseteq puts'[v][c]
CardsPut == desk \in Views => \A c \in DOMAIN cards : cards'[c].intended \in puts'[desk][c]
SavedPut == desk \in Views => \A c \in DOMAIN cards : cards[c].intended \in puts'[desk][c]
GroupsKept ==
  Grouped(cards') /\ LeadersIn(cards', items) /\ (~lifted' => Plain(cards', pointers'))

LEMMA CardsStep ==
  ASSUME DeskIInv, UNCHANGED ShownVars, CardsMoved, Saves(cards), PutsGrow, CardsPut, GroupsKept, PointersOK'
  PROVE  DeskIInv'
<1>1. /\ UNCHANGED <<desk, mounts, container, layout, items, savedLayouts, kept, unread>>
      /\ DeskTypes /\ LoadInv /\ GroupInv /\ PlaceInv /\ HeightInv
  BY DEF ShownVars, DeskIInv
<1>2. container \in 0..(MaxPlace + 1) /\ items \subseteq Papers /\ unread \in BOOLEAN /\ DOMAIN cards' = DOMAIN cards
  BY <1>1 DEF DeskTypes, DeskTypeOK, CardsMoved
<1>3. requests' \in Seq(ReqTypes)
  BY <1>1, QueueGrows
<1>4. DeskTypes'
  BY <1>1, <1>2, <1>3, TypesKept DEF CardsMoved, PutsGrow
<1>5. LoadInv'
  BY <1>1, <1>2, LoadKept
<1>6. GroupInv'
  BY <1>1 DEF GroupInv, GroupsKept, PointersOK
<1>7. HeightInv'
  <2>1. \A c \in DOMAIN cards : cards'[c].z \in Nat
    BY CardsAreTyped DEF CardsMoved
  <2> QED BY <1>1, <2>1, HeightsKept DEF CardsMoved
<1>8. PlaceInv'
  <2>1. \A v \in Views, c \in Papers : puts[v][c] \subseteq puts'[v][c]
    BY DEF PutsGrow
  <2>2. SavedPut
    <3>1. DOMAIN cards \subseteq Papers
      BY <1>1 DEF DeskTypes, CardsOK
    <3>2. desk \in Views => \A c \in DOMAIN cards : cards[c].intended \in puts[desk][c]
      BY <1>1 DEF PlaceInv
    <3> QED BY <2>1, <3>1, <3>2 DEF SavedPut
  <2>3. /\ \A v \in Views : PutWhere(v, kept[v])'
        /\ \A i \in 1..Len(requests') : requests'[i].kind = "write" => PutWhere(requests[i].view, requests[i].entries)'
        /\ desk \in Views => PutWhere(desk, savedLayouts)'
    BY <1>1, <2>1, <2>2, PlacesKept DEF PutsGrow, SavedPut
  <2>4. (layout = "ready" => container > 0 /\ \A c \in DOMAIN cards : cards[c].at < container)'
    BY <1>1, <1>2 DEF PlaceInv, CardsMoved
  <2>5. (desk \in Views => \A c \in DOMAIN cards : cards[c].intended \in puts[desk][c])'
    BY <1>1, <1>2 DEF CardsPut
  <2> QED BY ONLY <1>1, <2>3, <2>4, <2>5 DEF PlaceInv
<1> QED BY <1>4, <1>5, <1>6, <1>7, <1>8 DEF DeskIInv
\* ------------------------------------------------ what the helpers do to cards
SameSpots(cs, ds) ==
  DOMAIN ds = DOMAIN cs /\ \A c \in DOMAIN cs : ds[c].at = cs[c].at /\ ds[c].intended = cs[c].intended /\ ds[c].z = cs[c].z
SameGroups(cs, ds) ==
  DOMAIN ds = DOMAIN cs /\ \A c \in DOMAIN cs :
    ds[c].by = cs[c].by /\ ds[c].leader = cs[c].leader /\ ds[c].followers = cs[c].followers

LEMMA SameGroupsKeep ==
  ASSUME NEW cs, NEW ds, SameGroups(cs, ds), Grouped(cs), NEW its, LeadersIn(cs, its)
  PROVE  /\ Grouped(ds) /\ LeadersIn(ds, its)
         /\ \A ps : Plain(cs, ps) => Plain(ds, ps)
<1>1. DOMAIN ds = DOMAIN cs /\ \A c \in DOMAIN cs :
    ds[c].by = cs[c].by /\ ds[c].leader = cs[c].leader /\ ds[c].followers = cs[c].followers
  BY DEF SameGroups
<1>2. Grouped(ds)
  BY <1>1 DEF Grouped
<1>3. LeadersIn(ds, its)
  BY <1>1 DEF LeadersIn
<1>4. ASSUME NEW ps, Plain(cs, ps) PROVE Plain(ds, ps)
  <2>1. SUFFICES ASSUME NEW c \in DOMAIN ds
                 PROVE  /\ ds[c].by # NoPointer => ds[c].by \in DOMAIN ps /\ ps[ds[c].by] = c
                        /\ ds[c].leader # NoPaper => ds[c].by = NoPointer /\ ds[ds[c].leader].leader = NoPaper
    BY DEF Plain
  <2>2. ds[c].leader # NoPaper => ds[c].leader \in DOMAIN cs
    BY <1>1, <2>1 DEF Grouped
  <2> QED BY <1>1, <1>4, <2>1, <2>2 DEF Plain
<1> QED BY <1>2, <1>3, <1>4

\* The fingers that drag cards stay on them.
LEMMA PlainWith ==
  ASSUME NEW cs, NEW ps, NEW qs, Plain(cs, ps),
         \A c \in DOMAIN cs : cs[c].by # NoPointer => cs[c].by \in DOMAIN qs /\ qs[cs[c].by] = ps[cs[c].by]
  PROVE  Plain(cs, qs)
BY DEF Plain

LEMMA HaltFacts ==
  ASSUME NEW cs, CardsOK(cs), NEW l \in DOMAIN cs, NEW ds, ds = Halt(cs, l)
  PROVE  /\ DOMAIN ds = DOMAIN cs /\ CardsOK(ds)
         /\ \A c \in DOMAIN cs :
              /\ ds[c].at = cs[c].at /\ ds[c].intended = cs[c].intended /\ ds[c].z = cs[c].z
              /\ ds[c].by = cs[c].by /\ ds[c].delta = cs[c].delta /\ ds[c].mode = cs[c].mode
              /\ ds[c].leader = IF c \in cs[l].followers THEN NoPaper ELSE cs[c].leader
              /\ ds[c].followers = IF c = l THEN {} ELSE cs[c].followers
<1>1. PICK fs : fs = [c \in DOMAIN cs |-> IF c \in cs[l].followers THEN [cs[c] EXCEPT !.leader = NoPaper] ELSE cs[c]]
  OBVIOUS
<1>2. ds = [fs EXCEPT ![l].loop = FALSE, ![l].followers = {}]
  BY <1>1 DEF Halt
<1>3. DOMAIN fs = DOMAIN cs /\ \A c \in DOMAIN cs : fs[c] \in Card
  BY <1>1 DEF CardsOK, Card
<1>4. \A c \in DOMAIN cs :
              /\ fs[c].at = cs[c].at /\ fs[c].intended = cs[c].intended /\ fs[c].z = cs[c].z
              /\ fs[c].by = cs[c].by /\ fs[c].delta = cs[c].delta /\ fs[c].mode = cs[c].mode
              /\ fs[c].leader = IF c \in cs[l].followers THEN NoPaper ELSE cs[c].leader
              /\ fs[c].followers = cs[c].followers
  BY <1>1 DEF CardsOK, Card
<1>5. DOMAIN ds = DOMAIN cs /\ \A c \in DOMAIN cs \ {l} : ds[c] = fs[c]
  BY <1>2, <1>3
<1>6. ds[l] = [fs[l] EXCEPT !.loop = FALSE, !.followers = {}]
  BY <1>2, <1>3
<1>7. /\ ds[l] \in Card /\ ds[l].at = fs[l].at /\ ds[l].intended = fs[l].intended /\ ds[l].z = fs[l].z
      /\ ds[l].by = fs[l].by /\ ds[l].delta = fs[l].delta /\ ds[l].mode = fs[l].mode
      /\ ds[l].leader = fs[l].leader /\ ds[l].followers = {}
  BY <1>3, <1>6 DEF Card
<1>8. CardsOK(ds)
  BY <1>3, <1>5, <1>7 DEF CardsOK
<1>9. ASSUME NEW c \in DOMAIN cs
      PROVE   /\ ds[c].at = cs[c].at /\ ds[c].intended = cs[c].intended /\ ds[c].z = cs[c].z
              /\ ds[c].by = cs[c].by /\ ds[c].delta = cs[c].delta /\ ds[c].mode = cs[c].mode
              /\ ds[c].leader = IF c \in cs[l].followers THEN NoPaper ELSE cs[c].leader
              /\ ds[c].followers = IF c = l THEN {} ELSE cs[c].followers
  <2>1. CASE c = l
    BY ONLY <1>4, <1>7, <2>1, c \in DOMAIN cs
  <2>2. CASE c # l
    <3>1. ds[c] = fs[c]
      BY <1>5, <2>2
    <3> QED BY ONLY <1>4, <2>2, <3>1, c \in DOMAIN cs
  <2> QED BY <2>1, <2>2
<1> QED BY ONLY <1>5, <1>8, <1>9

LEMMA HaltKeeps ==
  ASSUME NEW cs, CardsOK(cs), NEW l \in DOMAIN cs, NEW ds, ds = Halt(cs, l),
         Grouped(cs), NEW its, LeadersIn(cs, its)
  PROVE  /\ Grouped(ds) /\ LeadersIn(ds, its)
         /\ \A ps : Plain(cs, ps) => Plain(ds, ps)
<1>1. /\ DOMAIN ds = DOMAIN cs
      /\ \A c \in DOMAIN cs :
              /\ ds[c].by = cs[c].by
              /\ ds[c].leader = IF c \in cs[l].followers THEN NoPaper ELSE cs[c].leader
              /\ ds[c].followers = IF c = l THEN {} ELSE cs[c].followers
  BY HaltFacts
<1>2. ASSUME NEW c \in DOMAIN ds, ds[c].leader # NoPaper
      PROVE  ds[c].leader = cs[c].leader /\ cs[c].leader \in DOMAIN cs /\ cs[c].leader # l
  BY <1>1, <1>2 DEF Grouped
<1>3. Grouped(ds)
  BY <1>1, <1>2 DEF Grouped
<1>4. LeadersIn(ds, its)
  BY <1>1 DEF LeadersIn
<1>5. ASSUME NEW ps, Plain(cs, ps) PROVE Plain(ds, ps)
  <2>1. SUFFICES ASSUME NEW c \in DOMAIN ds
                 PROVE  /\ ds[c].by # NoPointer => ds[c].by \in DOMAIN ps /\ ps[ds[c].by] = c
                        /\ ds[c].leader # NoPaper => ds[c].by = NoPointer /\ ds[ds[c].leader].leader = NoPaper
    BY DEF Plain
  <2> QED BY <1>1, <1>2, <1>5, <2>1 DEF Plain
<1> QED BY <1>3, <1>4, <1>5

LEMMA RemoveFollowerFacts ==
  ASSUME NEW cs, CardsOK(cs), Grouped(cs), NEW l \in DOMAIN cs, NEW ds, ds = RemoveFollower(cs, l)
  PROVE  /\ DOMAIN ds = DOMAIN cs /\ CardsOK(ds)
         /\ \A c \in DOMAIN cs :
              /\ ds[c].at = cs[c].at /\ ds[c].intended = cs[c].intended /\ ds[c].z = cs[c].z
              /\ ds[c].by = cs[c].by /\ ds[c].delta = cs[c].delta /\ ds[c].mode = cs[c].mode
              /\ ds[c].leader = IF c = l THEN NoPaper ELSE cs[c].leader
              /\ ds[c].followers = IF c = cs[l].leader THEN cs[c].followers \ {l} ELSE cs[c].followers
<1>1. CASE cs[l].leader = NoPaper
  <2>1. ds = cs
    BY <1>1 DEF RemoveFollower
  <2>2. \A c \in DOMAIN cs : c # NoPaper
    BY DeskConstants DEF CardsOK
  <2> QED BY <1>1, <2>1, <2>2
<1>2. CASE cs[l].leader # NoPaper
  <2>1. PICK o : o = cs[l].leader
    OBVIOUS
  <2>2. o \in DOMAIN cs
    BY <1>2, <2>1 DEF Grouped
  <2>3. PICK fs : fs = [cs EXCEPT ![o].followers = @ \ {l}]
    OBVIOUS
  <2>4. ds = [fs EXCEPT ![l].leader = NoPaper]
    BY <1>2, <2>1, <2>3 DEF RemoveFollower
  <2>5. DOMAIN fs = DOMAIN cs /\ (\A c \in DOMAIN cs \ {o} : fs[c] = cs[c]) /\ fs[o] = [cs[o] EXCEPT !.followers = cs[o].followers \ {l}]
    BY <2>2, <2>3
  <2>6. fs[o] \in Card /\ fs[o].at = cs[o].at /\ fs[o].intended = cs[o].intended /\ fs[o].z = cs[o].z
              /\ fs[o].by = cs[o].by /\ fs[o].delta = cs[o].delta /\ fs[o].mode = cs[o].mode
              /\ fs[o].leader = cs[o].leader /\ fs[o].followers = cs[o].followers \ {l}
    BY <2>2, <2>5 DEF CardsOK, Card
  <2>7. \A c \in DOMAIN cs : fs[c] \in Card
    BY <2>5, <2>6 DEF CardsOK
  <2>8. DOMAIN ds = DOMAIN cs /\ (\A c \in DOMAIN cs \ {l} : ds[c] = fs[c]) /\ ds[l] = [fs[l] EXCEPT !.leader = NoPaper]
    BY <2>4, <2>5
  <2>9. ds[l] \in Card /\ ds[l].at = fs[l].at /\ ds[l].intended = fs[l].intended /\ ds[l].z = fs[l].z
              /\ ds[l].by = fs[l].by /\ ds[l].delta = fs[l].delta /\ ds[l].mode = fs[l].mode
              /\ ds[l].leader = NoPaper /\ ds[l].followers = fs[l].followers
    BY <2>7, <2>8 DEF Card
  <2>10. CardsOK(ds)
    BY <2>7, <2>8, <2>9 DEF CardsOK
  <2>11. \A c \in DOMAIN cs :
              /\ fs[c].at = cs[c].at /\ fs[c].intended = cs[c].intended /\ fs[c].z = cs[c].z
              /\ fs[c].by = cs[c].by /\ fs[c].delta = cs[c].delta /\ fs[c].mode = cs[c].mode
              /\ fs[c].leader = cs[c].leader
              /\ fs[c].followers = IF c = o THEN cs[c].followers \ {l} ELSE cs[c].followers
    BY <2>5, <2>6
  <2>12. ASSUME NEW c \in DOMAIN cs
         PROVE  /\ ds[c].at = cs[c].at /\ ds[c].intended = cs[c].intended /\ ds[c].z = cs[c].z
                /\ ds[c].by = cs[c].by /\ ds[c].delta = cs[c].delta /\ ds[c].mode = cs[c].mode
                /\ ds[c].leader = IF c = l THEN NoPaper ELSE cs[c].leader
                /\ ds[c].followers = IF c = o THEN cs[c].followers \ {l} ELSE cs[c].followers
    <3>1. CASE c = l
      BY ONLY <2>9, <2>11, <3>1, c \in DOMAIN cs
    <3>2. CASE c # l
      <4>1. ds[c] = fs[c]
        BY <2>8, <3>2
      <4> QED BY ONLY <2>11, <3>2, <4>1, c \in DOMAIN cs
    <3> QED BY <3>1, <3>2
  <2> QED BY ONLY <2>1, <2>8, <2>10, <2>12
<1> QED BY <1>1, <1>2

DragBegun(cs, ds, l, p) ==
  /\ DOMAIN ds = DOMAIN cs /\ CardsOK(ds)
  /\ \A c \in DOMAIN cs :
       /\ ds[c].at = cs[c].at /\ ds[c].intended = cs[c].intended /\ ds[c].z = cs[c].z
       /\ ds[c].by = IF c = l THEN p ELSE cs[c].by
       /\ ds[c].leader = IF c = l \/ c \in cs[l].followers THEN NoPaper ELSE cs[c].leader
       /\ ds[c].followers = IF c = l THEN {} ELSE IF c = cs[l].leader THEN cs[c].followers \ {l} ELSE cs[c].followers
CardsAttached(cs, ds, l, ids) ==
  /\ DOMAIN ds = DOMAIN cs /\ CardsOK(ds)
  /\ \A c \in DOMAIN cs :
       /\ ds[c].at = IF c \in ids THEN cs[l].at ELSE cs[c].at
       /\ ds[c].intended = IF c \in ids THEN cs[l].at ELSE cs[c].intended
       /\ ds[c].z = cs[c].z /\ ds[c].by = cs[c].by
       /\ ds[c].leader \in {NoPaper, IF c \in ids THEN l ELSE cs[c].leader}
       /\ \A o \in ids : c \notin ids /\ c \in cs[o].followers => ds[c].leader = NoPaper
       /\ ds[c].followers = IF c \in ids THEN {} ELSE IF c = l THEN cs[c].followers \cup ids ELSE cs[c].followers

LEMMA BeginDragFacts ==
  ASSUME NEW cs, CardsOK(cs), Grouped(cs), NEW l \in DOMAIN cs, NEW p \in Pointers, NEW ds, ds = BeginDrag(cs, l, p)
  PROVE  DragBegun(cs, ds, l, p)
<1>1. PICK rs : rs = RemoveFollower(cs, l)
  OBVIOUS
<1>2. PICK hs : hs = Halt(rs, l)
  OBVIOUS
<1>3. ds = [hs EXCEPT ![l].by = p, ![l].loop = TRUE]
  BY <1>1, <1>2 DEF BeginDrag
<1>4. /\ DOMAIN rs = DOMAIN cs /\ CardsOK(rs)
      /\ \A c \in DOMAIN cs :
              /\ rs[c].at = cs[c].at /\ rs[c].intended = cs[c].intended /\ rs[c].z = cs[c].z
              /\ rs[c].by = cs[c].by /\ rs[c].delta = cs[c].delta /\ rs[c].mode = cs[c].mode
              /\ rs[c].leader = IF c = l THEN NoPaper ELSE cs[c].leader
              /\ rs[c].followers = IF c = cs[l].leader THEN cs[c].followers \ {l} ELSE cs[c].followers
  BY ONLY <1>1, CardsOK(cs), Grouped(cs), l \in DOMAIN cs, RemoveFollowerFacts
<1>5. /\ DOMAIN hs = DOMAIN rs /\ CardsOK(hs)
      /\ \A c \in DOMAIN rs :
              /\ hs[c].at = rs[c].at /\ hs[c].intended = rs[c].intended /\ hs[c].z = rs[c].z
              /\ hs[c].by = rs[c].by
              /\ hs[c].leader = IF c \in rs[l].followers THEN NoPaper ELSE rs[c].leader
              /\ hs[c].followers = IF c = l THEN {} ELSE rs[c].followers
  BY <1>2, <1>4, HaltFacts
<1>6. DOMAIN ds = DOMAIN cs /\ (\A c \in DOMAIN cs \ {l} : ds[c] = hs[c]) /\ ds[l] = [hs[l] EXCEPT !.by = p, !.loop = TRUE]
  BY <1>3, <1>4, <1>5
<1>7. hs[l] \in Card
  BY <1>4, <1>5 DEF CardsOK
<1>8. /\ ds[l] \in Card /\ ds[l].at = hs[l].at /\ ds[l].intended = hs[l].intended /\ ds[l].z = hs[l].z
      /\ ds[l].by = p /\ ds[l].leader = hs[l].leader /\ ds[l].followers = hs[l].followers
  BY <1>6, <1>7 DEF Card
<1>9. CardsOK(ds)
  BY <1>4, <1>5, <1>6, <1>8 DEF CardsOK
<1>10. ASSUME NEW c \in DOMAIN cs
       PROVE  /\ hs[c].at = cs[c].at /\ hs[c].intended = cs[c].intended /\ hs[c].z = cs[c].z
              /\ hs[c].by = cs[c].by
              /\ hs[c].leader = IF c = l \/ c \in cs[l].followers THEN NoPaper ELSE cs[c].leader
              /\ hs[c].followers = IF c = l THEN {} ELSE IF c = cs[l].leader THEN cs[c].followers \ {l} ELSE cs[c].followers
  <2>1. l \in DOMAIN rs /\ c \in DOMAIN rs
    BY <1>4
  <2>2. rs[l].followers = IF l = cs[l].leader THEN cs[l].followers \ {l} ELSE cs[l].followers
    BY ONLY <1>4, l \in DOMAIN cs
  <2>3. /\ hs[c].at = rs[c].at /\ hs[c].intended = rs[c].intended /\ hs[c].z = rs[c].z
        /\ hs[c].by = rs[c].by
        /\ hs[c].leader = IF c \in rs[l].followers THEN NoPaper ELSE rs[c].leader
        /\ hs[c].followers = IF c = l THEN {} ELSE rs[c].followers
    BY ONLY <1>5, <2>1
  <2>4. /\ rs[c].at = cs[c].at /\ rs[c].intended = cs[c].intended /\ rs[c].z = cs[c].z
        /\ rs[c].by = cs[c].by
        /\ rs[c].leader = IF c = l THEN NoPaper ELSE cs[c].leader
        /\ rs[c].followers = IF c = cs[l].leader THEN cs[c].followers \ {l} ELSE cs[c].followers
    BY ONLY <1>4, c \in DOMAIN cs
  <2>5. c # l => (c \in rs[l].followers <=> c \in cs[l].followers)
    BY ONLY <2>2
  <2>6. hs[c].leader = IF c = l \/ c \in cs[l].followers THEN NoPaper ELSE cs[c].leader
    <3>1. CASE c = l
      BY ONLY <2>3, <2>4, <3>1
    <3>2. CASE c # l
      BY ONLY <2>3, <2>4, <2>5, <3>2
    <3> QED BY <3>1, <3>2
  <2>7. hs[c].followers = IF c = l THEN {} ELSE IF c = cs[l].leader THEN cs[c].followers \ {l} ELSE cs[c].followers
    BY ONLY <2>3, <2>4
  <2> QED BY ONLY <2>3, <2>4, <2>6, <2>7
<1>11. \A c \in DOMAIN cs :
          /\ ds[c].at = hs[c].at /\ ds[c].intended = hs[c].intended /\ ds[c].z = hs[c].z
          /\ ds[c].by = (IF c = l THEN p ELSE hs[c].by) /\ ds[c].leader = hs[c].leader /\ ds[c].followers = hs[c].followers
  BY ONLY <1>6, <1>8, l \in DOMAIN cs
<1>12. ASSUME NEW c \in DOMAIN cs
       PROVE  /\ ds[c].at = cs[c].at /\ ds[c].intended = cs[c].intended /\ ds[c].z = cs[c].z
              /\ ds[c].by = IF c = l THEN p ELSE cs[c].by
              /\ ds[c].leader = IF c = l \/ c \in cs[l].followers THEN NoPaper ELSE cs[c].leader
              /\ ds[c].followers = IF c = l THEN {} ELSE IF c = cs[l].leader THEN cs[c].followers \ {l} ELSE cs[c].followers
  BY ONLY <1>10, <1>11, c \in DOMAIN cs
<1> QED BY ONLY <1>6, <1>9, <1>12 DEF DragBegun
LEMMA BeginDragKeeps ==
  ASSUME NEW cs, CardsOK(cs), Grouped(cs), NEW l \in DOMAIN cs, NEW p \in Pointers, NEW ds, ds = BeginDrag(cs, l, p),
         NEW its, LeadersIn(cs, its)
  PROVE  /\ Grouped(ds) /\ LeadersIn(ds, its)
         /\ \A ps : Plain(cs, ps) /\ p \in DOMAIN ps /\ ps[p] = l => Plain(ds, ps)
<1>0. DragBegun(cs, ds, l, p)
  BY BeginDragFacts
<1>1. /\ DOMAIN ds = DOMAIN cs
      /\ \A c \in DOMAIN cs :
           /\ ds[c].by = IF c = l THEN p ELSE cs[c].by
           /\ ds[c].leader = IF c = l \/ c \in cs[l].followers THEN NoPaper ELSE cs[c].leader
           /\ ds[c].followers = IF c = l THEN {} ELSE IF c = cs[l].leader THEN cs[c].followers \ {l} ELSE cs[c].followers
  BY ONLY <1>0 DEF DragBegun
<1>2. ASSUME NEW c \in DOMAIN ds, ds[c].leader # NoPaper
      PROVE  /\ c # l /\ ds[c].leader = cs[c].leader /\ cs[c].leader \in DOMAIN cs /\ cs[c].leader # l
             /\ c \in cs[cs[c].leader].followers /\ cs[c].by \in {NoPointer, cs[cs[c].leader].by}
  BY <1>1, <1>2 DEF Grouped
<1>3. ASSUME NEW c \in DOMAIN ds, ds[c].leader # NoPaper
      PROVE  ds[c].leader \in DOMAIN ds /\ c \in ds[ds[c].leader].followers /\ ds[c].by \in {NoPointer, ds[ds[c].leader].by}
  <2>1. PICK o : o = ds[c].leader
    OBVIOUS
  <2>2. o \in DOMAIN cs /\ o # l /\ c # l /\ c \in cs[o].followers /\ cs[c].by \in {NoPointer, cs[o].by}
    BY <1>2, <1>3, <2>1
  <2>3. ds[o].by = cs[o].by /\ ds[c].by = cs[c].by /\ (ds[o].followers = cs[o].followers \ {l} \/ ds[o].followers = cs[o].followers)
    BY <1>1, <1>3, <2>2
  <2> QED BY ONLY <1>1, <2>1, <2>2, <2>3
<1>4. Grouped(ds)
  BY ONLY <1>3 DEF Grouped
<1>5. LeadersIn(ds, its)
  <2>1. ASSUME NEW c \in DOMAIN ds, ds[c].followers # {} PROVE cs[c].followers # {}
    BY <1>1, <2>1
  <2> QED BY <1>1, <2>1 DEF LeadersIn
<1>6. ASSUME NEW ps, Plain(cs, ps), p \in DOMAIN ps, ps[p] = l PROVE Plain(ds, ps)
  <2>1. ASSUME NEW c \in DOMAIN ds, ds[c].by # NoPointer PROVE ds[c].by \in DOMAIN ps /\ ps[ds[c].by] = c
    <3>1. CASE c = l
      BY <1>1, <1>6, <3>1
    <3>2. CASE c # l
      <4>1. ds[c].by = cs[c].by /\ c \in DOMAIN cs
        BY <1>1, <3>2
      <4> QED BY <1>6, <2>1, <4>1 DEF Plain
    <3> QED BY <3>1, <3>2
  <2>2. ASSUME NEW c \in DOMAIN ds, ds[c].leader # NoPaper PROVE ds[c].by = NoPointer /\ ds[ds[c].leader].leader = NoPaper
    <3>1. PICK o : o = ds[c].leader
      OBVIOUS
    <3>2. o \in DOMAIN cs /\ o # l /\ c # l /\ o = cs[c].leader /\ o # NoPaper
      BY <1>2, <2>2, <3>1
    <3>3. cs[c].by = NoPointer /\ cs[o].leader = NoPaper
      BY <1>1, <1>6, <3>2 DEF Plain
    <3>4. ds[c].by = cs[c].by /\ ds[o].leader = NoPaper
      BY <1>1, <3>2, <3>3
    <3> QED BY ONLY <3>1, <3>3, <3>4
  <2> QED BY <2>1, <2>2 DEF Plain
<1> QED BY <1>4, <1>5, <1>6

LEMMA AttachFacts ==
  ASSUME NEW cs, CardsOK(cs), NEW l \in DOMAIN cs, NEW ids, ids \subseteq DOMAIN cs, l \notin ids, NEW turn,
         NEW ds, ds = Attach(cs, l, ids, turn)
  PROVE  CardsAttached(cs, ds, l, ids)
<1>1. PICK js : js = [c \in DOMAIN cs |-> IF c \in ids THEN SnapTo(cs[c], l, cs[l].at)
                                         ELSE IF c = l THEN AddFollowers(cs[c], ids) ELSE cs[c]]
  OBVIOUS
<1>2. PICK freed : freed = {c \in DOMAIN cs : \E o \in ids : c \in cs[o].followers /\ (c \in ids => turn[c] < turn[o])}
  OBVIOUS
<1>3. ds = [c \in DOMAIN cs |-> IF c \in freed THEN [js[c] EXCEPT !.leader = NoPaper] ELSE js[c]]
  BY <1>1, <1>2 DEF Attach
<1>4. l \in Papers /\ ids \subseteq Papers /\ cs[l] \in Card /\ cs[l].at \in Spots
  BY DEF CardsOK, Card
<1>5. ASSUME NEW c \in DOMAIN cs
      PROVE  /\ js[c] \in Card
             /\ js[c].at = IF c \in ids THEN cs[l].at ELSE cs[c].at
             /\ js[c].intended = IF c \in ids THEN cs[l].at ELSE cs[c].intended
             /\ js[c].z = cs[c].z /\ js[c].by = cs[c].by
             /\ js[c].leader = IF c \in ids THEN l ELSE cs[c].leader
             /\ js[c].followers = IF c \in ids THEN {} ELSE IF c = l THEN cs[c].followers \cup ids ELSE cs[c].followers
  <2>1. cs[c] \in Card
    BY DEF CardsOK
  <2>2. CASE c \in ids
    <3>1. js[c] = SnapTo(cs[c], l, cs[l].at)
      BY <1>1, <2>2
    <3> QED BY ONLY <1>4, <2>1, <2>2, <3>1 DEF SnapTo, MovedTo, Card
  <2>3. CASE c = l
    <3>1. js[c] = AddFollowers(cs[c], ids)
      BY <1>1, <2>3
    <3> QED BY ONLY l \notin ids, <1>4, <2>1, <2>3, <3>1 DEF AddFollowers, Card
  <2>4. CASE c \notin ids /\ c # l
    <3>1. js[c] = cs[c]
      BY <1>1, <2>4
    <3> QED BY ONLY <2>1, <2>4, <3>1
  <2> QED BY <2>2, <2>3, <2>4
<1>6. ASSUME NEW c \in DOMAIN cs
      PROVE  /\ ds[c] \in Card
             /\ ds[c].at = js[c].at /\ ds[c].intended = js[c].intended /\ ds[c].z = js[c].z /\ ds[c].by = js[c].by
             /\ ds[c].leader = (IF c \in freed THEN NoPaper ELSE js[c].leader)
             /\ ds[c].followers = js[c].followers
  <2>1. js[c] \in Card
    BY <1>5
  <2>2. CASE c \in freed
    <3>1. ds[c] = [js[c] EXCEPT !.leader = NoPaper]
      BY <1>3, <2>2
    <3> QED BY ONLY <2>1, <2>2, <3>1 DEF Card
  <2>3. CASE c \notin freed
    <3>1. ds[c] = js[c]
      BY <1>3, <2>3
    <3> QED BY ONLY <2>1, <2>3, <3>1
  <2> QED BY <2>2, <2>3
<1>7. DOMAIN ds = DOMAIN cs
  BY <1>3
<1>8. CardsOK(ds)
  BY <1>6, <1>7 DEF CardsOK
<1>9. ASSUME NEW c \in DOMAIN cs, NEW o \in ids, c \notin ids, c \in cs[o].followers PROVE ds[c].leader = NoPaper
  <2>1. c \in freed
    BY <1>2, <1>9
  <2> QED BY <1>6, <2>1
<1>10. ASSUME NEW c \in DOMAIN cs
       PROVE  /\ ds[c].at = IF c \in ids THEN cs[l].at ELSE cs[c].at
              /\ ds[c].intended = IF c \in ids THEN cs[l].at ELSE cs[c].intended
              /\ ds[c].z = cs[c].z /\ ds[c].by = cs[c].by
              /\ ds[c].leader \in {NoPaper, IF c \in ids THEN l ELSE cs[c].leader}
              /\ ds[c].followers = IF c \in ids THEN {} ELSE IF c = l THEN cs[c].followers \cup ids ELSE cs[c].followers
  BY ONLY <1>5, <1>6, c \in DOMAIN cs
<1> QED BY ONLY <1>7, <1>8, <1>9, <1>10 DEF CardsAttached

LEMMA AttachKeeps ==
  ASSUME NEW cs, CardsOK(cs), Grouped(cs), NEW l \in DOMAIN cs, NEW ids, ids \subseteq DOMAIN cs, l \notin ids, NEW turn,
         NEW ds, ds = Attach(cs, l, ids, turn), NEW its, LeadersIn(cs, its), l \in its,
         \A c \in ids : cs[c].by \in {NoPointer, cs[l].by}
  PROVE  /\ Grouped(ds) /\ LeadersIn(ds, its)
         /\ \A ps : Plain(cs, ps) /\ cs[l].leader = NoPaper /\ (\A c \in ids : cs[c].by = NoPointer) => Plain(ds, ps)
<1>0. CardsAttached(cs, ds, l, ids)
  BY AttachFacts
<1>1. /\ DOMAIN ds = DOMAIN cs
      /\ \A c \in DOMAIN cs :
           /\ ds[c].z = cs[c].z /\ ds[c].by = cs[c].by
           /\ ds[c].leader \in {NoPaper, IF c \in ids THEN l ELSE cs[c].leader}
           /\ \A o \in ids : c \notin ids /\ c \in cs[o].followers => ds[c].leader = NoPaper
           /\ ds[c].followers = IF c \in ids THEN {} ELSE IF c = l THEN cs[c].followers \cup ids ELSE cs[c].followers
  BY ONLY <1>0 DEF CardsAttached
<1>2. ASSUME NEW c \in DOMAIN cs, ds[c].leader # NoPaper
      PROVE  /\ ds[c].leader \in DOMAIN cs /\ ds[c].leader \notin ids
             /\ c \in ids => ds[c].leader = l
             /\ c \notin ids => ds[c].leader = cs[c].leader /\ c \in cs[ds[c].leader].followers
                                /\ cs[c].by \in {NoPointer, cs[ds[c].leader].by}
  <2>1. ds[c].leader = IF c \in ids THEN l ELSE cs[c].leader
    BY <1>1, <1>2
  <2>2. CASE c \in ids
    BY <2>1, <2>2
  <2>3. CASE c \notin ids
    <3>1. PICK o : o = cs[c].leader
      OBVIOUS
    <3>2. ds[c].leader = o /\ o # NoPaper
      BY <1>2, <2>1, <2>3, <3>1
    <3>3. o \in DOMAIN cs /\ c \in cs[o].followers /\ cs[c].by \in {NoPointer, cs[o].by}
      BY <3>1, <3>2 DEF Grouped
    <3>4. o \notin ids
      BY <1>1, <1>2, <2>3, <3>3
    <3> QED BY ONLY <2>3, <3>1, <3>2, <3>3, <3>4
  <2> QED BY <2>2, <2>3
<1>3. ASSUME NEW c \in DOMAIN ds, ds[c].leader # NoPaper
      PROVE  ds[c].leader \in DOMAIN ds /\ c \in ds[ds[c].leader].followers /\ ds[c].by \in {NoPointer, ds[ds[c].leader].by}
  <2>0. c \in DOMAIN cs
    BY <1>1
  <2>1. PICK o : o = ds[c].leader
    OBVIOUS
  <2>2. o \in DOMAIN cs /\ o \notin ids /\ ds[o].by = cs[o].by /\ ds[c].by = cs[c].by
    BY <1>1, <1>2, <1>3, <2>0, <2>1
  <2>3. CASE c \in ids
    <3>1. o = l
      BY <1>2, <1>3, <2>0, <2>1, <2>3
    <3>2. ds[l].followers = cs[l].followers \cup ids
      BY <1>1
    <3> QED BY <1>1, <2>1, <2>2, <2>3, <3>1, <3>2
  <2>4. CASE c \notin ids
    <3>1. c \in cs[o].followers /\ cs[c].by \in {NoPointer, cs[o].by}
      BY <1>2, <1>3, <2>0, <2>1, <2>4
    <3>2. ds[o].followers = IF o = l THEN cs[o].followers \cup ids ELSE cs[o].followers
      BY <1>1, <2>2
    <3>3. c \in ds[o].followers
      BY <3>1, <3>2
    <3> QED BY ONLY <1>1, <2>1, <2>2, <3>1, <3>3
  <2> QED BY <2>3, <2>4
<1>4. Grouped(ds)
  BY ONLY <1>3 DEF Grouped
<1>5. LeadersIn(ds, its)
  <2>1. ASSUME NEW c \in DOMAIN ds, ds[c].followers # {} PROVE c = l \/ cs[c].followers # {}
    BY <1>1, <2>1
  <2> QED BY <1>1, <2>1 DEF LeadersIn
<1>6. ASSUME NEW ps, Plain(cs, ps), cs[l].leader = NoPaper, \A c \in ids : cs[c].by = NoPointer PROVE Plain(ds, ps)
  <2>1. ASSUME NEW c \in DOMAIN ds, ds[c].by # NoPointer PROVE ds[c].by \in DOMAIN ps /\ ps[ds[c].by] = c
    BY <1>1, <1>6, <2>1 DEF Plain
  <2>2. ASSUME NEW c \in DOMAIN ds, ds[c].leader # NoPaper PROVE ds[c].by = NoPointer /\ ds[ds[c].leader].leader = NoPaper
    <3>1. PICK o : o = ds[c].leader
      OBVIOUS
    <3>2. c \in DOMAIN cs /\ ds[c].by = cs[c].by /\ o \in DOMAIN cs /\ o \notin ids /\ o # NoPaper
      BY <1>1, <1>2, <2>2, <3>1
    <3>3. cs[o].leader = NoPaper /\ cs[c].by = NoPointer
      <4>1. CASE c \in ids
        BY <1>2, <1>6, <2>2, <3>1, <3>2, <4>1
      <4>2. CASE c \notin ids
        <5>1. o = cs[c].leader
          BY <1>2, <2>2, <3>1, <3>2, <4>2
        <5> QED BY <1>6, <3>2, <5>1 DEF Plain
      <4> QED BY <4>1, <4>2
    <3>4. ds[o].leader \in {NoPaper, cs[o].leader}
      BY <1>1, <3>2
    <3> QED BY ONLY <3>1, <3>2, <3>3, <3>4
  <2> QED BY <2>1, <2>2 DEF Plain
<1> QED BY <1>4, <1>5, <1>6

LEMMA FinishDragFacts ==
  ASSUME NEW cs, CardsOK(cs), Grouped(cs), NEW its, LeadersIn(cs, its), NEW p, NEW ds, ds = FinishDrag(cs, p)
  PROVE  /\ CardsOK(ds) /\ SameSpots(cs, ds) /\ Grouped(ds) /\ LeadersIn(ds, its)
         /\ \A c \in DOMAIN ds : ds[c].by # NoPointer => ds[c].by = cs[c].by /\ ds[c].by # p
         /\ \A ps : Plain(cs, ps) => Plain(ds, ps)
<1>1. DOMAIN ds = DOMAIN cs /\ \A c \in DOMAIN cs :
        /\ ds[c] \in Card /\ ds[c].at = cs[c].at /\ ds[c].intended = cs[c].intended /\ ds[c].z = cs[c].z
        /\ ds[c].leader = cs[c].leader /\ ds[c].followers = cs[c].followers
        /\ ds[c].by = IF cs[c].by = p THEN NoPointer ELSE cs[c].by
  <2>1. DOMAIN ds = DOMAIN cs
    BY DEF FinishDrag
  <2>2. ASSUME NEW c \in DOMAIN cs
        PROVE  /\ ds[c] \in Card /\ ds[c].at = cs[c].at /\ ds[c].intended = cs[c].intended /\ ds[c].z = cs[c].z
               /\ ds[c].leader = cs[c].leader /\ ds[c].followers = cs[c].followers
               /\ ds[c].by = IF cs[c].by = p THEN NoPointer ELSE cs[c].by
    <3>1. ds[c] = IF cs[c].by = p THEN [cs[c] EXCEPT !.by = NoPointer] ELSE cs[c]
      BY DEF FinishDrag
    <3>2. cs[c] \in Card
      BY DEF CardsOK
    <3> QED BY ONLY <3>1, <3>2 DEF Card
  <2> QED BY ONLY <2>1, <2>2
<1>2. CardsOK(ds) /\ SameSpots(cs, ds)
  BY <1>1 DEF CardsOK, SameSpots
<1>3. Grouped(ds)
  BY <1>1 DEF Grouped
<1>4. LeadersIn(ds, its)
  BY <1>1 DEF LeadersIn
<1>5. ASSUME NEW ps, Plain(cs, ps) PROVE Plain(ds, ps)
  <2>1. ASSUME NEW c \in DOMAIN ds, ds[c].by # NoPointer PROVE ds[c].by \in DOMAIN ps /\ ps[ds[c].by] = c
    BY <1>1, <1>5, <2>1 DEF Plain
  <2>2. ASSUME NEW c \in DOMAIN ds, ds[c].leader # NoPaper PROVE ds[c].by = NoPointer /\ ds[ds[c].leader].leader = NoPaper
    <3>1. cs[c].leader # NoPaper /\ c \in DOMAIN cs /\ cs[c].leader \in DOMAIN cs
      BY <1>1, <2>2 DEF Grouped
    <3> QED BY <1>1, <1>5, <3>1 DEF Plain
  <2> QED BY <2>1, <2>2 DEF Plain
<1> QED BY <1>1, <1>2, <1>3, <1>4, <1>5
\* --------------------------------------------------- places, heights, selections
LEMMA ConstrainFits ==
  ASSUME NEW x \in Int, NEW w \in 0..(MaxPlace + 1)
  PROVE  Constrain(x, w) \in Spots /\ (w > 0 => Constrain(x, w) < w)
BY DeskConstants DEF Constrain, Least, Spots

LEMMA ByHeightRange ==
  ASSUME NEW ids, NEW s \in ByHeight(ids)
  PROVE  Range(s) = ids
BY DEF ByHeight

LEMMA RangeOfOne == /\ Range(<<>>) = {}
                    /\ \A c : Range(<<c>>) = {c}
<1>1. Range(<<>>) = {}
  BY DEF Range
<1>2. ASSUME NEW c PROVE Range(<<c>>) = {c}
  BY DEF Range
<1> QED BY <1>1, <1>2

\* What is put where grows, and has the places of ids.
LEMMA PutHereGrows ==
  ASSUME NEW cs, CardsOK(cs), NEW ids, puts \in [Views -> [Papers -> SUBSET Spots]], PutHere(cs, ids)
  PROVE  PutsGrow /\ (desk \in Views => \A c \in ids \cap DOMAIN cs : cs[c].intended \in puts'[desk][c])
<1>1. CASE desk \notin Views
  BY <1>1 DEF PutHere, PutsGrow
<1>2. CASE desk \in Views
  <2>1. PICK old : old = puts[desk]
    OBVIOUS
  <2>2. PICK new : new = [c \in Papers |-> IF c \in ids \cap DOMAIN cs THEN old[c] \cup {cs[c].intended} ELSE old[c]]
    OBVIOUS
  <2>3. puts' = [puts EXCEPT ![desk] = new]
    BY <1>2, <2>1, <2>2 DEF PutHere
  <2>4. old \in [Papers -> SUBSET Spots]
    BY <1>2, <2>1
  <2>5. \A c \in ids \cap DOMAIN cs : c \in Papers /\ cs[c].intended \in Spots
    BY DEF CardsOK, Card
  <2>6. \A c \in Papers : new[c] \in SUBSET Spots /\ old[c] \subseteq new[c]
    BY <2>2, <2>4, <2>5
  <2>7. new \in [Papers -> SUBSET Spots]
    BY <2>2, <2>6
  <2>8. puts' \in [Views -> [Papers -> SUBSET Spots]] /\ puts'[desk] = new /\ \A v \in Views \ {desk} : puts'[v] = puts[v]
    BY <1>2, <2>3, <2>7
  <2>9. PutsGrow
    <3>1. ASSUME NEW v \in Views, NEW c \in Papers PROVE puts[v][c] \subseteq puts'[v][c]
      <4>1. CASE v = desk
        BY <2>1, <2>6, <2>8, <4>1
      <4>2. CASE v # desk
        BY <2>8, <4>2
      <4> QED BY <4>1, <4>2
    <3> QED BY <2>8, <3>1 DEF PutsGrow
  <2>10. ASSUME NEW c \in ids \cap DOMAIN cs PROVE cs[c].intended \in puts'[desk][c]
    <3>1. new[c] = old[c] \cup {cs[c].intended}
      BY <2>2, <2>5
    <3> QED BY <2>8, <3>1
  <2> QED BY <2>9, <2>10
<1> QED BY <1>1, <1>2

\* The rank of a card among those brought to the front.
Rank(cs, ids, c) == Cardinality({o \in ids \cap DOMAIN cs : cs[o].z < cs[c].z})

LEMMA Ranks ==
  ASSUME NEW cs, CardsOK(cs), NEW ids
  PROVE  /\ Cardinality(ids \cap DOMAIN cs) \in Nat
         /\ \A c \in ids \cap DOMAIN cs : Rank(cs, ids, c) \in Nat /\ Rank(cs, ids, c) < Cardinality(ids \cap DOMAIN cs)
         /\ \A c, d \in ids \cap DOMAIN cs : cs[c].z < cs[d].z => Rank(cs, ids, c) < Rank(cs, ids, d)
<1>1. PICK taken : taken = ids \cap DOMAIN cs
  OBVIOUS
<1>2. IsFiniteSet(taken) /\ taken \subseteq DOMAIN cs
  BY <1>1, DeskConstants, FS_Subset DEF CardsOK
<1>3. Cardinality(taken) \in Nat
  BY <1>2, FS_CardinalityType
<1>4. \A c \in taken : cs[c].z \in Nat
  BY <1>2, CardsAreTyped
<1>5. ASSUME NEW c \in taken
      PROVE  Rank(cs, ids, c) \in Nat /\ Rank(cs, ids, c) < Cardinality(taken)
  <2>1. PICK S : S = {o \in taken : cs[o].z < cs[c].z}
    OBVIOUS
  <2>2. S \subseteq taken /\ c \notin S
    BY <1>4, <2>1
  <2>3. IsFiniteSet(S) /\ Cardinality(S) <= Cardinality(taken) /\ (Cardinality(S) = Cardinality(taken) => S = taken)
    BY <1>2, <2>2, FS_Subset
  <2>4. Cardinality(S) \in Nat /\ S # taken
    BY <2>2, <2>3, FS_CardinalityType
  <2>5. Rank(cs, ids, c) = Cardinality(S)
    BY <1>1, <2>1 DEF Rank
  <2> QED BY <1>3, <2>3, <2>4, <2>5
<1>6. ASSUME NEW c \in taken, NEW d \in taken, cs[c].z < cs[d].z
      PROVE  Rank(cs, ids, c) < Rank(cs, ids, d)
  <2>1. PICK S : S = {o \in taken : cs[o].z < cs[c].z}
    OBVIOUS
  <2>2. PICK T : T = {o \in taken : cs[o].z < cs[d].z}
    OBVIOUS
  <2>3. S \subseteq T /\ c \in T /\ c \notin S /\ T \subseteq taken
    BY <1>4, <1>6, <2>1, <2>2
  <2>4. IsFiniteSet(T)
    BY <1>2, <2>3, FS_Subset
  <2>5. IsFiniteSet(S) /\ Cardinality(S) <= Cardinality(T) /\ (Cardinality(S) = Cardinality(T) => S = T)
    BY <2>3, <2>4, FS_Subset
  <2>6. Cardinality(S) \in Nat /\ Cardinality(T) \in Nat /\ S # T
    BY <2>3, <2>4, <2>5, FS_CardinalityType
  <2>7. Rank(cs, ids, c) = Cardinality(S) /\ Rank(cs, ids, d) = Cardinality(T)
    BY <1>1, <2>1, <2>2 DEF Rank
  <2> QED BY <2>5, <2>6, <2>7
<1> QED BY <1>1, <1>3, <1>5, <1>6

\* Cards brought to the front get the next heights of the counter, and keep the rest.
Fronted(cs, ds, ids) ==
  /\ DOMAIN ds = DOMAIN cs /\ CardsOK(ds)
  /\ \A c \in DOMAIN cs :
       /\ ds[c].at = cs[c].at /\ ds[c].intended = cs[c].intended
       /\ ds[c].by = cs[c].by /\ ds[c].leader = cs[c].leader /\ ds[c].followers = cs[c].followers
       /\ ds[c].z = IF c \in ids THEN counter + Rank(cs, ids, c) ELSE cs[c].z

LEMMA ToFrontFacts ==
  ASSUME NEW cs, CardsOK(cs), counter \in Nat, NEW ids, NEW ds, ds = ToFront(cs, ids)
  PROVE  Fronted(cs, ds, ids)
<1>1. DOMAIN ds = DOMAIN cs
  BY DEF ToFront
<1>2. ASSUME NEW c \in DOMAIN cs
      PROVE  /\ ds[c] \in Card /\ ds[c].at = cs[c].at /\ ds[c].intended = cs[c].intended
             /\ ds[c].by = cs[c].by /\ ds[c].leader = cs[c].leader /\ ds[c].followers = cs[c].followers
             /\ ds[c].z = IF c \in ids THEN counter + Rank(cs, ids, c) ELSE cs[c].z
  <2>1. cs[c] \in Card
    BY DEF CardsOK
  <2>2. CASE c \in ids
    <3>1. PICK n : n = counter + Rank(cs, ids, c)
      OBVIOUS
    <3>4. c \in ids \cap DOMAIN cs
      BY <2>2
    <3>5. Rank(cs, ids, c) \in Nat
      BY ONLY <3>4, CardsOK(cs), Ranks
    <3>2. n \in Nat
      BY <3>1, <3>5
    <3>3. ds[c] = [cs[c] EXCEPT !.z = n, !.dirty = TRUE]
      BY <2>2, <3>1 DEF ToFront, Rank
    <3> QED BY ONLY <2>1, <2>2, <3>1, <3>2, <3>3 DEF Card
  <2>3. CASE c \notin ids
    <3>1. ds[c] = cs[c]
      BY <2>3 DEF ToFront
    <3> QED BY ONLY <2>1, <2>3, <3>1
  <2> QED BY <2>2, <2>3
<1> QED BY <1>1, <1>2 DEF Fronted, CardsOK

\* As long as no layout failed to be read the cards on show are below the counter.
LEMMA CardsBelow ==
  ASSUME DeskIInv, ~unread
  PROVE  \A c \in DOMAIN cards : cards[c].z \in Nat /\ cards[c].z < counter /\ \A d \in DOMAIN cards : cards[d].z = cards[c].z => d = c
<1>1. SUFFICES ASSUME NEW c \in DOMAIN cards
               PROVE  cards[c].z \in Nat /\ cards[c].z < counter /\ \A d \in DOMAIN cards : cards[d].z = cards[c].z => d = c
  OBVIOUS
<1>2. desk # Closed /\ layout # "loading" /\ Apart /\ Below
  BY DEF DeskIInv, LoadInv, HeightInv
<1>3. desk \in Shown
  BY <1>2 DEF DeskIInv, DeskTypes, DeskTypeOK, Shown
<1>4. DOMAIN cards \subseteq Papers /\ \A d \in DOMAIN cards : cards[d].z \in Nat
  BY CardsAreTyped DEF DeskIInv, DeskTypes
<1>5. \A d \in DOMAIN cards : HasHeight(desk, d, cards[d].z)
  BY DEF HasHeight, OnShow
<1>6. cards[c].z < counter
  BY <1>2, <1>4, <1>5 DEF Below
<1>7. ASSUME NEW d \in DOMAIN cards, cards[d].z = cards[c].z PROVE d = c
  BY <1>2, <1>3, <1>4, <1>5, <1>7 DEF Apart
<1> QED BY <1>4, <1>6, <1>7
\* ------------------------------------------------------- the steps of the fingers
LEMMA PointersHold == ASSUME DeskIInv PROVE PointersOK
BY DEF DeskIInv, DeskTypes, DeskTypeOK, GroupInv, PointersOK

LEMMA PointersSame ==
  ASSUME DeskIInv, UNCHANGED <<pointers, items, lifted>>, Range(picked') \subseteq Papers, deskActs' \in 0..MaxDeskActs
  PROVE  PointersOK'
<1>1. PointersOK
  BY PointersHold
<1> QED BY <1>1 DEF PointersOK

LEMMA SpotStep ==
  ASSUME DeskIInv, UNCHANGED <<ShownVars, counter, puts>>, SameSpots(cards, cards'), CardsOK(cards'),
         Saves(cards), GroupsKept, PointersOK'
  PROVE  DeskIInv'
<1>1. DOMAIN cards' = DOMAIN cards /\ \A c \in DOMAIN cards :
         cards'[c].at = cards[c].at /\ cards'[c].intended = cards[c].intended /\ cards'[c].z = cards[c].z
  BY DEF SameSpots
<1>2. counter \in Nat /\ counter' = counter /\ UNCHANGED ShownVars /\ puts' = puts
  BY DEF DeskIInv, DeskTypes, DeskTypeOK
<1>3. layout = "ready" => \A c \in DOMAIN cards : cards[c].at < container
  BY DEF DeskIInv, PlaceInv
<1>4. ASSUME ~unread, NEW c \in DOMAIN cards PROVE ~(counter <= cards'[c].z)
  <2>1. cards[c].z \in Nat /\ cards[c].z < counter
    BY <1>4, CardsBelow
  <2> QED BY <1>1, <1>2, <2>1
<1>5. CardsMoved
  BY <1>1, <1>2, <1>3, <1>4 DEF CardsMoved
<1>6. puts \in [Views -> [Papers -> SUBSET Spots]] /\ (desk \in Views => \A c \in DOMAIN cards : cards[c].intended \in puts[desk][c])
  BY DEF DeskIInv, DeskTypes, PlaceInv
<1>7. PutsGrow /\ CardsPut
  BY <1>1, <1>2, <1>6 DEF PutsGrow, CardsPut
<1> QED BY <1>2, <1>5, <1>7, CardsStep

LEMMA StillStep ==
  ASSUME DeskIInv, UNCHANGED <<ShownVars, counter, puts>>, SameSpots(cards, cards'), SameGroups(cards, cards'),
         CardsOK(cards'), Saves(cards), lifted' = lifted, PointersOK',
         ~lifted => \A c \in DOMAIN cards : cards[c].by # NoPointer
                      => cards[c].by \in DOMAIN pointers' /\ pointers'[cards[c].by] = pointers[cards[c].by]
  PROVE  DeskIInv'
<1>1. Grouped(cards) /\ LeadersIn(cards, items) /\ (~lifted => Plain(cards, pointers))
  BY DEF DeskIInv, GroupInv
<1>2. Grouped(cards') /\ LeadersIn(cards', items) /\ (\A ps : Plain(cards, ps) => Plain(cards', ps))
  BY <1>1, SameGroupsKeep
<1>3. ~lifted => Plain(cards, pointers')
  <2>1. HAVE ~lifted
  <2> QED BY <1>1, <2>1, PlainWith
<1>4. GroupsKept
  BY <1>2, <1>3 DEF GroupsKept
<1> QED BY <1>4, SpotStep

LEMMA SetMode ==
  ASSUME NEW cs, CardsOK(cs), NEW c \in DOMAIN cs, NEW m \in {"idle", "click", "armed", "drag"},
         NEW ds, ds = [cs EXCEPT ![c].mode = m]
  PROVE  CardsOK(ds) /\ SameSpots(cs, ds) /\ SameGroups(cs, ds)
<1>1. DOMAIN ds = DOMAIN cs /\ (\A d \in DOMAIN cs \ {c} : ds[d] = cs[d]) /\ ds[c] = [cs[c] EXCEPT !.mode = m]
  OBVIOUS
<1>2. cs[c] \in Card
  BY DEF CardsOK
<1>3. /\ ds[c] \in Card /\ ds[c].at = cs[c].at /\ ds[c].intended = cs[c].intended /\ ds[c].z = cs[c].z
      /\ ds[c].by = cs[c].by /\ ds[c].leader = cs[c].leader /\ ds[c].followers = cs[c].followers
  BY ONLY <1>1, <1>2, m \in {"idle", "click", "armed", "drag"} DEF Card
<1>4. CardsOK(ds)
  BY <1>1, <1>3 DEF CardsOK
<1>5. SameSpots(cs, ds)
  BY <1>1, <1>3 DEF SameSpots
<1>6. SameGroups(cs, ds)
  BY <1>1, <1>3 DEF SameGroups
<1> QED BY <1>4, <1>5, <1>6

LEMMA SameIsSame == \A cs : SameSpots(cs, cs) /\ SameGroups(cs, cs)
BY DEF SameSpots, SameGroups

LEMMA UnsavedIsSaves == ASSUME requests' = requests PROVE Saves(cards)
BY DEF Saves

\* What a step of the fingers starts from.
LEMMA DeskFacts ==
  ASSUME DeskIInv
  PROVE  /\ CardsOK(cards) /\ DOMAIN cards \subseteq Papers /\ counter \in Nat /\ container \in 0..(MaxPlace + 1)
         /\ items \subseteq Papers /\ Range(picked) \subseteq Papers /\ DOMAIN pointers \subseteq Pointers
         /\ lifted \in BOOLEAN /\ deskActs \in 0..MaxDeskActs /\ puts \in [Views -> [Papers -> SUBSET Spots]]
         /\ Grouped(cards) /\ LeadersIn(cards, items) /\ (~lifted => Plain(cards, pointers))
         /\ layout = "ready" => container > 0 /\ \A c \in DOMAIN cards : cards[c].at < container
         /\ desk \in Views => \A c \in DOMAIN cards : cards[c].intended \in puts[desk][c]
         /\ \A p \in DOMAIN pointers : pointers[p] \in Papers \cup {NoPaper} /\ (pointers[p] # NoPaper => pointers[p] \in items)
         /\ DeskTypes
BY DEF DeskIInv, DeskTypes, DeskTypeOK, GroupInv, PlaceInv, CardsOK

LEMMA PointerDownKeeps ==
  ASSUME DeskIInv, NEW p \in Pointers, NEW c \in Papers, PointerDown(p, c), deskActs' \in 0..MaxDeskActs
  PROVE  DeskIInv'
<1>1. /\ p \notin DOMAIN pointers /\ c \in DOMAIN cards /\ DOMAIN cards \subseteq items /\ pointers' = With(p, c)
      /\ cards' = [cards EXCEPT ![c].mode = "click"] /\ UNCHANGED <<counter, picked, requests, puts, ShownVars, lifted>>
  BY DEF PointerDown, PointerVars
<1>2. CardsOK(cards') /\ SameSpots(cards, cards') /\ SameGroups(cards, cards')
  BY <1>1, DeskFacts, SetMode
<1>3. /\ DOMAIN pointers' = DOMAIN pointers \cup {p} /\ pointers'[p] = c
      /\ \A q \in DOMAIN pointers : pointers'[q] = pointers[q]
  BY <1>1 DEF With
<1>4. PointersOK'
  <2>1. c \in items /\ items' = items /\ Range(picked') \subseteq Papers /\ lifted' \in BOOLEAN
    BY <1>1, DeskFacts DEF ShownVars
  <2>2. ASSUME NEW q \in DOMAIN pointers'
        PROVE  pointers'[q] \in Papers \cup {NoPaper} /\ (pointers'[q] # NoPaper => pointers'[q] \in items)
    <3>1. CASE q = p
      BY <1>3, <2>1, <3>1
    <3>2. CASE q # p
      BY <1>3, <3>2, DeskFacts
    <3> QED BY <3>1, <3>2
  <2>3. DOMAIN pointers' \subseteq Pointers
    BY <1>3, DeskFacts
  <2> QED BY ONLY <2>1, <2>2, <2>3, deskActs' \in 0..MaxDeskActs DEF PointersOK
<1>5. ~lifted => \A d \in DOMAIN cards : cards[d].by # NoPointer
                      => cards[d].by \in DOMAIN pointers' /\ pointers'[cards[d].by] = pointers[cards[d].by]
  BY <1>3, DeskFacts DEF Plain
<1>6. Saves(cards)
  BY <1>1, UnsavedIsSaves
<1> QED BY <1>1, <1>2, <1>4, <1>5, <1>6, StillStep

LEMMA CanvasDownKeeps ==
  ASSUME DeskIInv, NEW p \in Pointers, CanvasDown(p), deskActs' \in 0..MaxDeskActs
  PROVE  DeskIInv'
<1>1. /\ p \notin DOMAIN pointers /\ pointers' = With(p, NoPaper) /\ picked' = <<>>
      /\ UNCHANGED <<cards, counter, requests, puts, ShownVars, lifted>>
  BY DEF CanvasDown, PointerVars
<1>2. CardsOK(cards') /\ SameSpots(cards, cards') /\ SameGroups(cards, cards')
  BY <1>1, DeskFacts, SameIsSame
<1>3. /\ DOMAIN pointers' = DOMAIN pointers \cup {p} /\ pointers'[p] = NoPaper
      /\ \A q \in DOMAIN pointers : pointers'[q] = pointers[q]
  BY <1>1 DEF With
<1>4. PointersOK'
  <2>1. items' = items /\ Range(picked') \subseteq Papers /\ lifted' \in BOOLEAN
    BY <1>1, DeskFacts, RangeOfOne DEF ShownVars
  <2>2. ASSUME NEW q \in DOMAIN pointers'
        PROVE  pointers'[q] \in Papers \cup {NoPaper} /\ (pointers'[q] # NoPaper => pointers'[q] \in items)
    <3>1. CASE q = p
      BY <1>3, <2>1, <3>1
    <3>2. CASE q # p
      BY <1>3, <3>2, DeskFacts
    <3> QED BY <3>1, <3>2
  <2>3. DOMAIN pointers' \subseteq Pointers
    BY <1>3, DeskFacts
  <2> QED BY ONLY <2>1, <2>2, <2>3, deskActs' \in 0..MaxDeskActs DEF PointersOK
<1>5. ~lifted => \A d \in DOMAIN cards : cards[d].by # NoPointer
                      => cards[d].by \in DOMAIN pointers' /\ pointers'[cards[d].by] = pointers[cards[d].by]
  BY <1>3, DeskFacts DEF Plain
<1>6. Saves(cards)
  BY <1>1, UnsavedIsSaves
<1> QED BY <1>1, <1>2, <1>4, <1>5, <1>6, StillStep

\* The pointers left when one is gone.
LEMMA WithoutFacts ==
  ASSUME DeskIInv, NEW p, pointers' = Without(p), UNCHANGED items, Range(picked') \subseteq Papers,
         lifted' \in BOOLEAN, deskActs' \in 0..MaxDeskActs
  PROVE  /\ DOMAIN pointers' = DOMAIN pointers \ {p} /\ \A q \in DOMAIN pointers \ {p} : pointers'[q] = pointers[q]
         /\ PointersOK'
<1>1. DOMAIN pointers' = DOMAIN pointers \ {p} /\ \A q \in DOMAIN pointers \ {p} : pointers'[q] = pointers[q]
  BY DEF Without
<1>2. PointersOK'
  BY <1>1, DeskFacts DEF PointersOK
<1> QED BY <1>1, <1>2

LEMMA CanvasUpKeeps ==
  ASSUME DeskIInv, NEW p \in Pointers, CanvasUp(p)
  PROVE  DeskIInv'
<1>1. /\ p \in DOMAIN pointers /\ pointers[p] = NoPaper /\ pointers' = Without(p)
      /\ UNCHANGED <<cards, counter, picked, requests, puts, deskActs, ShownVars, lifted>>
  BY DEF CanvasUp, PointerVars
<1>2. CardsOK(cards') /\ SameSpots(cards, cards') /\ SameGroups(cards, cards')
  BY <1>1, DeskFacts, SameIsSame
<1>3. UNCHANGED items /\ Range(picked') \subseteq Papers /\ lifted' \in BOOLEAN /\ deskActs' \in 0..MaxDeskActs
  BY <1>1, DeskFacts DEF ShownVars
<1>4. /\ DOMAIN pointers' = DOMAIN pointers \ {p} /\ \A q \in DOMAIN pointers \ {p} : pointers'[q] = pointers[q]
      /\ PointersOK'
  BY <1>1, <1>3, WithoutFacts
<1>5. NoPaper \notin DOMAIN cards
  BY DeskConstants, DeskFacts
<1>6. ~lifted => \A d \in DOMAIN cards : cards[d].by # NoPointer
                      => cards[d].by \in DOMAIN pointers' /\ pointers'[cards[d].by] = pointers[cards[d].by]
  BY <1>1, <1>4, <1>5, DeskFacts DEF Plain
<1>7. Saves(cards)
  BY <1>1, UnsavedIsSaves
<1> QED BY <1>1, <1>2, <1>4, <1>6, <1>7, StillStep

LEMMA PastThresholdKeeps ==
  ASSUME DeskIInv, NEW p \in Pointers, PastThreshold(p)
  PROVE  DeskIInv'
<1>1. PICK c \in DOMAIN cards : cards' = [cards EXCEPT ![c].mode = "armed"]
  BY DEF PastThreshold
<1>2. UNCHANGED <<counter, picked, pointers, requests, puts, deskActs, ShownVars, lifted>>
  BY DEF PastThreshold, PointerVars
<1>3. CardsOK(cards') /\ SameSpots(cards, cards') /\ SameGroups(cards, cards')
  BY <1>1, DeskFacts, SetMode
<1>4. PointersOK'
  BY <1>2, DeskFacts, PointersSame DEF ShownVars
<1>5. ~lifted => \A d \in DOMAIN cards : cards[d].by # NoPointer
                      => cards[d].by \in DOMAIN pointers' /\ pointers'[cards[d].by] = pointers[cards[d].by]
  BY <1>2, DeskFacts DEF Plain
<1>6. Saves(cards)
  BY <1>2, UnsavedIsSaves
<1> QED BY <1>2, <1>3, <1>4, <1>5, <1>6, StillStep

LEMMA DragMoveKeeps ==
  ASSUME DeskIInv, NEW p \in Pointers, NEW dx \in {-1, 1}, DragMove(p, dx)
  PROVE  DeskIInv'
<1>1. cards' = [c \in DOMAIN cards |-> IF cards[c].by = p THEN [cards[c] EXCEPT !.delta = dx] ELSE cards[c]]
  BY DEF DragMove
<1>2. UNCHANGED <<counter, picked, pointers, requests, puts, deskActs, ShownVars, lifted>>
  BY DEF DragMove, PointerVars
<1>3. DOMAIN cards' = DOMAIN cards /\ \A c \in DOMAIN cards :
        /\ cards'[c] \in Card /\ cards'[c].at = cards[c].at /\ cards'[c].intended = cards[c].intended /\ cards'[c].z = cards[c].z
        /\ cards'[c].by = cards[c].by /\ cards'[c].leader = cards[c].leader /\ cards'[c].followers = cards[c].followers
  <2>1. DOMAIN cards' = DOMAIN cards
    BY <1>1
  <2>2. ASSUME NEW c \in DOMAIN cards
        PROVE  /\ cards'[c] \in Card /\ cards'[c].at = cards[c].at /\ cards'[c].intended = cards[c].intended /\ cards'[c].z = cards[c].z
               /\ cards'[c].by = cards[c].by /\ cards'[c].leader = cards[c].leader /\ cards'[c].followers = cards[c].followers
    <3>1. cards'[c] = IF cards[c].by = p THEN [cards[c] EXCEPT !.delta = dx] ELSE cards[c]
      BY <1>1
    <3>2. cards[c] \in Card
      BY DeskFacts DEF CardsOK
    <3> QED BY ONLY <3>1, <3>2, dx \in {-1, 1} DEF Card
  <2> QED BY <2>1, <2>2
<1>4. CardsOK(cards') /\ SameSpots(cards, cards') /\ SameGroups(cards, cards')
  BY <1>3, DeskFacts DEF CardsOK, SameSpots, SameGroups
<1>5. PointersOK'
  BY <1>2, DeskFacts, PointersSame DEF ShownVars
<1>6. ~lifted => \A d \in DOMAIN cards : cards[d].by # NoPointer
                      => cards[d].by \in DOMAIN pointers' /\ pointers'[cards[d].by] = pointers[cards[d].by]
  BY <1>2, DeskFacts DEF Plain
<1>7. Saves(cards)
  BY <1>2, UnsavedIsSaves
<1> QED BY <1>2, <1>4, <1>5, <1>6, <1>7, StillStep

LEMMA ArrowKeeps ==
  ASSUME DeskIInv, NEW way \in {-1, 1}, NEW extend \in BOOLEAN, Arrow(way, extend), deskActs' \in 0..MaxDeskActs
  PROVE  DeskIInv'
<1>1. UNCHANGED <<cards, counter, pointers, requests, puts, ShownVars, lifted>>
  BY DEF Arrow, PointerVars
<1>2. Range(picked') \subseteq Papers
  <2>1. (\E top \in DOMAIN cards : picked' = <<top>>)
        \/ \E c \in DOMAIN cards : (picked' \in ByHeight((Range(picked) \cap DOMAIN cards) \cup {c})) \/ picked' = <<c>>
    BY DEF Arrow
  <2>2. DOMAIN cards \subseteq Papers
    BY DeskFacts
  <2>3. CASE \E c \in DOMAIN cards : picked' = <<c>>
    BY <2>2, <2>3, RangeOfOne
  <2>4. CASE \E c \in DOMAIN cards : picked' \in ByHeight((Range(picked) \cap DOMAIN cards) \cup {c})
    <3>1. PICK c \in DOMAIN cards : picked' \in ByHeight((Range(picked) \cap DOMAIN cards) \cup {c})
      BY <2>4
    <3>2. Range(picked') = (Range(picked) \cap DOMAIN cards) \cup {c}
      BY <3>1, ByHeightRange
    <3> QED BY <2>2, <3>2
  <2> QED BY <2>1, <2>3, <2>4
<1>3. CardsOK(cards') /\ SameSpots(cards, cards') /\ SameGroups(cards, cards')
  BY <1>1, DeskFacts, SameIsSame
<1>4. PointersOK'
  BY <1>1, <1>2, PointersSame DEF ShownVars
<1>5. ~lifted => \A d \in DOMAIN cards : cards[d].by # NoPointer
                      => cards[d].by \in DOMAIN pointers' /\ pointers'[cards[d].by] = pointers[cards[d].by]
  BY <1>1, DeskFacts DEF Plain
<1>6. Saves(cards)
  BY <1>1, UnsavedIsSaves
<1> QED BY <1>1, <1>3, <1>4, <1>5, <1>6, StillStep
LEMMA PhysicsRestsKeeps ==
  ASSUME DeskIInv, NEW c \in Papers, PhysicsRests(c)
  PROVE  DeskIInv'
<1>1. UNCHANGED <<counter, picked, pointers, requests, puts, deskActs, ShownVars, lifted>> /\ c \in DOMAIN cards
  BY DEF PhysicsRests, PointerVars
<1>2. PICK turned \in BOOLEAN : cards' = [Halt(cards, c) EXCEPT ![c].delta = 0, ![c].dirty = @ \/ turned]
  BY DEF PhysicsRests
<1>3. PICK hs : hs = Halt(cards, c)
  OBVIOUS
<1>4. DOMAIN hs = DOMAIN cards /\ CardsOK(hs) /\ SameSpots(cards, hs)
  BY <1>1, <1>3, DeskFacts, HaltFacts DEF SameSpots
<1>5. Grouped(hs) /\ LeadersIn(hs, items) /\ (\A ps : Plain(cards, ps) => Plain(hs, ps))
  BY <1>1, <1>3, DeskFacts, HaltKeeps
<1>6. PICK dirty : dirty = (hs[c].dirty \/ turned)
  OBVIOUS
<1>7. hs[c] \in Card /\ dirty \in BOOLEAN
  BY <1>1, <1>4, <1>6 DEF CardsOK, Card
<1>8. cards' = [hs EXCEPT ![c].delta = 0, ![c].dirty = hs[c].dirty \/ turned]
  BY <1>1, <1>2, <1>3, <1>4
<1>9. DOMAIN cards' = DOMAIN hs /\ (\A d \in DOMAIN hs \ {c} : cards'[d] = hs[d])
      /\ cards'[c] = [hs[c] EXCEPT !.delta = 0, !.dirty = dirty]
  BY <1>1, <1>4, <1>6, <1>8
<1>10. /\ cards'[c] \in Card /\ cards'[c].at = hs[c].at /\ cards'[c].intended = hs[c].intended /\ cards'[c].z = hs[c].z
       /\ cards'[c].by = hs[c].by /\ cards'[c].leader = hs[c].leader /\ cards'[c].followers = hs[c].followers
  BY ONLY <1>7, <1>9 DEF Card
<1>11. CardsOK(cards') /\ SameSpots(hs, cards') /\ SameGroups(hs, cards')
  BY <1>4, <1>9, <1>10 DEF CardsOK, SameSpots, SameGroups
<1>12. SameSpots(cards, cards')
  BY <1>4, <1>11 DEF SameSpots
<1>13. GroupsKept
  <2>1. Grouped(cards') /\ LeadersIn(cards', items) /\ (\A ps : Plain(hs, ps) => Plain(cards', ps))
    BY <1>5, <1>11, SameGroupsKeep
  <2> QED BY <1>1, <1>5, <2>1, DeskFacts DEF GroupsKept
<1>14. PointersOK'
  BY <1>1, DeskFacts, PointersSame DEF ShownVars
<1>15. Saves(cards)
  BY <1>1, UnsavedIsSaves
<1> QED BY <1>1, <1>11, <1>12, <1>13, <1>14, <1>15, SpotStep

LEMMA PhysicsTickKeeps ==
  ASSUME DeskIInv, NEW c \in Papers, PhysicsTick(c)
  PROVE  DeskIInv'
<1>1. UNCHANGED <<counter, picked, pointers, requests, deskActs, ShownVars, lifted>> /\ c \in DOMAIN cards
  BY DEF PhysicsTick, PointerVars
<1>2. PICK place : place = Constrain(cards[c].at + cards[c].delta, container)
  OBVIOUS
<1>3. PICK group : group = {c} \cup cards[c].followers
  OBVIOUS
<1>4. /\ cards' = [d \in DOMAIN cards |-> IF d \in group THEN [MovedTo(cards[d], place) EXCEPT !.delta = IF d = c THEN 0 ELSE @]
                                         ELSE cards[d]]
      /\ PutHere(cards', group)
  BY <1>2, <1>3 DEF PhysicsTick
<1>5. place \in Spots /\ (container > 0 => place < container)
  <2>1. cards[c].at \in Int /\ cards[c].delta \in Int
    BY <1>1, DeskFacts, CardsAreTyped DEF Spots
  <2> QED BY <1>2, <2>1, DeskFacts, ConstrainFits
<1>6. DOMAIN cards' = DOMAIN cards
  BY <1>4
<1>7. ASSUME NEW d \in DOMAIN cards
      PROVE  /\ cards'[d] \in Card /\ cards'[d].z = cards[d].z
             /\ cards'[d].at = (IF d \in group THEN place ELSE cards[d].at)
             /\ cards'[d].intended = (IF d \in group THEN place ELSE cards[d].intended)
             /\ cards'[d].by = cards[d].by /\ cards'[d].leader = cards[d].leader /\ cards'[d].followers = cards[d].followers
  <2>1. cards[d] \in Card
    BY DeskFacts DEF CardsOK
  <2>2. CASE d \in group
    <3>1. PICK m : m = MovedTo(cards[d], place)
      OBVIOUS
    <3>2. PICK dx : dx = IF d = c THEN 0 ELSE m.delta
      OBVIOUS
    <3>3. cards'[d] = [m EXCEPT !.delta = dx]
      BY <1>4, <2>2, <3>1, <3>2
    <3>4. /\ m \in Card /\ m.z = cards[d].z /\ m.at = place /\ m.intended = place
          /\ m.by = cards[d].by /\ m.leader = cards[d].leader /\ m.followers = cards[d].followers
      BY ONLY <1>5, <2>1, <3>1 DEF MovedTo, Card
    <3>5. dx \in {-1, 0, 1}
      BY ONLY <3>2, <3>4 DEF Card
    <3> QED BY ONLY <2>2, <3>3, <3>4, <3>5 DEF Card
  <2>3. CASE d \notin group
    <3>1. cards'[d] = cards[d]
      BY <1>4, <2>3
    <3> QED BY ONLY <2>1, <2>3, <3>1
  <2> QED BY <2>2, <2>3
<1>8. CardsOK(cards')
  BY <1>6, <1>7, DeskFacts DEF CardsOK
<1>9. PutsGrow /\ (desk \in Views => \A d \in group \cap DOMAIN cards : cards'[d].intended \in puts'[desk][d])
  BY <1>4, <1>6, <1>8, DeskFacts, PutHereGrows
<1>10. CardsPut
  <2>1. ASSUME desk \in Views, NEW d \in DOMAIN cards PROVE cards'[d].intended \in puts'[desk][d]
    <3>1. CASE d \in group
      BY <1>9, <2>1, <3>1
    <3>2. CASE d \notin group
      <4>1. cards'[d].intended = cards[d].intended
        BY <1>7, <3>2
      <4>2. cards[d].intended \in puts[desk][d] /\ d \in Papers
        BY <2>1, DeskFacts
      <4> QED BY <1>9, <2>1, <4>1, <4>2 DEF PutsGrow
    <3> QED BY <3>1, <3>2
  <2> QED BY <2>1 DEF CardsPut
<1>11. CardsMoved
  <2>1. counter \in Nat /\ counter' = counter
    BY <1>1, DeskFacts
  <2>2. layout = "ready" => \A d \in DOMAIN cards : cards'[d].at < container
    BY <1>5, <1>7, DeskFacts
  <2>3. ~unread => \A d \in DOMAIN cards : ~(counter <= cards'[d].z)
    <3>1. ASSUME ~unread, NEW d \in DOMAIN cards PROVE ~(counter <= cards'[d].z)
      <4>1. cards[d].z \in Nat /\ cards[d].z < counter
        BY <3>1, CardsBelow
      <4> QED BY <1>7, <2>1, <4>1
    <3> QED BY <3>1
  <2> QED BY <1>6, <1>7, <1>8, <2>1, <2>2, <2>3 DEF CardsMoved
<1>12. GroupsKept
  <2>1. SameGroups(cards, cards')
    BY <1>6, <1>7 DEF SameGroups
  <2>2. Grouped(cards') /\ LeadersIn(cards', items) /\ (\A ps : Plain(cards, ps) => Plain(cards', ps))
    BY <2>1, DeskFacts, SameGroupsKeep
  <2> QED BY <1>1, <2>2, DeskFacts DEF GroupsKept
<1>13. PointersOK'
  BY <1>1, DeskFacts, PointersSame DEF ShownVars
<1>14. Saves(cards)
  BY <1>1, UnsavedIsSaves
<1> QED BY <1>1, <1>9, <1>10, <1>11, <1>12, <1>13, <1>14, CardsStep

LEMMA EndDragFacts ==
  ASSUME DeskIInv, NEW c \in DOMAIN cards, NEW p, EndDrag(c, p)
  PROVE  /\ UNCHANGED <<counter, picked>> /\ CardsOK(cards') /\ SameSpots(cards, cards') /\ Saves(cards)
         /\ Grouped(cards') /\ LeadersIn(cards', items) /\ (\A ps : Plain(cards, ps) => Plain(cards', ps))
         /\ \A d \in DOMAIN cards' : cards'[d].by # NoPointer => cards'[d].by # p
<1>1. PICK fs : fs = FinishDrag(cards, p)
  OBVIOUS
<1>2. cards' = [fs EXCEPT ![c].mode = "idle"] /\ SaveLayout(cards) /\ UNCHANGED <<counter, picked>>
  BY <1>1 DEF EndDrag
<1>3. /\ CardsOK(fs) /\ SameSpots(cards, fs) /\ Grouped(fs) /\ LeadersIn(fs, items)
      /\ \A d \in DOMAIN fs : fs[d].by # NoPointer => fs[d].by = cards[d].by /\ fs[d].by # p
      /\ \A ps : Plain(cards, ps) => Plain(fs, ps)
  BY <1>1, DeskFacts, FinishDragFacts
<1>4. c \in DOMAIN fs
  BY <1>3 DEF SameSpots
<1>5. CardsOK(cards') /\ SameSpots(fs, cards') /\ SameGroups(fs, cards')
  BY <1>2, <1>3, <1>4, SetMode
<1>6. Grouped(cards') /\ LeadersIn(cards', items) /\ (\A ps : Plain(fs, ps) => Plain(cards', ps))
  BY <1>3, <1>5, SameGroupsKeep
<1>7. SameSpots(cards, cards')
  BY <1>3, <1>5 DEF SameSpots
<1>8. Saves(cards)
  BY <1>2, DeskFacts, SaveLayoutSaves
<1>9. \A d \in DOMAIN cards' : cards'[d].by # NoPointer => cards'[d].by # p
  BY <1>3, <1>5 DEF SameGroups
<1>10. \A ps : Plain(cards, ps) => Plain(cards', ps)
  BY <1>3, <1>6
<1> QED BY <1>2, <1>5, <1>6, <1>7, <1>8, <1>9, <1>10

\* The cards a finger p drags are given back when it goes: nobody drags with p any more.
LEMMA PlainWithout ==
  ASSUME NEW cs, NEW ps, NEW p, Plain(cs, ps), \A c \in DOMAIN cs : cs[c].by # NoPointer => cs[c].by # p,
         NEW qs, DOMAIN qs = DOMAIN ps \ {p}, \A q \in DOMAIN ps \ {p} : qs[q] = ps[q]
  PROVE  Plain(cs, qs)
BY DEF Plain

LEMMA PointerCancelKeeps ==
  ASSUME DeskIInv, NEW p \in Pointers, PointerCancel(p)
  PROVE  DeskIInv'
<1>1. PICK c \in DOMAIN cards : EndDrag(c, p)
  BY DEF PointerCancel
<1>2. pointers' = Without(p) /\ UNCHANGED <<puts, deskActs, ShownVars, lifted>>
  BY DEF PointerCancel, PointerVars
<1>3. /\ UNCHANGED <<counter, picked>> /\ CardsOK(cards') /\ SameSpots(cards, cards') /\ Saves(cards)
      /\ Grouped(cards') /\ LeadersIn(cards', items) /\ (\A ps : Plain(cards, ps) => Plain(cards', ps))
      /\ \A d \in DOMAIN cards' : cards'[d].by # NoPointer => cards'[d].by # p
  BY <1>1, EndDragFacts
<1>4. UNCHANGED items /\ Range(picked') \subseteq Papers /\ lifted' \in BOOLEAN /\ deskActs' \in 0..MaxDeskActs
  BY <1>2, <1>3, DeskFacts DEF ShownVars
<1>5. /\ DOMAIN pointers' = DOMAIN pointers \ {p} /\ \A q \in DOMAIN pointers \ {p} : pointers'[q] = pointers[q]
      /\ PointersOK'
  BY <1>2, <1>4, WithoutFacts
<1>6. GroupsKept
  <2>1. ASSUME ~lifted PROVE Plain(cards', pointers')
    <3>1. Plain(cards', pointers)
      BY <1>3, <2>1, DeskFacts
    <3>2. PICK cs, qs : cs = cards' /\ qs = pointers'
      OBVIOUS
    <3>3. \A d \in DOMAIN cs : cs[d].by # NoPointer => cs[d].by # p
      BY <1>3, <3>2
    <3>4. DOMAIN qs = DOMAIN pointers \ {p} /\ \A q \in DOMAIN pointers \ {p} : qs[q] = pointers[q]
      BY <1>5, <3>2
    <3>6. Plain(cs, pointers)
      BY <3>1, <3>2
    <3>5. Plain(cs, qs)
      BY ONLY <3>3, <3>4, <3>6 DEF Plain
    <3> QED BY <3>2, <3>5
  <2> QED BY <1>2, <1>3, <2>1 DEF GroupsKept
<1> QED BY <1>2, <1>3, <1>5, <1>6, SpotStep
LEMMA ClickFacts ==
  ASSUME DeskIInv, NEW c \in DOMAIN cards, NEW modifier \in BOOLEAN, Click(c, modifier)
  PROVE  CardsMoved /\ SameGroups(cards, cards') /\ requests' = requests /\ Range(picked') \subseteq Papers
         /\ \A d \in DOMAIN cards : cards'[d].intended = cards[d].intended
<1>1. PICK front \in BOOLEAN :
        /\ cards' = [cards EXCEPT ![c].mode = "idle", ![c].z = IF front THEN counter ELSE @]
        /\ counter' = counter + (IF front THEN 1 ELSE 0) /\ requests' = requests
  BY DEF Click
<1>2. Range(picked') \subseteq Papers
  <2>1. PICK ids : ids = Range(picked) \cup {c}
    OBVIOUS
  <2>2. ids \subseteq Papers
    BY <2>1, DeskFacts
  <2>3. picked' = picked \/ \E s \in SUBSET ids : picked' \in ByHeight(s)
    BY <2>1 DEF Click
  <2> QED BY <2>2, <2>3, DeskFacts, ByHeightRange
<1>3. PICK z : z = IF front THEN counter ELSE cards[c].z
  OBVIOUS
<1>4. DOMAIN cards' = DOMAIN cards /\ (\A d \in DOMAIN cards \ {c} : cards'[d] = cards[d])
      /\ cards'[c] = [cards[c] EXCEPT !.mode = "idle", !.z = z]
  BY <1>1, <1>3
<1>5. cards[c] \in Card /\ counter \in Nat
  BY DeskFacts DEF CardsOK
<1>6. z \in Nat
  BY <1>3, <1>5 DEF Card
<1>7. /\ cards'[c] \in Card /\ cards'[c].at = cards[c].at /\ cards'[c].intended = cards[c].intended /\ cards'[c].z = z
      /\ cards'[c].by = cards[c].by /\ cards'[c].leader = cards[c].leader /\ cards'[c].followers = cards[c].followers
  BY ONLY <1>4, <1>5, <1>6 DEF Card
<1>8. SameGroups(cards, cards') /\ \A d \in DOMAIN cards : cards'[d].intended = cards[d].intended
  BY <1>4, <1>7 DEF SameGroups
<1>9. CardsOK(cards')
  BY <1>4, <1>7, DeskFacts DEF CardsOK
<1>10. counter' \in Nat /\ counter <= counter'
  BY <1>1, <1>5
<1>11. layout = "ready" => \A d \in DOMAIN cards : cards'[d].at < container
  BY <1>4, <1>7, DeskFacts
<1>12. ASSUME NEW d \in DOMAIN cards
       PROVE  cards'[d].z = cards[d].z \/ (d = c /\ counter <= cards'[d].z /\ cards'[d].z < counter')
  <2>1. CASE d = c /\ front
    BY <1>1, <1>3, <1>5, <1>7, <2>1
  <2>2. CASE d # c \/ ~front
    BY <1>3, <1>4, <1>7, <2>2
  <2> QED BY <2>1, <2>2
<1>13. ASSUME ~unread, NEW d \in DOMAIN cards, NEW e \in DOMAIN cards, cards'[d].z = cards'[e].z, counter <= cards'[d].z
       PROVE  d = e
  <2>1. \A o \in DOMAIN cards : cards[o].z \in Nat /\ cards[o].z < counter
    BY <1>13, CardsBelow
  <2>2. cards'[d].z # cards[d].z /\ cards'[e].z # cards[e].z
    BY <1>5, <1>13, <2>1
  <2> QED BY <1>12, <2>2
<1>14. CardsMoved
  BY <1>4, <1>9, <1>10, <1>11, <1>12, <1>13 DEF CardsMoved
<1> QED BY <1>1, <1>2, <1>8, <1>14

\* The puts stay as they are when no card is meant to be elsewhere.
LEMMA UnmovedPut ==
  ASSUME DeskIInv, puts' = puts, \A d \in DOMAIN cards : cards'[d].intended = cards[d].intended
  PROVE  PutsGrow /\ CardsPut
BY DeskFacts DEF PutsGrow, CardsPut

LEMMA PointerUpKeeps ==
  ASSUME DeskIInv, NEW p \in Pointers, NEW modifier \in BOOLEAN, PointerUp(p, modifier)
  PROVE  DeskIInv'
<1>1. PICK c \in DOMAIN cards :
          \/ EndDrag(c, p)
          \/ Click(c, modifier)
          \/ UNCHANGED <<cards, counter, picked, requests>>
  BY DEF PointerUp
<1>2. /\ pointers' = Without(p) /\ UNCHANGED <<puts, deskActs, ShownVars>>
      /\ lifted' = (lifted \/ \E d \in DOMAIN cards : cards'[d].by = p)
  BY DEF PointerUp
<1>3. /\ CardsMoved /\ Saves(cards) /\ Range(picked') \subseteq Papers
      /\ Grouped(cards') /\ LeadersIn(cards', items) /\ (\A ps : Plain(cards, ps) => Plain(cards', ps))
      /\ \A d \in DOMAIN cards : cards'[d].intended = cards[d].intended
  <2>1. CASE EndDrag(c, p)
    <3>1. /\ UNCHANGED <<counter, picked>> /\ CardsOK(cards') /\ SameSpots(cards, cards') /\ Saves(cards)
          /\ Grouped(cards') /\ LeadersIn(cards', items) /\ (\A ps : Plain(cards, ps) => Plain(cards', ps))
      BY <2>1, EndDragFacts
    <3>2. CardsMoved
      <4>1. ASSUME ~unread, NEW d \in DOMAIN cards PROVE ~(counter <= cards'[d].z)
        <5>1. cards[d].z \in Nat /\ cards[d].z < counter /\ counter \in Nat /\ cards'[d].z = cards[d].z
          BY <3>1, <4>1, CardsBelow, DeskFacts DEF SameSpots
        <5> QED BY <5>1
      <4>2. counter' = counter /\ counter \in Nat
        BY <3>1, DeskFacts
      <4>3. layout = "ready" => \A d \in DOMAIN cards : cards'[d].at < container
        BY <3>1, DeskFacts DEF SameSpots
      <4> QED BY <3>1, <4>1, <4>2, <4>3 DEF CardsMoved, SameSpots
    <3> QED BY <3>1, <3>2, DeskFacts DEF SameSpots
  <2>2. CASE Click(c, modifier)
    <3>1. CardsMoved /\ SameGroups(cards, cards') /\ requests' = requests /\ Range(picked') \subseteq Papers
          /\ \A d \in DOMAIN cards : cards'[d].intended = cards[d].intended
      BY <2>2, ClickFacts
    <3>2. Grouped(cards') /\ LeadersIn(cards', items) /\ (\A ps : Plain(cards, ps) => Plain(cards', ps))
      BY <3>1, DeskFacts, SameGroupsKeep
    <3> QED BY <3>1, <3>2, UnsavedIsSaves
  <2>3. CASE UNCHANGED <<cards, counter, picked, requests>>
    <3>1. CardsMoved
      <4>1. ASSUME ~unread, NEW d \in DOMAIN cards PROVE ~(counter <= cards'[d].z)
        <5>1. cards[d].z \in Nat /\ cards[d].z < counter /\ counter \in Nat /\ cards'[d].z = cards[d].z
          BY <2>3, <4>1, CardsBelow, DeskFacts
        <5> QED BY <5>1
      <4> QED BY <2>3, <4>1, DeskFacts DEF CardsMoved
    <3> QED BY <2>3, <3>1, DeskFacts, UnsavedIsSaves
  <2> QED BY <1>1, <2>1, <2>2, <2>3
<1>4. UNCHANGED items /\ lifted' \in BOOLEAN /\ deskActs' \in 0..MaxDeskActs
  BY <1>2, DeskFacts DEF ShownVars
<1>5. /\ DOMAIN pointers' = DOMAIN pointers \ {p} /\ \A q \in DOMAIN pointers \ {p} : pointers'[q] = pointers[q]
      /\ PointersOK'
  BY <1>2, <1>3, <1>4, WithoutFacts
<1>6. GroupsKept
  <2>1. ASSUME ~lifted' PROVE Plain(cards', pointers')
    <3>1. Plain(cards', pointers)
      BY <1>2, <1>3, <2>1, DeskFacts
    <3>2. \A d \in DOMAIN cards' : cards'[d].by # p
      BY <1>2, <1>3, <2>1 DEF CardsMoved
    <3>3. PICK cs, qs : cs = cards' /\ qs = pointers'
      OBVIOUS
    <3>4. Plain(cs, qs)
      BY ONLY <1>5, <3>1, <3>2, <3>3, PlainWithout
    <3> QED BY <3>3, <3>4
  <2> QED BY <1>3, <2>1 DEF GroupsKept
<1>7. PutsGrow /\ CardsPut
  BY <1>2, <1>3, UnmovedPut
<1> QED BY <1>2, <1>3, <1>5, <1>6, <1>7, CardsStep
LEMMA UnpickedArePapers == ASSUME DeskIInv, NEW c \in DOMAIN cards PROVE Unpicked(c) \subseteq DOMAIN cards
BY DEF Unpicked, StackBelow

LEMMA LongPressKeeps ==
  ASSUME DeskIInv, NEW p \in Pointers, LongPress(p)
  PROVE  DeskIInv'
<1>1. PICK c \in DOMAIN cards :
        /\ picked' \in ByHeight((Range(picked) \cap DOMAIN cards) \cup Unpicked(c))
        /\ \/ UNCHANGED <<cards, puts>>
           \/ \E l \in DOMAIN cards, turn \in Turns :
                /\ cards[l].by # NoPointer /\ \E q \in DOMAIN pointers \ {p} : pointers[q] = l
                /\ cards' = AttachToGroup(cards, Unpicked(c), l, turn) /\ PutHere(cards', Unpicked(c))
  BY DEF LongPress
<1>2. UNCHANGED <<counter, pointers, requests, deskActs, ShownVars, lifted>>
  BY DEF LongPress, PointerVars
<1>3. Range(picked') \subseteq Papers
  <2>1. Range(picked') = (Range(picked) \cap DOMAIN cards) \cup Unpicked(c)
    BY <1>1, ByHeightRange
  <2> QED BY <2>1, DeskFacts, UnpickedArePapers
<1>4. PointersOK' /\ Saves(cards)
  BY <1>2, <1>3, DeskFacts, PointersSame, UnsavedIsSaves DEF ShownVars
<1>5. CASE UNCHANGED <<cards, puts>>
  <2>1. CardsOK(cards') /\ SameSpots(cards, cards') /\ SameGroups(cards, cards')
    BY <1>5, DeskFacts, SameIsSame
  <2>2. ~lifted => \A d \in DOMAIN cards : cards[d].by # NoPointer
                      => cards[d].by \in DOMAIN pointers' /\ pointers'[cards[d].by] = pointers[cards[d].by]
    BY <1>2, DeskFacts DEF Plain
  <2> QED BY <1>2, <1>4, <1>5, <2>1, <2>2, StillStep
<1>6. ASSUME NEW l \in DOMAIN cards, NEW turn \in Turns, cards[l].by # NoPointer, \E q \in DOMAIN pointers \ {p} : pointers[q] = l,
             cards' = AttachToGroup(cards, Unpicked(c), l, turn), PutHere(cards', Unpicked(c))
      PROVE  DeskIInv'
  <2>1. PICK ids : ids = {d \in (Unpicked(c) \cap DOMAIN cards) \ {l} : cards[d].by = NoPointer}
    OBVIOUS
  <2>2. PICK ds : ds = cards'
    OBVIOUS
  <2>3. ds = Attach(cards, l, ids, turn)
    BY <1>6, <2>1, <2>2 DEF AttachToGroup
  <2>4. ids \subseteq DOMAIN cards /\ l \notin ids /\ ids \subseteq Unpicked(c) /\ \A d \in ids : cards[d].by = NoPointer
    BY <2>1
  <2>5. l \in items
    BY <1>6, DeskConstants, DeskFacts
  <2>6. CardsOK(cards) /\ Grouped(cards) /\ LeadersIn(cards, items)
    BY DeskFacts
  <2>7. CardsAttached(cards, ds, l, ids)
    BY ONLY <2>3, <2>4, <2>6, l \in DOMAIN cards, AttachFacts
  <2>8. /\ Grouped(ds) /\ LeadersIn(ds, items)
        /\ \A ps : Plain(cards, ps) /\ cards[l].leader = NoPaper /\ (\A d \in ids : cards[d].by = NoPointer) => Plain(ds, ps)
    <3>1. \A d \in ids : cards[d].by \in {NoPointer, cards[l].by}
      BY <2>4
    <3> QED BY ONLY <2>3, <2>4, <2>5, <2>6, <3>1, l \in DOMAIN cards, AttachKeeps
  <2>9. /\ DOMAIN ds = DOMAIN cards /\ CardsOK(ds)
        /\ \A d \in DOMAIN cards :
             /\ ds[d].at = IF d \in ids THEN cards[l].at ELSE cards[d].at
             /\ ds[d].intended = IF d \in ids THEN cards[l].at ELSE cards[d].intended
             /\ ds[d].z = cards[d].z
    BY ONLY <2>7 DEF CardsAttached
  <2>10. PutsGrow /\ (desk \in Views => \A d \in Unpicked(c) \cap DOMAIN ds : ds[d].intended \in puts'[desk][d])
    BY <1>6, <2>2, <2>9, DeskFacts, PutHereGrows
  <2>11. CardsPut
    <3>1. ASSUME desk \in Views, NEW d \in DOMAIN cards PROVE ds[d].intended \in puts'[desk][d]
      <4>1. CASE d \in ids
        BY <2>4, <2>9, <2>10, <3>1, <4>1
      <4>2. CASE d \notin ids
        <5>1. ds[d].intended = cards[d].intended
          BY <2>9, <4>2
        <5>2. cards[d].intended \in puts[desk][d] /\ d \in Papers
          BY <3>1, DeskFacts
        <5> QED BY <2>10, <3>1, <5>1, <5>2 DEF PutsGrow
      <4> QED BY <4>1, <4>2
    <3> QED BY <2>2, <3>1 DEF CardsPut
  <2>12. CardsMoved
    <3>1. counter \in Nat /\ counter' = counter
      BY <1>2, DeskFacts
    <3>2. layout = "ready" => \A d \in DOMAIN cards : ds[d].at < container
      BY <2>9, DeskFacts
    <3>3. ASSUME ~unread, NEW d \in DOMAIN cards PROVE ~(counter <= ds[d].z)
      <4>1. cards[d].z \in Nat /\ cards[d].z < counter
        BY <3>3, CardsBelow
      <4> QED BY <2>9, <3>1, <4>1
    <3> QED BY <2>2, <2>9, <3>1, <3>2, <3>3 DEF CardsMoved
  <2>13. GroupsKept
    <3>1. ASSUME ~lifted PROVE Plain(ds, pointers)
      <4>1. Plain(cards, pointers)
        BY <3>1, DeskFacts
      <4>2. cards[l].leader = NoPaper
        BY <1>6, <4>1 DEF Plain
      <4> QED BY <2>4, <2>8, <4>1, <4>2
    <3> QED BY <1>2, <2>2, <2>8, <3>1 DEF GroupsKept
  <2> QED BY <1>2, <1>4, <2>10, <2>11, <2>12, <2>13, CardsStep
<1> QED BY <1>1, <1>5, <1>6

LEMMA StartDragKeeps ==
  ASSUME DeskIInv, NEW p \in Pointers, NEW modifier \in BOOLEAN, StartDrag(p, modifier)
  PROVE  DeskIInv'
<1>a1. PICK c \in DOMAIN cards :
        /\ Onto(p, c)
        /\ LET extend == modifier \/ MultiTouch
               taken == IF extend THEN Range(picked) \cup Unpicked(c)
                        ELSE IF c \in Range(picked) THEN Range(picked) ELSE {c}
           IN  /\ IF taken = Range(picked) THEN picked' = picked ELSE picked' \in ByHeight(taken)
               /\ \E turn \in Turns :
                     cards' = [DragStart(ToFront(cards, taken), taken, c, p, turn) EXCEPT ![c].mode = "drag"]
               /\ counter' = counter + Cardinality(taken \cap DOMAIN cards) /\ PutHere(cards', taken \ {c})
  BY DEF StartDrag
<1>a2. PICK taken : taken = IF modifier \/ MultiTouch THEN Range(picked) \cup Unpicked(c)
                           ELSE IF c \in Range(picked) THEN Range(picked) ELSE {c}
  OBVIOUS
<1>a3. /\ IF taken = Range(picked) THEN picked' = picked ELSE picked' \in ByHeight(taken)
      /\ \E turn \in Turns :
            cards' = [DragStart(ToFront(cards, taken), taken, c, p, turn) EXCEPT ![c].mode = "drag"]
      /\ counter' = counter + Cardinality(taken \cap DOMAIN cards) /\ PutHere(cards', taken \ {c})
  BY ONLY <1>a1, <1>a2
<1>a4. taken \subseteq Range(picked) \cup Unpicked(c) \cup {c}
  BY <1>a2
<1>a5. Onto(p, c)
  BY <1>a1
<1>a6. PICK turn \in Turns : cards' = [DragStart(ToFront(cards, taken), taken, c, p, turn) EXCEPT ![c].mode = "drag"]
  BY <1>a3
<1>a7. picked' = picked \/ picked' \in ByHeight(taken)
  BY ONLY <1>a3
<1>a8. counter' = counter + Cardinality(taken \cap DOMAIN cards) /\ PutHere(cards', taken \ {c})
  BY ONLY <1>a3
<1>a9. c \in DOMAIN cards /\ turn \in Turns
  OBVIOUS
<1>1. /\ Onto(p, c) /\ taken \subseteq Range(picked) \cup Unpicked(c) \cup {c}
      /\ picked' = picked \/ picked' \in ByHeight(taken)
      /\ cards' = [DragStart(ToFront(cards, taken), taken, c, p, turn) EXCEPT ![c].mode = "drag"]
      /\ counter' = counter + Cardinality(taken \cap DOMAIN cards) /\ PutHere(cards', taken \ {c})
  BY ONLY <1>a4, <1>a5, <1>a6, <1>a7, <1>a8
<1>2. UNCHANGED <<pointers, requests, deskActs, ShownVars, lifted>>
  BY DEF StartDrag, PointerVars
<1>3. CardsOK(cards) /\ Grouped(cards) /\ LeadersIn(cards, items) /\ counter \in Nat
  BY DeskFacts
<1>4. Range(picked') \subseteq Papers
  BY <1>1, DeskFacts, UnpickedArePapers, ByHeightRange
<1>5. PointersOK' /\ Saves(cards)
  BY <1>2, <1>4, DeskFacts, PointersSame, UnsavedIsSaves DEF ShownVars
<1>6. p \in DOMAIN pointers /\ pointers[p] = c /\ c \in items
  BY <1>1, DeskConstants, DeskFacts DEF Onto
<1>7. PICK fs : fs = ToFront(cards, taken)
  OBVIOUS
<1>8. Fronted(cards, fs, taken)
  BY ONLY <1>3, <1>7, ToFrontFacts
<1>9. /\ DOMAIN fs = DOMAIN cards /\ CardsOK(fs)
      /\ \A d \in DOMAIN cards :
           /\ fs[d].at = cards[d].at /\ fs[d].intended = cards[d].intended
           /\ fs[d].by = cards[d].by /\ fs[d].leader = cards[d].leader /\ fs[d].followers = cards[d].followers
           /\ fs[d].z = IF d \in taken THEN counter + Rank(cards, taken, d) ELSE cards[d].z
  BY ONLY <1>8 DEF Fronted
<1>10. SameGroups(cards, fs)
  BY ONLY <1>9 DEF SameGroups
<1>11. Grouped(fs) /\ LeadersIn(fs, items) /\ (\A ps : Plain(cards, ps) => Plain(fs, ps))
  BY ONLY <1>3, <1>10, SameGroupsKeep
<1>12. PICK bs : bs = BeginDrag(fs, c, p)
  OBVIOUS
<1>13. DragBegun(fs, bs, c, p)
  <2>1. c \in DOMAIN fs
    BY <1>9
  <2> QED BY ONLY <1>9, <1>11, <1>12, <2>1, p \in Pointers, BeginDragFacts
<1>14. /\ Grouped(bs) /\ LeadersIn(bs, items)
       /\ \A ps : Plain(fs, ps) /\ p \in DOMAIN ps /\ ps[p] = c => Plain(bs, ps)
  <2>1. c \in DOMAIN fs
    BY <1>9
  <2> QED BY ONLY <1>9, <1>11, <1>12, <2>1, p \in Pointers, BeginDragKeeps
<1>15. /\ DOMAIN bs = DOMAIN fs /\ CardsOK(bs)
       /\ \A d \in DOMAIN fs :
            /\ bs[d].at = fs[d].at /\ bs[d].intended = fs[d].intended /\ bs[d].z = fs[d].z
            /\ bs[d].by = IF d = c THEN p ELSE fs[d].by
            /\ bs[d].leader = IF d = c \/ d \in fs[c].followers THEN NoPaper ELSE fs[d].leader
            /\ bs[d].followers = IF d = c THEN {} ELSE IF d = fs[c].leader THEN fs[d].followers \ {c} ELSE fs[d].followers
  BY ONLY <1>13 DEF DragBegun
<1>16. bs[c].by = p /\ bs[c].leader = NoPaper /\ c \in DOMAIN bs
  BY ONLY <1>9, <1>15, c \in DOMAIN cards
<1>17. PICK ids : ids = {d \in (taken \cap DOMAIN fs) \ {c} : bs[d].by \in {NoPointer, p}}
  OBVIOUS
<1>18. PICK as : as = Attach(bs, c, ids, turn)
  OBVIOUS
<1>19. as = DragStart(fs, taken, c, p, turn)
  BY <1>12, <1>17, <1>18 DEF DragStart
<1>20. ids \subseteq DOMAIN bs /\ c \notin ids /\ ids \subseteq taken /\ \A d \in ids : bs[d].by \in {NoPointer, bs[c].by}
  BY <1>15, <1>16, <1>17
<1>21. CardsAttached(bs, as, c, ids)
  BY ONLY <1>15, <1>16, <1>18, <1>20, AttachFacts
<1>22. /\ Grouped(as) /\ LeadersIn(as, items)
       /\ \A ps : Plain(bs, ps) /\ bs[c].leader = NoPaper /\ (\A d \in ids : bs[d].by = NoPointer) => Plain(as, ps)
  BY ONLY <1>6, <1>14, <1>15, <1>16, <1>18, <1>20, AttachKeeps
<1>23. /\ DOMAIN as = DOMAIN bs /\ CardsOK(as)
       /\ \A d \in DOMAIN bs :
            /\ as[d].at = IF d \in ids THEN bs[c].at ELSE bs[d].at
            /\ as[d].intended = IF d \in ids THEN bs[c].at ELSE bs[d].intended
            /\ as[d].z = bs[d].z
  BY ONLY <1>21 DEF CardsAttached
<1>24. PICK ds : ds = cards'
  OBVIOUS
<1>25. ds = [as EXCEPT ![c].mode = "drag"]
  BY <1>1, <1>7, <1>19, <1>24
<1>26. c \in DOMAIN as
  BY <1>16, <1>23
<1>27. CardsOK(ds) /\ SameSpots(as, ds) /\ SameGroups(as, ds)
  BY ONLY <1>23, <1>25, <1>26, SetMode
<1>28. Grouped(ds) /\ LeadersIn(ds, items) /\ (\A ps : Plain(as, ps) => Plain(ds, ps))
  BY ONLY <1>22, <1>27, SameGroupsKeep
<1>29. DOMAIN ds = DOMAIN cards
  BY <1>9, <1>15, <1>23, <1>27 DEF SameSpots
<1>30. ASSUME NEW d \in DOMAIN cards
       PROVE  /\ ds[d].at \in {cards[c].at, cards[d].at}
              /\ d \notin ids => ds[d].intended = cards[d].intended
              /\ ds[d].z = IF d \in taken THEN counter + Rank(cards, taken, d) ELSE cards[d].z
  <2>1. d \in DOMAIN fs /\ d \in DOMAIN bs /\ d \in DOMAIN as /\ c \in DOMAIN fs
    BY <1>9, <1>15, <1>23
  <2>2. ds[d].at = as[d].at /\ ds[d].intended = as[d].intended /\ ds[d].z = as[d].z
    BY ONLY <1>27, <2>1 DEF SameSpots
  <2>3. as[d].at \in {bs[c].at, bs[d].at} /\ (d \notin ids => as[d].intended = bs[d].intended) /\ as[d].z = bs[d].z
    BY ONLY <1>23, <2>1
  <2>4. bs[d].at = fs[d].at /\ bs[d].intended = fs[d].intended /\ bs[d].z = fs[d].z /\ bs[c].at = fs[c].at
    BY ONLY <1>15, <2>1
  <2>5. fs[d].at = cards[d].at /\ fs[d].intended = cards[d].intended /\ fs[c].at = cards[c].at
        /\ fs[d].z = IF d \in taken THEN counter + Rank(cards, taken, d) ELSE cards[d].z
    BY ONLY <1>9, c \in DOMAIN cards, d \in DOMAIN cards
  <2> QED BY ONLY <2>2, <2>3, <2>4, <2>5
<1>31. PutsGrow /\ (desk \in Views => \A d \in (taken \ {c}) \cap DOMAIN ds : ds[d].intended \in puts'[desk][d])
  BY <1>1, <1>24, <1>27, DeskFacts, PutHereGrows
<1>32. CardsPut
  <2>1. ASSUME desk \in Views, NEW d \in DOMAIN cards PROVE ds[d].intended \in puts'[desk][d]
    <3>1. CASE d \in ids
      BY <1>20, <1>29, <1>31, <2>1, <3>1
    <3>2. CASE d \notin ids
      <4>1. ds[d].intended = cards[d].intended
        BY <1>30, <3>2
      <4>2. cards[d].intended \in puts[desk][d] /\ d \in Papers
        BY <2>1, DeskFacts
      <4> QED BY <1>31, <2>1, <4>1, <4>2 DEF PutsGrow
    <3> QED BY <3>1, <3>2
  <2> QED BY <1>24, <2>1 DEF CardsPut
<1>33. CardsMoved
  <2>1. /\ Cardinality(taken \cap DOMAIN cards) \in Nat
        /\ \A d \in taken \cap DOMAIN cards : Rank(cards, taken, d) \in Nat /\ Rank(cards, taken, d) < Cardinality(taken \cap DOMAIN cards)
        /\ \A d, e \in taken \cap DOMAIN cards : cards[d].z < cards[e].z => Rank(cards, taken, d) < Rank(cards, taken, e)
    BY ONLY <1>3, Ranks
  <2>2. PICK n \in Nat : n = Cardinality(taken \cap DOMAIN cards)
    BY <2>1
  <2>3. counter' = counter + n
    BY <1>1, <2>2
  <2>4. counter' \in Nat /\ counter <= counter'
    BY <1>3, <2>3
  <2>5. layout = "ready" => \A d \in DOMAIN cards : ds[d].at < container
    BY <1>30, DeskFacts
  <2>6. ASSUME NEW d \in DOMAIN cards
        PROVE  ds[d].z = cards[d].z \/ (d \in taken /\ counter <= ds[d].z /\ ds[d].z < counter')
    <3>1. CASE d \in taken
      <4>1. PICK r : r = Rank(cards, taken, d)
        OBVIOUS
      <4>2. r \in Nat /\ r < n /\ ds[d].z = counter + r
        BY <1>30, <2>1, <2>2, <3>1, <4>1
      <4> QED BY ONLY <1>3, <2>2, <2>3, <3>1, <4>2
    <3>2. CASE d \notin taken
      BY <1>30, <3>2
    <3> QED BY <3>1, <3>2
  <2>7. ASSUME ~unread, NEW d \in DOMAIN cards, NEW e \in DOMAIN cards, ds[d].z = ds[e].z, counter <= ds[d].z
        PROVE  d = e
    <3>1. \A o \in DOMAIN cards : cards[o].z \in Nat /\ cards[o].z < counter
      BY <2>7, CardsBelow
    <3>2. d \in taken /\ e \in taken
      <4>1. ds[d].z # cards[d].z /\ ds[e].z # cards[e].z
        BY <1>3, <2>7, <3>1
      <4> QED BY <2>6, <4>1
    <3>3. PICK q, r : q = Rank(cards, taken, d) /\ r = Rank(cards, taken, e)
      OBVIOUS
    <3>4. q \in Nat /\ r \in Nat /\ ds[d].z = counter + q /\ ds[e].z = counter + r
      BY <1>30, <2>1, <3>2, <3>3
    <3>5. q = r
      <4>1. counter \in Nat /\ ds[d].z = ds[e].z
        BY <1>3, <2>7
      <4>2. counter + q = counter + r
        BY ONLY <3>4, <4>1
      <4> QED BY ONLY <3>4, <4>1, <4>2
    <3>6. ~(cards[d].z < cards[e].z) /\ ~(cards[e].z < cards[d].z)
      <4>1. d \in taken \cap DOMAIN cards /\ e \in taken \cap DOMAIN cards
        BY <3>2
      <4>2. (cards[d].z < cards[e].z => q < r) /\ (cards[e].z < cards[d].z => r < q)
        BY ONLY <2>1, <3>3, <4>1
      <4> QED BY ONLY <3>4, <3>5, <4>2
    <3>7. cards[d].z = cards[e].z
      BY <3>1, <3>6
    <3> QED BY <2>7, <3>7, CardsBelow
  <2> QED BY <1>24, <1>27, <1>29, <2>4, <2>5, <2>6, <2>7 DEF CardsMoved
<1>34. GroupsKept
  <2>1. ASSUME ~lifted PROVE Plain(ds, pointers)
    <3>1. Plain(bs, pointers)
      BY <1>6, <1>11, <1>14, <2>1, DeskFacts
    <3>2. ASSUME NEW d \in ids PROVE bs[d].by = NoPointer
      <4>1. d # c /\ d \in DOMAIN bs /\ bs[d].by \in {NoPointer, p}
        BY <1>16, <1>20
      <4>2. bs[d].by # NoPointer => pointers[bs[d].by] = d
        BY <3>1, <4>1 DEF Plain
      <4> QED BY <1>6, <4>1, <4>2
    <3>3. Plain(as, pointers)
      BY <1>16, <1>22, <3>1, <3>2
    <3> QED BY <1>28, <3>3
  <2> QED BY <1>2, <1>24, <1>28, <2>1 DEF GroupsKept
<1> QED BY <1>2, <1>5, <1>31, <1>32, <1>33, <1>34, CardsStep

\* ------------------------------------------------------ the desk and its listing
LEMMA RelayoutFacts ==
  ASSUME NEW cs, CardsOK(cs), NEW w \in 0..(MaxPlace + 1), NEW ds, ds = Relayout(cs, w)
  PROVE  /\ CardsOK(ds) /\ SameGroups(cs, ds)
         /\ \A c \in DOMAIN cs : /\ ds[c].intended = cs[c].intended /\ ds[c].z = cs[c].z
                                 /\ w > 0 => ds[c].at < w
<1>1. DOMAIN ds = DOMAIN cs /\ \A c \in DOMAIN cs : ds[c] = [cs[c] EXCEPT !.at = Constrain(cs[c].intended, w)]
  BY DEF Relayout
<1>2. ASSUME NEW c \in DOMAIN cs
      PROVE  /\ ds[c] \in Card /\ ds[c].by = cs[c].by /\ ds[c].leader = cs[c].leader /\ ds[c].followers = cs[c].followers
             /\ ds[c].intended = cs[c].intended /\ ds[c].z = cs[c].z
             /\ w > 0 => ds[c].at < w
  <2>1. PICK a : a = Constrain(cs[c].intended, w)
    OBVIOUS
  <2>2. cs[c] \in Card /\ cs[c].intended \in Spots
    BY CardsAreTyped DEF CardsOK
  <2>3. cs[c].intended \in Int
    BY <2>2, DeskConstants DEF Spots
  <2>4. a \in Spots /\ (w > 0 => a < w)
    BY <2>1, <2>3, ConstrainFits
  <2>5. PICK r, s : r = cs[c] /\ s = ds[c]
    OBVIOUS
  <2>6. r \in Card /\ s = [r EXCEPT !.at = a]
    BY ONLY <1>1, <2>1, <2>2, <2>5, c \in DOMAIN cs
  <2>7. s \in Card /\ s.by = r.by /\ s.leader = r.leader /\ s.followers = r.followers /\ s.intended = r.intended
        /\ s.z = r.z /\ s.at = a
    BY ONLY <2>4, <2>6 DEF Card
  <2> QED BY ONLY <2>4, <2>5, <2>7
<1>3. CardsOK(ds)
  BY <1>1, <1>2 DEF CardsOK
<1>4. SameGroups(cs, ds)
  BY <1>1, <1>2 DEF SameGroups
<1> QED BY ONLY <1>2, <1>3, <1>4

LEMMA SetContainerSizeKeeps ==
  ASSUME DeskIInv, NEW w \in 1..(MaxPlace + 1), SetContainerSize(w), deskActs' \in 0..MaxDeskActs
  PROVE  DeskIInv'
<1>1. /\ container' = w /\ cards' = Relayout(cards, w)
      /\ UNCHANGED <<desk, mounts, layout, items, counter, savedLayouts, picked, pointers, puts, lifted, kept, requests, unread>>
  BY DEF SetContainerSize, storageVars
<1>2. w \in 0..(MaxPlace + 1) /\ w > 0
  BY DeskConstants
<1>3. CardsOK(cards) /\ Grouped(cards) /\ LeadersIn(cards, items) /\ (~lifted => Plain(cards, pointers))
      /\ DeskTypes /\ counter \in Nat /\ GroupInv /\ PlaceInv
      /\ (desk \in Views => \A c \in DOMAIN cards : cards[c].intended \in puts[desk][c])
      /\ puts \in [Views -> [Papers -> SUBSET Spots]] /\ items \subseteq Papers
  BY DeskFacts DEF DeskIInv
<1>4. PICK ds : ds = cards'
  OBVIOUS
<1>5. /\ CardsOK(ds) /\ SameGroups(cards, ds)
      /\ \A c \in DOMAIN cards : ds[c].intended = cards[c].intended /\ ds[c].z = cards[c].z /\ ds[c].at < w
  BY <1>1, <1>2, <1>3, <1>4, RelayoutFacts
<1>6. DOMAIN ds = DOMAIN cards
  BY <1>5 DEF SameGroups
<1>7. Grouped(ds) /\ LeadersIn(ds, items) /\ (\A ps : Plain(cards, ps) => Plain(ds, ps))
  BY ONLY <1>3, <1>5, SameGroupsKeep
<1>8. Saves(cards) /\ PointersOK'
  BY <1>1, <1>3, DeskFacts, PointersSame, UnsavedIsSaves
<1>9. DeskTypes'
  <2>1. requests' \in Seq(ReqTypes) /\ unread' \in BOOLEAN
    BY <1>1, <1>3 DEF DeskTypes, DeskTypeOK, ReqTypes
  <2> QED BY <1>1, <1>2, <1>3, <1>4, <1>5, <1>8, <2>1, TypesKept
<1>10. LoadInv'
  BY <1>1, <1>4, <1>6, <1>8, LoadKept
<1>11. GroupInv'
  BY <1>1, <1>3, <1>4, <1>7 DEF GroupInv
<1>12. HeightInv'
  <2>1. ASSUME NEW c \in DOMAIN cards PROVE cards'[c].z \in Nat /\ cards'[c].z = cards[c].z
    BY <1>3, <1>4, <1>5, CardsAreTyped
  <2>2. ASSUME ~unread, NEW c \in DOMAIN cards PROVE ~(counter <= cards'[c].z)
    <3>1. cards[c].z \in Nat /\ cards[c].z < counter
      BY <2>2, CardsBelow
    <3> QED BY <1>3, <2>1, <3>1
  <2>3. \A c \in DOMAIN cards : cards'[c].z = cards[c].z \/ (counter <= cards'[c].z /\ cards'[c].z < counter')
    BY <2>1
  <2>4. \A c \in DOMAIN cards : cards'[c].z \in Nat
    BY <2>1
  <2>5. ~unread => \A c, d \in DOMAIN cards : cards'[c].z = cards'[d].z /\ counter <= cards'[c].z => c = d
    BY <2>2
  <2>6. counter' \in Nat /\ counter <= counter' /\ DOMAIN cards' = DOMAIN cards
    BY <1>1, <1>3, <1>4, <1>6
  <2>7. UNCHANGED <<desk, layout, savedLayouts, kept, unread>>
    BY <1>1
  <2> QED BY ONLY DeskIInv, <1>8, <2>3, <2>4, <2>5, <2>6, <2>7, HeightsKept
<1>13. PlaceInv'
  <2>1. desk \in Views => \A c \in DOMAIN cards : cards[c].intended \in puts'[desk][c]
    BY <1>1, <1>3
  <2>2. \A v \in Views, c \in Papers : puts[v][c] \subseteq puts'[v][c]
    BY <1>1
  <2>3. /\ \A v \in Views : PutWhere(v, kept[v])'
        /\ \A i \in 1..Len(requests') : requests'[i].kind = "write" => PutWhere(requests[i].view, requests[i].entries)'
        /\ desk \in Views => PutWhere(desk, savedLayouts)'
    BY <1>1, <1>3, <1>8, <2>1, <2>2, PlacesKept
  <2>4. (layout = "ready" => container > 0 /\ \A c \in DOMAIN cards : cards[c].at < container)'
    BY <1>1, <1>2, <1>4, <1>5, <1>6
  <2>5. (desk \in Views => \A c \in DOMAIN cards : cards[c].intended \in puts[desk][c])'
    BY <1>1, <1>3, <1>4, <1>5, <1>6
  <2> QED BY ONLY <1>1, <2>3, <2>4, <2>5 DEF PlaceInv
<1> QED BY <1>9, <1>10, <1>11, <1>12, <1>13 DEF DeskIInv

LEMMA ListingStep ==
  ASSUME DeskIInv, UNCHANGED <<desk, mounts, container, layout, cards, counter, savedLayouts, picked, pointers, puts, lifted,
                               kept, requests, unread>>,
         items' \subseteq Papers, deskActs' \in 0..MaxDeskActs, LeadersIn(cards, items'),
         \A p \in DOMAIN pointers : pointers[p] # NoPaper => pointers[p] \in items'
  PROVE  DeskIInv'
<1>1. DeskTypes /\ LoadInv /\ GroupInv /\ PlaceInv /\ HeightInv
  BY DEF DeskIInv
<1>2. DeskTypes'
  BY <1>1 DEF DeskTypes, DeskTypeOK
<1>3. LoadInv'
  BY <1>1 DEF LoadInv, ReadsHere
<1>4. GroupInv'
  BY <1>1 DEF GroupInv
<1>5. PlaceInv'
  BY <1>1 DEF PlaceInv, PutWhere
<1>6. HeightInv'
  BY <1>1 DEF HeightInv, Apart, Below, HasHeight, Written, OnShow
<1> QED BY <1>2, <1>3, <1>4, <1>5, <1>6 DEF DeskIInv

LEMMA ArriveKeeps ==
  ASSUME DeskIInv, NEW d \in Papers, Arrive(d), deskActs' \in 0..MaxDeskActs
  PROVE  DeskIInv'
<1>1. items' = items \cup {d} /\ items' \subseteq Papers
  BY DeskFacts DEF Arrive
<1>2. LeadersIn(cards, items')
  BY <1>1, DeskFacts DEF LeadersIn
<1>3. \A p \in DOMAIN pointers : pointers[p] # NoPaper => pointers[p] \in items'
  BY <1>1, DeskFacts
<1> QED BY <1>1, <1>2, <1>3, ListingStep DEF Arrive, storageVars

LEMMA LeaveKeeps ==
  ASSUME DeskIInv, NEW d \in Papers, Leave(d), deskActs' \in 0..MaxDeskActs
  PROVE  DeskIInv'
<1>1. items' = items \ {d} /\ items' \subseteq Papers
  BY DeskFacts DEF Leave
<1>2. LeadersIn(cards, items')
  BY <1>1, DeskFacts DEF LeadersIn, Leave
<1>3. \A p \in DOMAIN pointers : pointers[p] # NoPaper => pointers[p] \in items'
  BY <1>1, DeskFacts DEF Leave, Held
<1> QED BY <1>1, <1>2, <1>3, ListingStep DEF Leave, storageVars

LEMMA DeskStutter ==
  ASSUME DeskIInv, UNCHANGED deskVars
  PROVE  DeskIInv'
<1>1. LeadersIn(cards, items') /\ items' \subseteq Papers /\ deskActs' \in 0..MaxDeskActs
      /\ \A p \in DOMAIN pointers : pointers[p] # NoPaper => pointers[p] \in items'
  BY DeskFacts DEF deskVars
<1> QED BY <1>1, ListingStep DEF deskVars

LEMMA NoCards == /\ DOMAIN <<>> = {} /\ CardsOK(<<>>) /\ RecordsOK(<<>>)
                 /\ \A s : Grouped(<<>>) /\ LeadersIn(<<>>, s) /\ Plain(<<>>, s)
BY DEF CardsOK, RecordsOK, Grouped, LeadersIn, Plain

LEMMA CloseDeskKeeps ==
  ASSUME DeskIInv, CloseDesk
  PROVE  DeskIInv'
<1>1. /\ DeskTypes /\ LoadInv /\ GroupInv /\ PlaceInv /\ HeightInv
      /\ desk' = Closed /\ items' = {} /\ cards' = <<>> /\ picked' = <<>> /\ pointers' = <<>>
      /\ UNCHANGED <<mounts, container, layout, counter, savedLayouts, puts, lifted, deskActs, kept, requests, unread>>
  BY DEF DeskIInv, CloseDesk, storageVars
<1>2. desk' \notin Views /\ desk' \notin Shown /\ Closed # SearchDesk
  BY <1>1, DeskConstants DEF Shown, Closed, SearchDesk
<1>3. DeskTypes'
  <2>1. /\ DOMAIN <<>> = {} /\ Range(<<>>) = {}
    BY RangeOfOne
  <2>2. DeskTypeOK'
    BY <1>1, <2>1 DEF DeskTypes, DeskTypeOK
  <2>3. CardsOK(cards')
    BY <1>1, NoCards
  <2> QED BY <1>1, <2>2, <2>3 DEF DeskTypes
<1>4. LoadInv'
  BY <1>1, <1>2 DEF LoadInv
<1>5. GroupInv'
  BY <1>1, NoCards DEF GroupInv
<1>6. PlaceInv'
  BY <1>1, <1>2, NoCards DEF PlaceInv, PutWhere
<1>7. HeightInv'
  <2>1. \A v \in Shown : \A c, z : HasHeight(v, c, z)' => HasHeight(v, c, z)
    BY <1>1, <1>2 DEF HasHeight, Written
  <2> QED BY <1>1, <2>1 DEF HeightInv, Apart
<1> QED BY <1>3, <1>4, <1>5, <1>6, <1>7 DEF DeskIInv

LEMMA OpenDeskKeeps ==
  ASSUME DeskIInv, NEW v \in Views \cup {SearchDesk}, OpenDesk(v)
  PROVE  DeskIInv'
<1>1. /\ DeskTypes /\ LoadInv /\ GroupInv /\ PlaceInv /\ HeightInv
      /\ mounts < MaxMounts /\ mounts' = mounts + 1 /\ desk' = v
      /\ cards' = <<>> /\ counter' = 0 /\ lifted' = FALSE
      /\ savedLayouts' = <<>> /\ picked' = <<>> /\ pointers' = <<>> /\ container' = 0
      /\ items' \in SUBSET Papers
      /\ UNCHANGED <<kept, unread, puts, deskActs>>
      /\ IF v \in Views
         THEN layout' = "loading" /\ requests' = Append(requests, [kind |-> "read", view |-> v, of |-> mounts + 1])
         ELSE layout' = "loaded" /\ requests' = requests
  BY DEF DeskIInv, OpenDesk, FreshStore, NoRecords
<1>2. requests \in Seq(ReqTypes) /\ mounts \in Nat /\ mounts' \in 0..MaxMounts
  BY <1>1, DeskConstants DEF DeskTypes, DeskTypeOK, ReqTypes
<1>3. PICK w : w = [kind |-> "read", view |-> v, of |-> mounts + 1]
  OBVIOUS
<1>4. v \in Views => w \in ReadRequest /\ w.kind = "read" /\ w.of = mounts' /\ w.view = v
  BY <1>1, <1>2, <1>3 DEF ReadRequest
<1>5. v # Closed /\ (v \notin Views => v = SearchDesk) /\ (v \in Views => v # SearchDesk) /\ SearchDesk \notin Views
  BY DeskConstants DEF Closed, SearchDesk
<1>6. /\ requests' \in Seq(ReqTypes)
      /\ \A i \in 1..Len(requests) : i \in 1..Len(requests') /\ requests'[i] = requests[i]
      /\ v \notin Views => requests' = requests
      /\ v \in Views => Len(requests') = Len(requests) + 1 /\ requests'[Len(requests')] = w
      /\ \A i \in 1..Len(requests') : i \in 1..Len(requests) \/ (v \in Views /\ i = Len(requests'))
  <2>1. CASE v \in Views
    <3>1. w \in ReqTypes /\ requests' = Append(requests, w)
      BY <1>1, <1>3, <1>4, <2>1 DEF ReqTypes
    <3> QED BY ONLY <1>2, <2>1, <3>1
  <2>2. CASE v \notin Views
    BY <1>1, <1>2, <2>2
  <2> QED BY <2>1, <2>2
<1>7. DeskTypes'
  <2>1. DOMAIN <<>> = {} /\ Range(<<>>) = {} /\ CardsOK(<<>>) /\ RecordsOK(<<>>)
    BY RangeOfOne, NoCards
  <2>2. (desk \in Views \cup {SearchDesk, Closed} /\ mounts \in 0..MaxMounts /\ container \in 0..(MaxPlace + 1))'
    BY <1>1, <1>2, DeskConstants
  <2>3. (layout \in {"loading", "loaded", "ready"} /\ items \subseteq Papers /\ lifted \in BOOLEAN /\ counter \in Nat)'
    BY <1>1
  <2>4. (unread \in BOOLEAN /\ deskActs \in 0..MaxDeskActs)'
    BY <1>1 DEF DeskTypes, DeskTypeOK
  <2>5. (\A u \in Views : \A c \in DOMAIN kept[u] : kept[u][c].at \in Spots /\ kept[u][c].z \in Nat)'
    BY <1>1 DEF DeskTypes, DeskTypeOK
  <2>6. DeskTypeOK'
    BY <1>1, <2>1, <2>2, <2>3, <2>4, <2>5 DEF DeskTypeOK
  <2> QED BY <1>1, <1>6, <2>1, <2>6 DEF DeskTypes, ReqTypes
<1>8. LoadInv'
  <2>1. \A i \in 1..Len(requests) : requests[i].of \in Nat /\ requests[i].of <= mounts
    <3>1. \A q \in ReqTypes : q.of \in Nat
      BY DEF ReqTypes, ReadRequest, WriteRequest
    <3> QED BY <1>1, <1>2, <3>1 DEF LoadInv
  <2>2. \A i \in 1..Len(requests) : requests'[i].of <= mounts' /\ requests'[i].of # mounts'
    BY <1>1, <1>2, <1>6, <2>1
  <2>3. CASE v \in Views
    <3>1. \A i \in 1..Len(requests') : requests'[i].of <= mounts'
      BY <1>2, <1>4, <1>6, <2>2, <2>3
    <3>2. ReadsHere(Len(requests))' /\ requests'[Len(requests')].view = desk' /\ requests' # <<>>
      BY <1>1, <1>2, <1>4, <1>6, <2>3 DEF ReadsHere
    <3>3. \A i \in 1..Len(requests') : ReadsHere(i)' => i = Len(requests')
      BY <1>6, <2>2 DEF ReadsHere
    <3> QED BY <1>1, <1>5, <2>3, <3>1, <3>2, <3>3 DEF LoadInv
  <2>4. CASE v \notin Views
    <3>1. \A i \in 1..Len(requests') : requests'[i].of <= mounts' /\ ~ReadsHere(i)'
      BY <1>6, <2>2, <2>4 DEF ReadsHere
    <3> QED BY <1>1, <1>5, <2>4, <3>1 DEF LoadInv
  <2> QED BY <2>3, <2>4
<1>9. GroupInv'
  BY <1>1, NoCards DEF GroupInv
<1>10. \A i \in 1..Len(requests') : requests'[i].kind = "write" => i \in 1..Len(requests) /\ requests'[i] = requests[i]
  BY <1>4, <1>6
<1>11. PlaceInv'
  <2>1. (\A u \in Views : PutWhere(u, kept[u]))'
    BY <1>1 DEF PlaceInv, PutWhere
  <2>2. (\A i \in 1..Len(requests) : requests[i].kind = "write" => PutWhere(requests[i].view, requests[i].entries))'
    BY <1>1, <1>10 DEF PlaceInv, PutWhere
  <2> QED BY <1>1, <2>1, <2>2, NoCards DEF PlaceInv, PutWhere
<1>12. HeightInv'
  <2>1. \A u, c, z : HasHeight(u, c, z)' => Written(u, c, z)
    BY <1>1, <1>10, NoCards DEF HasHeight, Written, OnShow
  <2>2. ~unread => Apart'
    BY <1>1, <2>1 DEF HeightInv, Apart, HasHeight
  <2>3. v \notin Views => \A c, z : ~Written(v, c, z)
    <3>1. \A i \in 1..Len(requests) : requests[i].kind = "write" => requests[i].view \in Views
      <4>1. \A q \in ReqTypes : q.kind = "write" => q.view \in Views
        BY DEF ReqTypes, ReadRequest, WriteRequest
      <4> QED BY <1>2, <4>1
    <3> QED BY <3>1 DEF Written
  <2>4. (desk # Closed /\ layout # "loading" => Below)'
    BY <1>1, <2>1, <2>3 DEF Below
  <2> QED BY <1>1, <2>2, <2>4, NoCards DEF HeightInv
<1> QED BY <1>7, <1>8, <1>9, <1>11, <1>12 DEF DeskIInv

\* ----------------------------------------------------------- the database answers
LEMMA TailFacts ==
  ASSUME DeskTypes, requests # <<>>, requests' = Tail(requests)
  PROVE  /\ requests' \in Seq(ReqTypes) /\ Len(requests') = Len(requests) - 1 /\ Len(requests) \in Nat \ {0}
         /\ \A i \in 1..Len(requests') : requests'[i] = requests[i + 1] /\ i + 1 \in 1..Len(requests)
         /\ \A i \in 1..Len(requests) : i = 1 \/ (i - 1 \in 1..Len(requests') /\ requests'[i - 1] = requests[i])
         /\ Head(requests) = requests[1] /\ requests[1] \in ReqTypes /\ 1 \in 1..Len(requests)
<1>1. requests \in Seq(ReqTypes)
  BY DEF DeskTypes, ReqTypes
<1> QED BY ONLY <1>1, requests # <<>>, requests' = Tail(requests)

\* A request is over that was not what the desk on show waits for.
LEMMA ShiftStep ==
  ASSUME DeskIInv, requests # <<>>, requests' = Tail(requests), desk # Closed => ~ReadsHere(1),
         UNCHANGED <<desk, mounts, container, layout, items, counter, savedLayouts, picked, pointers, unread, puts, lifted, deskActs>>,
         CardsOK(cards'), SameSpots(cards, cards'), SameGroups(cards, cards'),
         DOMAIN kept' = Views, \A v \in Views : RecordsOK(kept'[v]) /\ PutWhere(v, kept'[v]),
         \A v \in Views : \A c \in DOMAIN kept'[v] : Written(v, c, kept'[v][c].z)
  PROVE  DeskIInv'
<1>1. /\ DeskTypes /\ LoadInv /\ GroupInv /\ PlaceInv /\ HeightInv
  BY DEF DeskIInv
<1>2. /\ requests' \in Seq(ReqTypes) /\ Len(requests') = Len(requests) - 1 /\ Len(requests) \in Nat \ {0}
      /\ \A i \in 1..Len(requests') : requests'[i] = requests[i + 1] /\ i + 1 \in 1..Len(requests)
      /\ \A i \in 1..Len(requests) : i = 1 \/ (i - 1 \in 1..Len(requests') /\ requests'[i - 1] = requests[i])
  BY <1>1, TailFacts
<1>3. DOMAIN cards' = DOMAIN cards /\ \A c \in DOMAIN cards :
         cards'[c].at = cards[c].at /\ cards'[c].intended = cards[c].intended /\ cards'[c].z = cards[c].z
  BY DEF SameSpots
<1>4. DeskTypes'
  <2>1. PointersOK'
    BY PointersHold DEF PointersOK
  <2>2. (desk \in Views \cup {SearchDesk, Closed} /\ mounts \in 0..MaxMounts /\ container \in 0..(MaxPlace + 1)
         /\ layout \in {"loading", "loaded", "ready"} /\ items \subseteq Papers /\ counter \in Nat /\ unread \in BOOLEAN
         /\ DOMAIN savedLayouts \subseteq Papers /\ RecordsOK(savedLayouts) /\ puts \in [Views -> [Papers -> SUBSET Spots]])'
    BY <1>1 DEF DeskTypes, DeskTypeOK
  <2>3. (\A v \in Views : \A c \in DOMAIN kept[v] : kept[v][c].at \in Spots /\ kept[v][c].z \in Nat)'
    BY DEF RecordsOK, Record
  <2>4. PICK ds : ds = cards'
    OBVIOUS
  <2>5. CardsOK(ds)
    BY <2>4
  <2>6. (/\ DOMAIN cards \subseteq Papers
         /\ \A c \in DOMAIN cards :
              /\ cards[c].at \in Spots /\ cards[c].intended \in Spots
              /\ cards[c].z \in Nat /\ cards[c].dirty \in BOOLEAN /\ cards[c].loop \in BOOLEAN
              /\ cards[c].by \in Pointers \cup {NoPointer} /\ cards[c].leader \in Papers \cup {NoPaper}
              /\ cards[c].followers \subseteq Papers /\ cards[c].delta \in {-1, 0, 1}
              /\ cards[c].mode \in {"idle", "click", "armed", "drag"})'
    BY <2>4, <2>5, CardsAreTyped
  <2>7. DeskTypeOK'
    BY ONLY <2>1, <2>2, <2>3, <2>6 DEF DeskTypeOK, PointersOK
  <2>8. (\A v \in Views : RecordsOK(kept[v]))' /\ CardsOK(cards')
    OBVIOUS
  <2>9. (requests \in Seq(ReadRequest \cup WriteRequest))'
    BY <1>2 DEF ReqTypes
  <2> QED BY ONLY <2>2, <2>7, <2>8, <2>9, DOMAIN kept' = Views DEF DeskTypes
<1>5. LoadInv'
  <2>1. \A i \in 1..Len(requests') : requests'[i].of <= mounts /\ (ReadsHere(i)' <=> ReadsHere(i + 1))
    BY <1>1, <1>2 DEF LoadInv, ReadsHere
  <2>2. ASSUME desk # Closed, layout = "loading"
        PROVE  /\ desk \in Views /\ DOMAIN cards' = {} /\ requests' # <<>>
               /\ ReadsHere(Len(requests))' /\ requests'[Len(requests')].view = desk
               /\ \A i \in 1..Len(requests') : ReadsHere(i)' => i = Len(requests')
    <3>1. /\ desk \in Views /\ DOMAIN cards = {} /\ ReadsHere(Len(requests)) /\ requests[Len(requests)].view = desk
          /\ \A i \in 1..Len(requests) : ReadsHere(i) => i = Len(requests)
      BY <1>1, <2>2 DEF LoadInv
    <3>2. Len(requests) # 1
      BY <2>2, <3>1
    <3>3. Len(requests') \in 1..Len(requests') /\ Len(requests') + 1 = Len(requests)
      BY <1>2, <3>2
    <3>4. requests'[Len(requests')] = requests[Len(requests)]
      BY <1>2, <3>3
    <3>5. ReadsHere(Len(requests))'
      BY <3>1, <3>4 DEF ReadsHere
    <3>6. \A i \in 1..Len(requests') : ReadsHere(i)' => i = Len(requests')
      <4>1. SUFFICES ASSUME NEW i \in 1..Len(requests'), ReadsHere(i)' PROVE i = Len(requests')
        OBVIOUS
      <4>2. ReadsHere(i + 1) /\ i + 1 \in 1..Len(requests)
        BY <1>2, <2>1, <4>1
      <4>3. i + 1 = Len(requests)
        BY <3>1, <4>2
      <4> QED BY ONLY <1>2, <4>1, <4>3
    <3>7. requests' # <<>>
      BY ONLY SMTT(60), <1>2, <3>2
    <3> QED BY <1>3, <3>1, <3>4, <3>5, <3>6, <3>7
  <2>3. ASSUME desk # Closed, layout # "loading" PROVE \A i \in 1..Len(requests') : ~ReadsHere(i)'
    BY <1>1, <1>2, <2>1, <2>3 DEF LoadInv
  <2>4. (desk = Closed => DOMAIN cards = {})' /\ (desk = SearchDesk => DOMAIN savedLayouts = {})'
    BY <1>1, <1>3 DEF LoadInv
  <2>5. (desk # Closed /\ layout = "loading" =>
       /\ desk \in Views /\ DOMAIN cards = {} /\ requests # <<>>
       /\ ReadsHere(Len(requests)) /\ requests[Len(requests)].view = desk
       /\ \A i \in 1..Len(requests) : ReadsHere(i) => i = Len(requests))'
    BY <2>2
  <2>6. (desk # Closed /\ layout # "loading" => \A i \in 1..Len(requests) : ~ReadsHere(i))'
    BY <2>3
  <2>7. (\A i \in 1..Len(requests) : requests[i].of <= mounts)'
    BY <2>1
  <2> QED BY ONLY SMTT(60), <2>4, <2>5, <2>6, <2>7 DEF LoadInv
<1>6. GroupInv'
  <2>1. Grouped(cards) /\ LeadersIn(cards, items) /\ (~lifted => Plain(cards, pointers))
    BY DeskFacts
  <2>2. Grouped(cards') /\ LeadersIn(cards', items) /\ (\A ps : Plain(cards, ps) => Plain(cards', ps))
    BY <2>1, SameGroupsKeep
  <2> QED BY <1>1, <2>1, <2>2 DEF GroupInv
<1>7. PlaceInv'
  <2>1. (\A v \in Views : PutWhere(v, kept[v]))'
    BY DEF PutWhere
  <2>2. (\A i \in 1..Len(requests) : requests[i].kind = "write" => PutWhere(requests[i].view, requests[i].entries))'
    BY <1>1, <1>2 DEF PlaceInv, PutWhere
  <2>3. (layout = "ready" => container > 0 /\ \A c \in DOMAIN cards : cards[c].at < container)'
    BY <1>1, <1>3 DEF PlaceInv
  <2>4. (desk \in Views => PutWhere(desk, savedLayouts) /\ \A c \in DOMAIN cards : cards[c].intended \in puts[desk][c])'
    BY <1>1, <1>3 DEF PlaceInv, PutWhere
  <2> QED BY ONLY <2>1, <2>2, <2>3, <2>4 DEF PlaceInv
<1>8. HeightInv'
  <2>1. ASSUME NEW v, NEW c, NEW z, Written(v, c, z)' PROVE Written(v, c, z)
    <3>1. CASE v \in Views /\ c \in DOMAIN kept'[v] /\ kept'[v][c].z = z
      BY <3>1
    <3>2. CASE \E i \in 1..Len(requests') : /\ requests'[i].kind = "write" /\ requests'[i].view = v
                                          /\ c \in DOMAIN requests'[i].entries /\ requests'[i].entries[c].z = z
      <4>1. PICK i \in 1..Len(requests') : /\ requests'[i].kind = "write" /\ requests'[i].view = v
                                          /\ c \in DOMAIN requests'[i].entries /\ requests'[i].entries[c].z = z
        BY <3>2
      <4>2. requests'[i] = requests[i + 1] /\ i + 1 \in 1..Len(requests)
        BY <1>2
      <4> QED BY <4>1, <4>2 DEF Written
    <3> QED BY <2>1, <3>1, <3>2 DEF Written
  <2>2. \A v, c, z : HasHeight(v, c, z)' => HasHeight(v, c, z)
    BY <1>3, <2>1 DEF HasHeight, OnShow
  <2>3. (Apart => Apart') /\ (Below => Below')
    BY <2>2 DEF Apart, Below
  <2> QED BY <1>1, <2>3 DEF HeightInv
<1> QED BY <1>4, <1>5, <1>6, <1>7, <1>8 DEF DeskIInv

LEMMA KeptIsWritten ==
  ASSUME DeskIInv
  PROVE  /\ DOMAIN kept = Views /\ \A v \in Views : RecordsOK(kept[v]) /\ PutWhere(v, kept[v])
         /\ \A v \in Views : \A c \in DOMAIN kept[v] : Written(v, c, kept[v][c].z)
BY DEF DeskIInv, DeskTypes, PlaceInv, Written

LEMMA CounterAfterFacts ==
  ASSUME NEW rs, RecordsOK(rs), counter \in Nat, NEW n \in CounterAfter(rs)
  PROVE  n \in Nat /\ counter <= n /\ \A c \in DOMAIN rs : rs[c].z < n
<1>1. PICK above : above = {rs[c].z + 1 : c \in DOMAIN rs} \cup {counter}
  OBVIOUS
<1>2. n \in above /\ \A o \in above : o <= n
  BY <1>1 DEF CounterAfter
<1>3. \A c \in DOMAIN rs : rs[c].z \in Nat /\ rs[c].z + 1 \in above
  BY <1>1 DEF RecordsOK, Record
<1>4. above \subseteq Nat /\ counter \in above
  BY <1>1, <1>3
<1> QED BY ONLY <1>2, <1>3, <1>4

LEMMA LoadKeeps ==
  ASSUME DeskIInv, requests # <<>>, requests' = Tail(requests), ReadsHere(1), desk # Closed,
         NEW rs, LoadLayout(rs),
         (rs = kept[requests[1].view] /\ unread' = unread) \/ (rs = NoRecords /\ unread' = TRUE),
         UNCHANGED <<desk, mounts, container, items, picked, pointers, kept, puts, lifted, deskActs>>
  PROVE  DeskIInv'
<1>1. /\ DeskTypes /\ LoadInv /\ GroupInv /\ PlaceInv /\ HeightInv
  BY DEF DeskIInv
<1>2. /\ requests' \in Seq(ReqTypes) /\ Len(requests') = Len(requests) - 1 /\ Len(requests) \in Nat \ {0} /\ 1 \in 1..Len(requests)
  BY SMTT(60), <1>1, TailFacts
<1>3. layout = "loading"
  BY <1>1, <1>2 DEF LoadInv
<1>4. desk \in Views /\ DOMAIN cards = {} /\ requests[1].view = desk /\ Len(requests) = 1
  BY <1>1, <1>2, <1>3 DEF LoadInv
<1>5. 1..Len(requests') = {} /\ desk # SearchDesk
  BY <1>2, <1>4, DeskConstants DEF SearchDesk
<1>6. (rs = kept[desk] /\ unread' = unread) \/ (rs = NoRecords /\ unread' = TRUE)
  BY <1>4
<1>7. RecordsOK(rs) /\ PutWhere(desk, rs)
  BY <1>1, <1>4, <1>6, NoCards DEF DeskTypes, PlaceInv, PutWhere, NoRecords
<1>8. savedLayouts' = rs /\ counter' \in CounterAfter(rs) /\ layout' = "loaded" /\ DOMAIN cards' = {}
  BY <1>4 DEF LoadLayout, Relayout
<1>9. counter' \in Nat /\ \A c \in DOMAIN rs : rs[c].z < counter'
  BY <1>7, <1>8, DeskFacts, CounterAfterFacts
<1>10. DeskTypes'
  <2>1. CardsOK(cards')
    BY <1>8 DEF CardsOK
  <2>2. PointersOK'
    BY PointersHold DEF PointersOK
  <2>3. (desk \in Views \cup {SearchDesk, Closed} /\ mounts \in 0..MaxMounts /\ container \in 0..(MaxPlace + 1)
         /\ items \subseteq Papers /\ puts \in [Views -> [Papers -> SUBSET Spots]])'
    BY <1>1 DEF DeskTypes, DeskTypeOK
  <2>4. (\A v \in Views : \A c \in DOMAIN kept[v] : kept[v][c].at \in Spots /\ kept[v][c].z \in Nat)'
    BY <1>1 DEF DeskTypes, DeskTypeOK
  <2>5. (layout \in {"loading", "loaded", "ready"} /\ counter \in Nat /\ unread \in BOOLEAN /\ DOMAIN savedLayouts \subseteq Papers)'
    BY <1>1, <1>6, <1>7, <1>8, <1>9 DEF RecordsOK, DeskTypes, DeskTypeOK
  <2>6. DeskTypeOK'
    BY ONLY <1>8, <2>2, <2>3, <2>4, <2>5, DOMAIN cards' = {} DEF DeskTypeOK, PointersOK
  <2>7. (DOMAIN kept = Views /\ (\A v \in Views : RecordsOK(kept[v])) /\ RecordsOK(savedLayouts))'
    BY <1>1, <1>7, <1>8 DEF DeskTypes
  <2>8. (requests \in Seq(ReadRequest \cup WriteRequest))'
    BY <1>2 DEF ReqTypes
  <2> QED BY ONLY <2>1, <2>3, <2>6, <2>7, <2>8 DEF DeskTypes
<1>11. LoadInv'
  BY <1>5, <1>8 DEF LoadInv
<1>12. GroupInv'
  <2>1. Grouped(cards') /\ LeadersIn(cards', items) /\ Plain(cards', pointers)
    BY <1>8 DEF Grouped, LeadersIn, Plain
  <2> QED BY <1>1, <2>1 DEF GroupInv
<1>13. PlaceInv'
  BY <1>1, <1>5, <1>7, <1>8 DEF PlaceInv, PutWhere
<1>14. HeightInv'
  <2>1. ASSUME ~unread' PROVE Apart' /\ Below'
    <3>1. ~unread /\ rs = kept[desk]
      BY <1>6, <2>1
    <3>2. \A v, c, z : Written(v, c, z)' => v \in Views /\ c \in DOMAIN kept[v] /\ kept[v][c].z = z
      BY <1>5 DEF Written
    <3>3. \A v, c, z : HasHeight(v, c, z)' => v \in Views /\ c \in DOMAIN kept[v] /\ kept[v][c].z = z
      BY <1>4, <1>8, <3>1, <3>2 DEF HasHeight, OnShow
    <3>4. \A v, c, z : HasHeight(v, c, z)' => HasHeight(v, c, z)
      BY <3>3 DEF HasHeight, Written
    <3>5. Apart'
      BY <1>1, <3>1, <3>4 DEF HeightInv, Apart
    <3>6. Below'
      BY <1>9, <3>1, <3>3 DEF Below
    <3> QED BY <3>5, <3>6
  <2> QED BY <1>8, <1>9, <2>1 DEF HeightInv
<1> QED BY <1>10, <1>11, <1>12, <1>13, <1>14 DEF DeskIInv

LEMMA FetchRecordsKeeps ==
  ASSUME DeskIInv, FetchRecords
  PROVE  DeskIInv'
<1>1. /\ requests # <<>> /\ Head(requests).kind = "read" /\ requests' = Tail(requests)
      /\ UNCHANGED <<desk, mounts, container, items, picked, pointers, kept, puts, lifted, deskActs>>
      /\ IF Head(requests).of = mounts /\ desk # Closed THEN Read(Head(requests))
         ELSE UNCHANGED <<savedLayouts, counter, layout, cards, unread>>
  BY DEF FetchRecords
<1>2. Head(requests) = requests[1]
  BY <1>1, TailFacts DEF DeskIInv
<1>3. CASE Head(requests).of = mounts /\ desk # Closed
  <2>1. ReadsHere(1)
    BY <1>1, <1>2, <1>3 DEF ReadsHere
  <2>2. \/ LoadLayout(kept[requests[1].view]) /\ unread' = unread
        \/ LoadLayout(NoRecords) /\ unread' = TRUE
    BY <1>1, <1>2, <1>3 DEF Read
  <2>3. PICK rs : \/ rs = kept[requests[1].view] /\ LoadLayout(kept[requests[1].view]) /\ unread' = unread
                  \/ rs = NoRecords /\ LoadLayout(NoRecords) /\ unread' = TRUE
    <3>1. CASE LoadLayout(kept[requests[1].view]) /\ unread' = unread
      BY ONLY <3>1
    <3>2. CASE LoadLayout(NoRecords) /\ unread' = TRUE
      BY ONLY <3>2
    <3> QED BY ONLY <2>2, <3>1, <3>2
  <2>4. LoadLayout(rs) /\ ((rs = kept[requests[1].view] /\ unread' = unread) \/ (rs = NoRecords /\ unread' = TRUE))
    BY ONLY <2>3
  <2> QED BY <1>1, <1>3, <2>1, <2>4, LoadKeeps
<1>4. CASE ~(Head(requests).of = mounts /\ desk # Closed)
  <2>1. desk # Closed => ~ReadsHere(1)
    BY <1>2, <1>4 DEF ReadsHere
  <2>2. SameSpots(cards, cards') /\ SameGroups(cards, cards') /\ CardsOK(cards')
    BY <1>1, <1>4, SameIsSame, DeskFacts
  <2>3. /\ DOMAIN kept' = Views /\ \A v \in Views : RecordsOK(kept'[v]) /\ PutWhere(v, kept'[v])
        /\ \A v \in Views : \A c \in DOMAIN kept'[v] : Written(v, c, kept'[v][c].z)
    BY <1>1, KeptIsWritten
  <2> QED BY <1>1, <1>4, <2>1, <2>2, <2>3, ShiftStep
<1> QED BY <1>3, <1>4

LEMMA UpsertRecordsKeeps ==
  ASSUME DeskIInv, UpsertRecords
  PROVE  DeskIInv'
<1>1. /\ requests # <<>> /\ Head(requests).kind = "write" /\ requests' = Tail(requests)
      /\ cards' = Cleaned(Head(requests))
      /\ \/ kept' = [kept EXCEPT ![Head(requests).view] = Upserted(@, Head(requests).entries)]
         \/ kept' = kept
      /\ UNCHANGED <<desk, mounts, container, layout, items, counter, savedLayouts, picked, pointers, unread, puts, lifted, deskActs>>
  BY DEF UpsertRecords
<1>2. Head(requests) = requests[1] /\ requests[1] \in ReqTypes /\ 1 \in 1..Len(requests) /\ CardsOK(cards) /\ PlaceInv
  BY <1>1, TailFacts, DeskFacts DEF DeskIInv
<1>3. PICK w : w = requests[1]
  OBVIOUS
<1>4. w \in WriteRequest /\ w.kind = "write" /\ w.view \in Views /\ RecordsOK(w.entries)
  <2>1. w \in ReqTypes /\ w.kind = "write"
    BY <1>1, <1>2, <1>3
  <2>2. w \in WriteRequest
    BY ONLY <2>1 DEF ReqTypes, ReadRequest
  <2> QED BY <2>2, EntriesOK
<1>5. ~ReadsHere(1)
  BY <1>3, <1>4 DEF ReadsHere
<1>6. SameSpots(cards, cards') /\ SameGroups(cards, cards') /\ CardsOK(cards')
  <2>1. CASE cards' = cards
    BY <1>2, <2>1, SameIsSame
  <2>2. CASE cards' = [c \in DOMAIN cards |-> IF c \in DOMAIN w.entries THEN [cards[c] EXCEPT !.dirty = FALSE] ELSE cards[c]]
    <3>1. PICK ds : ds = cards'
      OBVIOUS
    <3>2. DOMAIN ds = DOMAIN cards /\ \A c \in DOMAIN cards :
             ds[c] = cards[c] \/ ds[c] = [cards[c] EXCEPT !.dirty = FALSE]
      BY <2>2, <3>1
    <3>3. ASSUME NEW c \in DOMAIN cards
          PROVE  /\ ds[c] \in Card /\ ds[c].at = cards[c].at /\ ds[c].intended = cards[c].intended /\ ds[c].z = cards[c].z
                 /\ ds[c].by = cards[c].by /\ ds[c].leader = cards[c].leader /\ ds[c].followers = cards[c].followers
      <4>1. PICK r, s : r = cards[c] /\ s = ds[c]
        OBVIOUS
      <4>2. r \in Card /\ (s = r \/ s = [r EXCEPT !.dirty = FALSE])
        BY <1>2, <3>2, <4>1 DEF CardsOK
      <4>3. s \in Card /\ s.at = r.at /\ s.intended = r.intended /\ s.z = r.z /\ s.by = r.by /\ s.leader = r.leader
            /\ s.followers = r.followers
        BY ONLY <4>2 DEF Card
      <4> QED BY ONLY <4>1, <4>3
    <3>4. CardsOK(ds) /\ SameSpots(cards, ds) /\ SameGroups(cards, ds)
      BY <1>2, <3>2, <3>3 DEF CardsOK, SameSpots, SameGroups
    <3> QED BY <3>1, <3>4
  <2>3. cards' = Cleaned(w)
    BY <1>1, <1>2, <1>3
  <2> QED BY <2>1, <2>2, <2>3 DEF Cleaned
<1>7. /\ DOMAIN kept' = Views /\ \A v \in Views : RecordsOK(kept'[v]) /\ PutWhere(v, kept'[v])
      /\ \A v \in Views : \A c \in DOMAIN kept'[v] : Written(v, c, kept'[v][c].z)
  <2>1. CASE kept' = kept
    BY <2>1, KeptIsWritten
  <2>2. CASE kept' = [kept EXCEPT ![w.view] = Upserted(@, w.entries)]
    <3>1. PICK ks : ks = kept'
      OBVIOUS
    <3>2. PICK us : us = Upserted(kept[w.view], w.entries)
      OBVIOUS
    <3>3. DOMAIN ks = Views /\ \A v \in Views : ks[v] = IF v = w.view THEN us ELSE kept[v]
      BY <1>4, <2>2, <3>1, <3>2, KeptIsWritten
    <3>4. DOMAIN us = DOMAIN kept[w.view] \cup DOMAIN w.entries
          /\ \A c \in DOMAIN us : us[c] = IF c \in DOMAIN w.entries THEN w.entries[c] ELSE kept[w.view][c]
      BY <3>2 DEF Upserted
    <3>5. RecordsOK(us)
      <4>1. RecordsOK(kept[w.view])
        BY <1>4, KeptIsWritten
      <4> QED BY <1>4, <3>4, <4>1 DEF RecordsOK
    <3>6. PutWhere(w.view, us)
      <4>1. PutWhere(w.view, kept[w.view])
        BY <1>4, KeptIsWritten
      <4>2. PutWhere(w.view, w.entries)
        BY <1>2, <1>3, <1>4 DEF PlaceInv
      <4> QED BY <3>4, <4>1, <4>2 DEF PutWhere
    <3>7. \A c \in DOMAIN us : Written(w.view, c, us[c].z)
      <4>1. SUFFICES ASSUME NEW c \in DOMAIN us PROVE Written(w.view, c, us[c].z)
        OBVIOUS
      <4>2. CASE c \in DOMAIN w.entries
        BY <1>2, <1>3, <1>4, <3>4, <4>2 DEF Written
      <4>3. CASE c \notin DOMAIN w.entries
        BY <1>4, <3>4, <4>3 DEF Written
      <4> QED BY <4>2, <4>3
    <3> QED BY <3>1, <3>3, <3>5, <3>6, <3>7, KeptIsWritten
  <2> QED BY <1>1, <1>2, <1>3, <2>1, <2>2
<1> QED BY <1>1, <1>5, <1>6, <1>7, ShiftStep

\* -------------------------------------------------------- the cards of the listing
\* Heights a step adds are above those there are.
LEMMA HeightsFresh ==
  ASSUME DeskIInv, ~unread, desk # Closed, layout # "loading", desk' = desk, counter' \in Nat, counter <= counter',
         NEW h, NEW new,
         \A v, c, z : HasHeight(v, c, z)' =>
            HasHeight(v, c, z) \/ (v = desk /\ c \in new /\ h[c] = z /\ counter <= z /\ z < counter'),
         \A c, d \in new : h[c] = h[d] => c = d
  PROVE  Apart' /\ Below'
<1>1. Apart /\ Below /\ counter \in Nat
  BY DeskFacts DEF DeskIInv, HeightInv
<1>2. Apart'
  <2>1. SUFFICES ASSUME NEW v \in Shown, NEW c \in Papers, NEW d \in Papers, NEW z \in Nat,
                        HasHeight(v, c, z)', HasHeight(v, d, z)'
                 PROVE  c = d
    BY DEF Apart
  <2>2. CASE HasHeight(v, c, z) /\ HasHeight(v, d, z)
    BY <1>1, <2>2 DEF Apart
  <2>3. CASE ~(HasHeight(v, c, z) /\ HasHeight(v, d, z))
    <3>1. v = desk /\ counter <= z
      BY <2>1, <2>3
    <3>2. ~HasHeight(v, c, z) /\ ~HasHeight(v, d, z)
      BY <1>1, <3>1 DEF Below
    <3>3. c \in new /\ d \in new /\ h[c] = z /\ h[d] = z
      BY <2>1, <3>2
    <3> QED BY <3>3
  <2> QED BY <2>2, <2>3
<1>3. Below'
  <2>1. SUFFICES ASSUME NEW c \in Papers, NEW z \in Nat, HasHeight(desk, c, z)'
                 PROVE  z < counter'
    BY DEF Below
  <2>2. HasHeight(desk, c, z) => z < counter
    BY <1>1 DEF Below
  <2>3. HasHeight(desk, c, z) \/ z < counter'
    BY <2>1
  <2> QED BY <1>1, <2>2, <2>3
<1> QED BY <1>2, <1>3

LEMMA NewCardOK ==
  ASSUME NEW place \in Spots, NEW z \in Nat, NEW dirty \in BOOLEAN, NEW r, r = NewCard(place, z, dirty)
  PROVE  /\ r \in Card /\ r.at = place /\ r.intended = place /\ r.z = z
         /\ r.by = NoPointer /\ r.leader = NoPaper /\ r.followers = {}
BY DEF NewCard, Card

LEMMA PlaceCardsKeeps ==
  ASSUME DeskIInv, PlaceCards
  PROVE  DeskIInv'
<1>0. /\ desk # Closed /\ container > 0 /\ layout # "loading" /\ layout' = "ready"
      /\ UNCHANGED <<desk, mounts, container, items, savedLayouts, picked, pointers, kept, unread, lifted, deskActs>>
  BY DEF PlaceCards
<1>1. PICK new : new = items \ (DOMAIN cards \cup DOMAIN savedLayouts)
  OBVIOUS
<1>2. PICK known : known = {savedLayouts[c].z + 1 : c \in (items \cap DOMAIN savedLayouts) \ DOMAIN cards}
  OBVIOUS
<1>3. PICK free : free = CHOOSE n \in known \cup {counter} : \A o \in known \cup {counter} : o <= n
  OBVIOUS
<1>4. PICK spot \in [items \ (DOMAIN cards \cup DOMAIN savedLayouts) -> 0..(container - 1)],
           rank \in [items \ (DOMAIN cards \cup DOMAIN savedLayouts) -> 0..(Cardinality(Papers) - 1)] :
        LET fresh == DOMAIN spot
            heights == {savedLayouts[c].z + 1 : c \in (items \cap DOMAIN savedLayouts) \ DOMAIN cards}
            first == CHOOSE n \in heights \cup {counter} : \A o \in heights \cup {counter} : o <= n
            laid == [c \in items |->
                        IF c \in DOMAIN cards THEN [cards[c] EXCEPT !.followers = @ \cap items]
                        ELSE IF c \in DOMAIN savedLayouts THEN NewCard(savedLayouts[c].at, savedLayouts[c].z, FALSE)
                        ELSE NewCard(spot[c], first + rank[c], TRUE)]
        IN  /\ \A c, d \in fresh : rank[c] < Cardinality(fresh) /\ (rank[c] = rank[d] => c = d)
            /\ counter' = first + Cardinality(fresh)
            /\ cards' = Enforced(laid, container)
            /\ PutHere(laid, fresh)
            /\ IF items \subseteq DOMAIN savedLayouts THEN requests' = requests ELSE SaveLayout(laid)
  BY ONLY PlaceCards DEF PlaceCards
<1>5. /\ spot \in [new -> 0..(container - 1)] /\ rank \in [new -> 0..(Cardinality(Papers) - 1)]
      /\ DOMAIN spot = new
  BY ONLY <1>1, <1>4
<1>a. PICK placed : placed =
        [c \in items |->
            IF c \in DOMAIN cards THEN [cards[c] EXCEPT !.followers = @ \cap items]
            ELSE IF c \in DOMAIN savedLayouts THEN NewCard(savedLayouts[c].at, savedLayouts[c].z, FALSE)
            ELSE NewCard(spot[c], free + rank[c], TRUE)]
  OBVIOUS
<1>6. /\ \A c, d \in new : rank[c] < Cardinality(new) /\ (rank[c] = rank[d] => c = d)
      /\ counter' = free + Cardinality(new)
      /\ cards' = Relayout(placed, container)
      /\ PutHere(placed, new)
      /\ IF items \subseteq DOMAIN savedLayouts THEN requests' = requests ELSE SaveLayout(placed)
  BY ONLY <1>2, <1>3, <1>4, <1>5, <1>a DEF Enforced
<1>7. /\ DeskTypes /\ LoadInv /\ GroupInv /\ PlaceInv /\ HeightInv /\ RecordsOK(savedLayouts)
      /\ CardsOK(cards) /\ counter \in Nat /\ items \subseteq Papers /\ container \in 0..(MaxPlace + 1)
  BY DeskFacts DEF DeskIInv, DeskTypes
<1>8. \A c \in DOMAIN savedLayouts : savedLayouts[c].at \in Spots /\ savedLayouts[c].z \in Nat /\ savedLayouts[c].z < counter
  BY <1>0, <1>7 DEF HeightInv, RecordsOK, Record
<1>9. free = counter
  <2>1. known \subseteq Nat /\ \A o \in known : o <= counter
    BY <1>2, <1>7, <1>8
  <2>2. counter \in known \cup {counter} /\ \A o \in known \cup {counter} : o <= counter
    BY <1>7, <2>1
  <2>3. free \in known \cup {counter} /\ \A o \in known \cup {counter} : o <= free
    BY ONLY <1>3, <2>2
  <2>4. free \in Nat /\ counter <= free /\ free <= counter
    BY ONLY <1>7, <2>1, <2>2, <2>3
  <2> QED BY ONLY <1>7, <2>4
<1>10. PICK n \in Nat : n = Cardinality(new)
  BY <1>1, <1>7, DeskConstants, FS_Subset, FS_CardinalityType
<1>11. counter' = counter + n /\ counter' \in Nat /\ counter <= counter'
  BY <1>6, <1>7, <1>9, <1>10
<1>12. \A c \in new : /\ spot[c] \in Spots /\ rank[c] \in Nat /\ free + rank[c] \in Nat
                      /\ counter <= free + rank[c] /\ free + rank[c] < counter'
  <2>1. SUFFICES ASSUME NEW c \in new
                 PROVE  /\ spot[c] \in Spots /\ rank[c] \in Nat /\ free + rank[c] \in Nat
                        /\ counter <= free + rank[c] /\ free + rank[c] < counter'
    OBVIOUS
  <2>2. spot[c] \in 0..(container - 1) /\ rank[c] \in 0..(Cardinality(Papers) - 1) /\ rank[c] < n
    BY <1>5, <1>6, <1>10
  <2>3. spot[c] \in Spots
    BY <1>7, <2>2, DeskConstants DEF Spots
  <2>4. rank[c] \in Nat
    <3>1. Cardinality(Papers) \in Nat
      BY DeskConstants, FS_CardinalityType
    <3> QED BY <2>2, <3>1
  <2> QED BY <1>7, <1>9, <1>11, <2>2, <2>3, <2>4
<1>13. DOMAIN placed = items /\ \A c \in items :
         /\ c \in DOMAIN cards => placed[c] = [cards[c] EXCEPT !.followers = @ \cap items]
         /\ c \notin DOMAIN cards /\ c \in DOMAIN savedLayouts => placed[c] = NewCard(savedLayouts[c].at, savedLayouts[c].z, FALSE)
         /\ c \in new => placed[c] = NewCard(spot[c], free + rank[c], TRUE)
  BY <1>1, <1>a
<1>14. ASSUME NEW c \in items, c \in DOMAIN cards
       PROVE  /\ placed[c] \in Card /\ placed[c].intended = cards[c].intended /\ placed[c].z = cards[c].z
              /\ placed[c].by = cards[c].by /\ placed[c].leader = cards[c].leader /\ placed[c].followers = cards[c].followers \cap items
  <2>1. PICK r, s : r = cards[c] /\ s = placed[c]
    OBVIOUS
  <2>2. r \in Card /\ s = [r EXCEPT !.followers = @ \cap items]
    BY <1>7, <1>13, <1>14, <2>1 DEF CardsOK
  <2>3. s \in Card /\ s.intended = r.intended /\ s.z = r.z /\ s.by = r.by /\ s.leader = r.leader /\ s.followers = r.followers \cap items
    BY ONLY <2>2 DEF Card
  <2> QED BY ONLY <2>1, <2>3
<1>15. ASSUME NEW c \in items, c \notin DOMAIN cards, c \in DOMAIN savedLayouts
       PROVE  /\ placed[c] \in Card /\ placed[c].intended = savedLayouts[c].at /\ placed[c].z = savedLayouts[c].z
              /\ placed[c].by = NoPointer /\ placed[c].leader = NoPaper /\ placed[c].followers = {}
  <2>1. PICK a, z : a = savedLayouts[c].at /\ z = savedLayouts[c].z
    OBVIOUS
  <2>5. PICK dirty \in BOOLEAN : dirty = FALSE
    OBVIOUS
  <2>2. PICK r : r = NewCard(a, z, dirty)
    OBVIOUS
  <2>3. placed[c] = r /\ a \in Spots /\ z \in Nat
    BY <1>8, <1>13, <1>15, <2>1, <2>2, <2>5
  <2>4. /\ r \in Card /\ r.intended = a /\ r.z = z /\ r.by = NoPointer /\ r.leader = NoPaper /\ r.followers = {}
    BY ONLY <2>2, <2>3, dirty \in BOOLEAN, NewCardOK
  <2> QED BY ONLY <2>1, <2>3, <2>4
<1>16. ASSUME NEW c \in new
       PROVE  /\ placed[c] \in Card /\ placed[c].intended = spot[c] /\ placed[c].z = free + rank[c]
              /\ placed[c].by = NoPointer /\ placed[c].leader = NoPaper /\ placed[c].followers = {}
  <2>1. PICK a, z : a = spot[c] /\ z = free + rank[c]
    OBVIOUS
  <2>5. PICK dirty \in BOOLEAN : dirty = TRUE
    OBVIOUS
  <2>2. PICK r : r = NewCard(a, z, dirty)
    OBVIOUS
  <2>3. placed[c] = r /\ a \in Spots /\ z \in Nat
    BY <1>1, <1>12, <1>13, <2>1, <2>2, <2>5
  <2>4. /\ r \in Card /\ r.intended = a /\ r.z = z /\ r.by = NoPointer /\ r.leader = NoPaper /\ r.followers = {}
    BY ONLY <2>2, <2>3, dirty \in BOOLEAN, NewCardOK
  <2> QED BY ONLY <2>1, <2>3, <2>4
<1>17. CardsOK(placed)
  BY <1>1, <1>7, <1>13, <1>14, <1>15, <1>16 DEF CardsOK
<1>18. PICK ds : ds = cards'
  OBVIOUS
<1>19. /\ CardsOK(ds) /\ SameGroups(placed, ds)
       /\ \A c \in items : ds[c].intended = placed[c].intended /\ ds[c].z = placed[c].z /\ ds[c].at < container
  <2>1. ds = Relayout(placed, container)
    BY <1>6, <1>18
  <2>2. /\ CardsOK(ds) /\ SameGroups(placed, ds)
        /\ \A c \in DOMAIN placed : ds[c].intended = placed[c].intended /\ ds[c].z = placed[c].z /\ (container > 0 => ds[c].at < container)
    BY ONLY <1>7, <1>17, <2>1, RelayoutFacts
  <2> QED BY ONLY <1>0, <1>13, <2>2
<1>20. DOMAIN ds = items
  BY <1>13, <1>19 DEF SameGroups
<1>21. Saves(placed) /\ Saves(placed)
  BY <1>6, <1>7, <1>17, SaveLayoutSaves DEF Saves
<1>22. PutsGrow /\ (desk \in Views => \A c \in new \cap DOMAIN placed : placed[c].intended \in puts'[desk][c])
  BY <1>6, <1>17, DeskFacts, PutHereGrows
<1>23. requests' \in Seq(ReqTypes)
  BY <1>7, <1>21, QueueGrows
<1>24. DeskTypes'
  <2>1. PointersOK'
    BY <1>0, PointersHold DEF PointersOK
  <2>2. (desk \in Views \cup {SearchDesk, Closed} /\ mounts \in 0..MaxMounts /\ container \in 0..(MaxPlace + 1)
         /\ layout \in {"loading", "loaded", "ready"} /\ items \subseteq Papers /\ counter \in Nat /\ unread \in BOOLEAN
         /\ DOMAIN savedLayouts \subseteq Papers /\ RecordsOK(savedLayouts) /\ puts \in [Views -> [Papers -> SUBSET Spots]])'
    BY <1>0, <1>7, <1>11, <1>22 DEF DeskTypes, DeskTypeOK, PutsGrow
  <2>3. (\A v \in Views : \A c \in DOMAIN kept[v] : kept[v][c].at \in Spots /\ kept[v][c].z \in Nat)'
    BY <1>0, <1>7 DEF DeskTypes, DeskTypeOK
  <2>4. (/\ DOMAIN cards \subseteq Papers
         /\ \A c \in DOMAIN cards :
              /\ cards[c].at \in Spots /\ cards[c].intended \in Spots
              /\ cards[c].z \in Nat /\ cards[c].dirty \in BOOLEAN /\ cards[c].loop \in BOOLEAN
              /\ cards[c].by \in Pointers \cup {NoPointer} /\ cards[c].leader \in Papers \cup {NoPaper}
              /\ cards[c].followers \subseteq Papers /\ cards[c].delta \in {-1, 0, 1}
              /\ cards[c].mode \in {"idle", "click", "armed", "drag"})'
    BY <1>18, <1>19, CardsAreTyped
  <2>5. DeskTypeOK'
    BY ONLY <2>1, <2>2, <2>3, <2>4 DEF DeskTypeOK, PointersOK
  <2>6. (DOMAIN kept = Views /\ (\A v \in Views : RecordsOK(kept[v])) /\ CardsOK(cards) /\ requests \in Seq(ReadRequest \cup WriteRequest))'
    BY <1>0, <1>7, <1>18, <1>19, <1>23 DEF DeskTypes, ReqTypes
  <2> QED BY ONLY <2>2, <2>5, <2>6 DEF DeskTypes
<1>25. LoadInv'
  <2>1. ASSUME NEW i \in 1..Len(requests')
        PROVE  requests'[i].of <= mounts /\ ~ReadsHere(i)'
    <3>1. CASE i \in 1..Len(requests) /\ requests'[i] = requests[i]
      BY <1>0, <1>7, <3>1 DEF LoadInv, ReadsHere
    <3>2. CASE Entered(requests'[i], placed)
      <4>1. PICK w : w = requests'[i]
        OBVIOUS
      <4>2. w.kind = "write" /\ w.of = mounts
        BY <3>2, <4>1 DEF Entered, WriteRequest
      <4>3. mounts \in Nat
        BY <1>7, DeskConstants DEF DeskTypes, DeskTypeOK
      <4> QED BY <1>0, <4>1, <4>2, <4>3 DEF ReadsHere
    <3> QED BY <1>7, <1>21, <3>1, <3>2, QueueGrows
  <2> QED BY <1>0, <1>7, <2>1 DEF LoadInv
<1>26. GroupInv'
  <2>1. Grouped(cards) /\ LeadersIn(cards, items) /\ (~lifted => Plain(cards, pointers))
    BY DeskFacts
  <2>2. \A c \in items : placed[c].leader # NoPaper \/ placed[c].by # NoPointer => c \in DOMAIN cards
    BY <1>1, <1>15, <1>16
  <2>3. ASSUME NEW c \in items, placed[c].leader # NoPaper
        PROVE  /\ c \in DOMAIN cards /\ cards[c].leader = placed[c].leader
               /\ cards[c].leader \in DOMAIN cards /\ cards[c].leader \in items
    <3>1. c \in DOMAIN cards /\ cards[c].leader = placed[c].leader
      BY <1>14, <2>2, <2>3
    <3>2. cards[c].leader \in DOMAIN cards /\ cards[cards[c].leader].followers # {}
      BY <2>1, <2>3, <3>1 DEF Grouped
    <3> QED BY <2>1, <3>1, <3>2 DEF LeadersIn
  <2>4. Grouped(placed)
    <3>1. SUFFICES ASSUME NEW c \in items, placed[c].leader # NoPaper
                   PROVE  /\ placed[c].leader \in items /\ c \in placed[placed[c].leader].followers
                          /\ placed[c].by \in {NoPointer, placed[placed[c].leader].by}
      BY <1>13 DEF Grouped
    <3>2. PICK l : l = cards[c].leader
      OBVIOUS
    <3>3. c \in DOMAIN cards /\ placed[c].leader = l /\ l \in DOMAIN cards /\ l \in items
      BY <2>3, <3>1, <3>2
    <3>4. c \in cards[l].followers /\ cards[c].by \in {NoPointer, cards[l].by}
      BY <2>1, <3>1, <3>2, <3>3 DEF Grouped
    <3> QED BY <1>14, <3>3, <3>4
  <2>5. LeadersIn(placed, items)
    BY <1>13 DEF LeadersIn
  <2>6. ASSUME ~lifted PROVE Plain(placed, pointers)
    <3>1. SUFFICES ASSUME NEW c \in items
                   PROVE  /\ placed[c].by # NoPointer => placed[c].by \in DOMAIN pointers /\ pointers[placed[c].by] = c
                          /\ placed[c].leader # NoPaper => placed[c].by = NoPointer /\ placed[placed[c].leader].leader = NoPaper
      BY <1>13 DEF Plain
    <3>2. Plain(cards, pointers)
      BY <2>1, <2>6
    <3>3. placed[c].by # NoPointer => placed[c].by \in DOMAIN pointers /\ pointers[placed[c].by] = c
      BY <1>14, <2>2, <3>2 DEF Plain
    <3>4. ASSUME placed[c].leader # NoPaper PROVE placed[c].by = NoPointer /\ placed[placed[c].leader].leader = NoPaper
      BY <1>14, <2>3, <3>2, <3>4 DEF Plain
    <3> QED BY <3>3, <3>4
  <2>7. Grouped(ds) /\ LeadersIn(ds, items) /\ (\A ps : Plain(placed, ps) => Plain(ds, ps))
    BY ONLY <1>19, <2>4, <2>5, SameGroupsKeep
  <2> QED BY <1>0, <1>7, <1>18, <2>6, <2>7 DEF GroupInv
<1>27. desk \in Views => \A c \in items : placed[c].intended \in puts'[desk][c]
  <2>1. SUFFICES ASSUME desk \in Views, NEW c \in items PROVE placed[c].intended \in puts'[desk][c]
    OBVIOUS
  <2>2. c \in Papers /\ puts[desk][c] \subseteq puts'[desk][c]
    BY <1>7, <1>22, <2>1 DEF PutsGrow
  <2>3. CASE c \in DOMAIN cards
    BY <1>14, <2>1, <2>2, <2>3, DeskFacts
  <2>4. CASE c \notin DOMAIN cards /\ c \in DOMAIN savedLayouts
    BY <1>7, <1>15, <2>1, <2>2, <2>4 DEF PlaceInv, PutWhere
  <2>5. CASE c \in new
    BY <1>13, <1>22, <2>1, <2>5
  <2> QED BY <1>1, <2>3, <2>4, <2>5
<1>28. PlaceInv'
  <2>1. \A v \in Views, c \in Papers : puts[v][c] \subseteq puts'[v][c]
    BY <1>22 DEF PutsGrow
  <2>2. desk \in Views => \A c \in DOMAIN placed : placed[c].intended \in puts'[desk][c]
    BY <1>13, <1>27
  <2>3. puts' \in [Views -> [Papers -> SUBSET Spots]]
    BY <1>22 DEF PutsGrow
  <2>4. UNCHANGED <<desk, savedLayouts, kept>>
    BY <1>0
  <2>5. /\ \A v \in Views : PutWhere(v, kept[v])'
        /\ \A i \in 1..Len(requests') : requests'[i].kind = "write" => PutWhere(requests[i].view, requests[i].entries)'
        /\ desk \in Views => PutWhere(desk, savedLayouts)'
    BY ONLY DeskIInv, <1>21, <2>1, <2>2, <2>3, <2>4, PlacesKept
  <2>6. (layout = "ready" => container > 0 /\ \A c \in DOMAIN cards : cards[c].at < container)'
    BY <1>0, <1>18, <1>19, <1>20
  <2>7. (desk \in Views => \A c \in DOMAIN cards : cards[c].intended \in puts[desk][c])'
    BY <1>0, <1>18, <1>19, <1>20, <1>27
  <2> QED BY ONLY <2>4, <2>5, <2>6, <2>7 DEF PlaceInv
<1>29. HeightInv'
  <2>1. (\A c \in DOMAIN savedLayouts : savedLayouts[c].z < counter)'
    BY <1>0, <1>7, <1>8, <1>11
  <2>2. ASSUME ~unread PROVE Apart' /\ Below'
    <3>1. PICK h : h = [c \in new |-> free + rank[c]]
      OBVIOUS
    <3>2. ASSUME NEW c \in items, NEW z, placed[c].z = z
          PROVE  OnShow(c, z) \/ (c \in new /\ h[c] = z /\ counter <= z /\ z < counter')
      <4>1. CASE c \in DOMAIN cards
        BY <1>14, <3>2, <4>1 DEF OnShow
      <4>2. CASE c \notin DOMAIN cards /\ c \in DOMAIN savedLayouts
        BY <1>15, <3>2, <4>2 DEF OnShow
      <4>3. CASE c \in new
        BY <1>12, <1>16, <3>1, <3>2, <4>3
      <4> QED BY <1>1, <4>1, <4>2, <4>3
    <3>3. ASSUME NEW v, NEW c, NEW z, HasHeight(v, c, z)'
          PROVE  HasHeight(v, c, z) \/ (v = desk /\ c \in new /\ h[c] = z /\ counter <= z /\ z < counter')
      <4>1. CASE Written(v, c, z)'
        <5>1. Written(v, c, z) \/ (v = desk /\ c \in DOMAIN placed /\ placed[c].z = z)
          BY <1>0, <1>7, <1>21, <4>1, WrittenGrows
        <5> QED BY <1>13, <3>2, <5>1 DEF HasHeight
      <4>2. CASE v = desk /\ OnShow(c, z)'
        <5>1. OnShow(c, z) \/ (c \in items /\ placed[c].z = z)
          BY <1>0, <1>18, <1>19, <1>20, <4>2 DEF OnShow
        <5> QED BY <3>2, <4>2, <5>1 DEF HasHeight
      <4> QED BY <1>0, <3>3, <4>1, <4>2 DEF HasHeight
    <3>4. \A c, d \in new : h[c] = h[d] => c = d
      <4>1. SUFFICES ASSUME NEW c \in new, NEW d \in new, h[c] = h[d] PROVE c = d
        OBVIOUS
      <4>2. free + rank[c] = free + rank[d] /\ rank[c] \in Nat /\ rank[d] \in Nat /\ free \in Nat
        BY <1>7, <1>9, <1>12, <3>1, <4>1
      <4>3. rank[c] = rank[d]
        BY ONLY <4>2
      <4> QED BY <1>6, <4>3
    <3>5. \A v, c, z : HasHeight(v, c, z)' =>
            HasHeight(v, c, z) \/ (v = desk /\ c \in new /\ h[c] = z /\ counter <= z /\ z < counter')
      BY <3>3
    <3>6. desk' = desk
      BY <1>0
    <3> QED BY ONLY DeskIInv, <1>0, <1>11, <2>2, <3>4, <3>5, <3>6, HeightsFresh
  <2> QED BY <1>0, <2>1, <2>2 DEF HeightInv
<1> QED BY <1>24, <1>25, <1>26, <1>28, <1>29 DEF DeskIInv

\* --------------------------------------------------------------- the invariant
LEMMA DeskInitHolds ==
  ASSUME DeskInit
  PROVE  DeskIInv
<1>1. /\ desk = Closed /\ mounts = 0 /\ container = 0 /\ layout = "loading" /\ items = {} /\ cards = <<>>
      /\ counter = 0 /\ savedLayouts = <<>> /\ picked = <<>> /\ pointers = <<>> /\ requests = <<>> /\ unread = FALSE
      /\ lifted = FALSE /\ deskActs = 0
      /\ puts = [v \in Views |-> [c \in Papers |-> IF c \in DOMAIN kept[v] THEN {kept[v][c].at} ELSE {}]]
  BY DEF DeskInit, NoRecords
<1>3. PICK had \in SUBSET Papers : \E at \in [had -> Spots], z \in [had -> 0..(Cardinality(Papers) - 1)] :
          /\ \A c, d \in had : z[c] = z[d] => c = d
          /\ kept = [v \in Views |-> IF v = CHOOSE w \in Views : TRUE
                                       THEN [c \in had |-> [at |-> at[c], z |-> z[c]]] ELSE <<>>]
  BY DEF DeskInit, NoRecords
<1>4. PICK at \in [had -> Spots], z \in [had -> 0..(Cardinality(Papers) - 1)] :
          /\ \A c, d \in had : z[c] = z[d] => c = d
          /\ kept = [v \in Views |-> IF v = CHOOSE w \in Views : TRUE
                                       THEN [c \in had |-> [at |-> at[c], z |-> z[c]]] ELSE <<>>]
  BY <1>3
<1>5. PICK rs : rs = [c \in had |-> [at |-> at[c], z |-> z[c]]]
  OBVIOUS
<1>6. DOMAIN kept = Views /\ \A v \in Views : kept[v] = rs \/ kept[v] = <<>>
  BY <1>4, <1>5
<1>7. /\ DOMAIN rs = had
      /\ \A c \in had : rs[c] \in Record
      /\ \A c, d \in had : rs[c].z = rs[d].z => c = d
  <2>1. Cardinality(Papers) \in Nat
    BY DeskConstants, FS_CardinalityType
  <2>2. \A c \in had : at[c] \in Spots /\ z[c] \in Nat
    BY <1>4, <2>1
  <2> QED BY <1>4, <1>5, <2>2 DEF Record
<1>8. \A v \in Views : RecordsOK(kept[v]) /\ \A c, d \in DOMAIN kept[v] : kept[v][c].z = kept[v][d].z => c = d
  <2>1. RecordsOK(rs) /\ \A c, d \in DOMAIN rs : rs[c].z = rs[d].z => c = d
    BY <1>7 DEF RecordsOK
  <2>2. DOMAIN <<>> = {} /\ RecordsOK(<<>>)
    BY NoCards
  <2> QED BY <1>6, <2>1, <2>2
<1>9. \A v \in Views : \A c \in DOMAIN kept[v] : /\ c \in Papers /\ kept[v][c].at \in Spots /\ kept[v][c].z \in Nat
                                               /\ kept[v][c].at \in puts[v][c]
  BY <1>1, <1>8 DEF RecordsOK, Record
<1>10. puts \in [Views -> [Papers -> SUBSET Spots]]
  <2>1. ASSUME NEW v \in Views PROVE puts[v] \in [Papers -> SUBSET Spots]
    <3>1. puts[v] = [c \in Papers |-> IF c \in DOMAIN kept[v] THEN {kept[v][c].at} ELSE {}]
      BY <1>1
    <3>2. \A c \in Papers : (IF c \in DOMAIN kept[v] THEN {kept[v][c].at} ELSE {}) \in SUBSET Spots
      BY <1>9
    <3> QED BY ONLY <3>1, <3>2
  <2>2. puts = [v \in Views |-> puts[v]]
    BY <1>1
  <2> QED BY ONLY <2>1, <2>2
<1>11. DeskTypes
  <2>1. DOMAIN <<>> = {} /\ Range(<<>>) = {} /\ CardsOK(<<>>) /\ RecordsOK(<<>>)
    BY RangeOfOne, NoCards
  <2>3. /\ desk \in Views \cup {SearchDesk, Closed} /\ mounts \in 0..MaxMounts
        /\ container \in 0..(MaxPlace + 1) /\ layout \in {"loading", "loaded", "ready"} /\ items \subseteq Papers
        /\ counter \in Nat /\ unread \in BOOLEAN /\ lifted \in BOOLEAN /\ deskActs \in 0..MaxDeskActs
    <3>1. desk \in Views \cup {SearchDesk, Closed} /\ items \subseteq Papers /\ layout \in {"loading", "loaded", "ready"}
      BY ONLY <1>1
    <3>2. unread \in BOOLEAN /\ lifted \in BOOLEAN
      BY ONLY <1>1
    <3>3. mounts \in 0..MaxMounts /\ container \in 0..(MaxPlace + 1) /\ counter \in Nat /\ deskActs \in 0..MaxDeskActs
      BY ONLY <1>1, DeskConstants
    <3> QED BY ONLY <3>1, <3>2, <3>3
  <2>4. /\ DOMAIN cards = {} /\ DOMAIN savedLayouts = {} /\ Range(picked) = {} /\ DOMAIN pointers = {}
    <3>1. cards = <<>> /\ savedLayouts = <<>> /\ picked = <<>> /\ pointers = <<>>
      BY ONLY <1>1
    <3> QED BY <2>1, <3>1
  <2>2. DeskTypeOK
    BY ONLY <1>9, <2>3, <2>4 DEF DeskTypeOK
  <2> QED BY <1>1, <1>6, <1>8, <1>10, <2>1, <2>2 DEF DeskTypes
<1>12. LoadInv
  BY <1>1, NoCards DEF LoadInv, Closed, SearchDesk
<1>13. GroupInv
  BY <1>1, NoCards DEF GroupInv
<1>14. PlaceInv
  <2>1. desk \notin Views
    BY <1>1, DeskConstants DEF Closed
  <2>2. 1..Len(requests) = {}
    BY <1>1
  <2> QED BY <1>1, <1>9, <2>1, <2>2 DEF PlaceInv, PutWhere
<1>15. HeightInv
  <2>1. 1..Len(requests) = {}
    BY <1>1
  <2>2. \A v, c, z1 : HasHeight(v, c, z1) => v \in Views /\ c \in DOMAIN kept[v] /\ kept[v][c].z = z1
    BY <1>1, <2>1, NoCards DEF HasHeight, Written, OnShow
  <2>3. Apart
    BY <1>8, <2>2 DEF Apart
  <2> QED BY <1>1, <2>3 DEF HeightInv
<1> QED BY <1>11, <1>12, <1>13, <1>14, <1>15 DEF DeskIInv

LEMMA DeskActsKeep ==
  ASSUME DeskIInv, DeskActs
  PROVE  DeskIInv'
<1>1. deskActs' \in 0..MaxDeskActs
  BY DeskFacts, DeskConstants DEF DeskActs
<1>2. CASE \E w \in (1..(MaxPlace + 1)) \ {container} : SetContainerSize(w)
  BY <1>1, <1>2, SetContainerSizeKeeps
<1>3. CASE \E p \in Pointers : CanvasDown(p) \/ \E c \in Papers : PointerDown(p, c)
  BY <1>1, <1>3, CanvasDownKeeps, PointerDownKeeps
<1>4. CASE \E way \in {-1, 1}, extend \in BOOLEAN : Arrow(way, extend)
  <2>1. PICK way \in {-1, 1}, extend \in BOOLEAN : Arrow(way, extend)
    BY <1>4
  <2> QED BY <1>1, <2>1, ArrowKeeps
<1>5. CASE \E d \in Papers : Arrive(d) \/ Leave(d)
  BY <1>1, <1>5, ArriveKeeps, LeaveKeeps
<1> QED BY <1>2, <1>3, <1>4, <1>5 DEF DeskActs

LEMMA DeskPointersKeep ==
  ASSUME DeskIInv, DeskPointers
  PROVE  DeskIInv'
<1>1. PICK p \in Pointers :
        \/ CanvasUp(p) \/ PastThreshold(p) \/ LongPress(p) \/ PointerCancel(p)
        \/ \E modifier \in BOOLEAN : StartDrag(p, modifier) \/ PointerUp(p, modifier)
        \/ \E dx \in {-1, 1} : DragMove(p, dx)
  BY DEF DeskPointers
<1>2. CASE CanvasUp(p) \/ PastThreshold(p) \/ LongPress(p) \/ PointerCancel(p)
  BY <1>2, CanvasUpKeeps, PastThresholdKeeps, LongPressKeeps, PointerCancelKeeps
<1>3. CASE \E modifier \in BOOLEAN : StartDrag(p, modifier) \/ PointerUp(p, modifier)
  BY <1>3, StartDragKeeps, PointerUpKeeps
<1>4. CASE \E dx \in {-1, 1} : DragMove(p, dx)
  BY <1>4, DragMoveKeeps
<1> QED BY <1>1, <1>2, <1>3, <1>4

LEMMA DeskStep ==
  ASSUME DeskIInv, [DeskNext]_deskVars
  PROVE  DeskIInv'
<1>1. CASE CloseDesk
  BY <1>1, CloseDeskKeeps
<1>2. CASE Measured
  <2>1. PICK w \in 1..(MaxPlace + 1) : SetContainerSize(w)
    BY <1>2 DEF Measured
  <2>2. deskActs' \in 0..MaxDeskActs
    BY <1>2, DeskFacts DEF Measured
  <2> QED BY <2>1, <2>2, SetContainerSizeKeeps
<1>3. CASE FetchRecords
  BY <1>3, FetchRecordsKeeps
<1>4. CASE UpsertRecords
  BY <1>4, UpsertRecordsKeeps
<1>5. CASE PlaceCards
  BY <1>5, PlaceCardsKeeps
<1>6. CASE \E v \in Views \cup {SearchDesk} : OpenDesk(v)
  BY <1>6, OpenDeskKeeps
<1>7. CASE \E c \in Papers : PhysicsTick(c) \/ PhysicsRests(c)
  BY <1>7, PhysicsTickKeeps, PhysicsRestsKeeps
<1>8. CASE DeskActs
  BY <1>8, DeskActsKeep
<1>9. CASE DeskPointers
  BY <1>9, DeskPointersKeep
<1>10. CASE UNCHANGED deskVars
  BY <1>10, DeskStutter
<1> QED BY <1>1, <1>2, <1>3, <1>4, <1>5, <1>6, <1>7, <1>8, <1>9, <1>10 DEF DeskNext

\* What stays true of the desk: its types, what it waits for, its groups, where its
\* documents were put, and that no height is given twice (desktop/).
THEOREM DeskInvariant == DeskSpec => []DeskIInv
<1>1. DeskInit => DeskIInv
  BY DeskInitHolds
<1>2. DeskIInv /\ [DeskNext]_deskVars => DeskIInv'
  BY DeskStep
<1> QED BY <1>1, <1>2, PTL DEF DeskSpec

\* The state of the desk is well formed (LayoutStore, useCardPointer.ts).
THEOREM DeskTyped == DeskSpec => []DeskTypeOK
<1>1. DeskIInv => DeskTypeOK
  BY DEF DeskIInv, DeskTypes
<1> QED BY <1>1, DeskInvariant, PTL

\* In a state with the invariant the groups and the layouts are sound.
LEMMA DeskIsGrouped == DeskIInv => GroupsAreSound
BY DEF DeskIInv, GroupInv, Grouped, Plain, GroupsAreSound

LEMMA DeskIsLaidOut == DeskIInv => LayoutsAreSound
<1>1. SUFFICES ASSUME DeskIInv PROVE LayoutsAreSound
  OBVIOUS
<1>2. StackingIsStrict
  BY <1>1, CardsBelow DEF StackingIsStrict
<1>3. CardsAreOnTheDesk
  BY <1>1 DEF DeskIInv, PlaceInv, CardsAreOnTheDesk
<1>4. StoredWhereItWasPut
  BY <1>1 DEF DeskIInv, PlaceInv, PutWhere, StoredWhereItWasPut
<1> QED BY <1>2, <1>3, <1>4 DEF LayoutsAreSound

\* The drag groups hold together whatever the fingers do (CardPhysics, CardDragLogic),
\* for any number of cards and fingers and any number of acts: a follower is known to
\* the card it follows and no other finger drags it; and as long as no finger was
\* lifted off a card that it goes on dragging, groups are one deep.
THEOREM GroupsSound == DeskSpec => []GroupsAreSound
BY DeskIsGrouped, DeskInvariant, PTL

\* What is on the desk and what is kept of it (LayoutSystem.ts): no two cards at one
\* height, every card on the desk, and only places kept where a document was put.
THEOREM LayoutsSound == DeskSpec => []LayoutsAreSound
BY DeskIsLaidOut, DeskInvariant, PTL

(***************************************************************************)
(* The parts together (MCClientWorkspace): each keeps its invariant, the   *)
(* one that acts by its own steps, the others because they rest.           *)
(***************************************************************************)

-----------------------------------------------------------------------------
workspaceVars == <<part, sessionVars, documentVars, folderVars, deskVars>>
WorkspaceIInv == SessionIInv /\ DocumentInv /\ FoldersIInv /\ DeskIInv

\* No document was listed yet.
LEMMA DocumentsAtRest == ASSUME DocumentsRest PROVE DocumentInv
<1>1. /\ stored = [d \in Docs |-> [folder |-> Root, state |-> "live"]] /\ cache = Nothing
      /\ screen = [folder |-> Root, order |-> "asc", ids |-> {}, of |-> None, sel |-> {}]
      /\ search = [query |-> None, results |-> None, of |-> None, loading |-> FALSE]
      /\ calls = [c \in Slot |-> Free]
  BY DEF DocumentsRest
<1>2. screen \in Screens /\ search \in SearchStates
  BY <1>1, NoSearchTyped, DocumentConstants DEF Screens, Nodes, Orders
<1>3. stored \in [Docs -> Stored] /\ cache \in [Docs -> Entry]
  BY <1>1, NothingTyped, DocumentConstants DEF Stored
<1>4. calls \in [Slot -> Handler] /\ \A c \in Slot : \A op \in DocumentOps : calls[c].op # op
  BY <1>1, FreeTyped
<1>5. SearchesAsk(calls, search, screen) /\ ListingsAsk(calls, screen)
  BY <1>4 DEF SearchesAsk, ListingsAsk, DocumentOps
<1>6. search.loading = FALSE /\ search.results = None
  BY <1>1
<1> QED BY <1>2, <1>3, <1>4, <1>5, <1>6 DEF DocumentInv, DocumentTypes, LoadingIsAwaited, SearchResultsAreCurrent

\* There are no folders and none were asked for.
LEMMA FoldersAtRest == ASSUME FoldersRest PROVE FoldersIInv
<1>1. /\ dirs = [f \in Dirs |-> Missing] /\ byId = [f \in Dirs |-> Missing]
      /\ tree = [loaded |-> FALSE, up |-> Unloaded] /\ chosen = Top /\ creating = FALSE
      /\ asks = [c \in Asks |-> Idle] /\ given = {} /\ raced = FALSE /\ folderActs = 0
  BY DEF FoldersRest, Missing
<1>2. Missing \in Folder /\ Missing.parent = Gone /\ dirs \in [Dirs -> Folder]
  BY <1>1, FoldersHaveShape DEF Missing
<1>3. HangsTogether(dirs) /\ Recorded(dirs)
  BY <1>1, <1>2 DEF HangsTogether, Recorded
<1>4. Unloaded \in Tree /\ \A f \in Dirs : Unloaded[f] = Gone
  BY DEF Unloaded, Tree
<1>5. TreeInv
  <2>1. FoldersTypeOK
    BY <1>1, <1>2, <1>4, FoldersHaveShape, FolderConstants DEF FoldersTypeOK, Folder, TreeNodes, Tree
  <2>2. ClientTreeIsForest
    BY <1>1, <1>4, FolderConstants DEF ClientTreeIsForest
  <2> QED BY <1>1, <1>3, <1>4, <2>1, <2>2 DEF TreeInv
<1>6. asks \in [Asks -> AskRecord] /\ \A c \in Asks : asks[c] = Idle
  BY <1>1, IdleIsAsk
<1>7. Idle.op = "none" /\ Idle.stage = "free" /\ ~Idle.failed
  BY DEF Idle
<1>8. AskOK(Idle) /\ ~Heard(Idle)
  BY <1>7, OpsAreOps DEF AskOK, Heard
<1>9. AsksInv
  BY <1>6, <1>7, <1>8 DEF AsksInv
<1>10. UnracedInv
  <2>1. \A c \in Asks : asks[c].op = "none" /\ ~Heard(asks[c]) /\ ~Changing(asks[c])
    BY <1>6, <1>7, <1>8, OpsAreOps DEF Changing
  <2>2. Agrees(dirs) /\ Present(chosen)
    BY <1>1 DEF Agrees, Loaded, Present
  <2> QED BY <2>1, <2>2, OpsAreOps DEF UnracedInv
<1> QED BY <1>5, <1>9, <1>10 DEF FoldersIInv

LEMMA WorkspaceInit == MCInit => WorkspaceIInv
<1>1. SUFFICES ASSUME MCInit PROVE WorkspaceIInv
  OBVIOUS
<1>2. SessionIInv
  BY <1>1, SessionIInvInit DEF MCInit, SessionRests
<1>3. DocumentInv
  BY <1>1, DocumentInit, DocumentsAtRest DEF MCInit
<1>4. FoldersIInv
  BY <1>1, FoldersInitKeeps, FoldersAtRest DEF MCInit
<1>5. DeskIInv
  BY <1>1, DeskInitHolds DEF MCInit, DeskRests, LayoutsAtFirst
<1> QED BY <1>2, <1>3, <1>4, <1>5 DEF WorkspaceIInv

\* A step of the workspace is one of each part, or leaves it alone.
LEMMA WorkspaceSteps ==
  [MCNext]_workspaceVars => [SessionNext]_sessionVars /\ [DocumentsNext]_documentVars /\ [FoldersNext]_folderVars /\ [DeskNext]_deskVars
BY DEF MCNext, DeskTurn, workspaceVars

LEMMA WorkspaceKeeps == WorkspaceIInv /\ [MCNext]_workspaceVars => WorkspaceIInv'
<1>1. SUFFICES ASSUME WorkspaceIInv, [MCNext]_workspaceVars PROVE WorkspaceIInv'
  OBVIOUS
<1>2. [SessionNext]_sessionVars /\ [DocumentsNext]_documentVars /\ [FoldersNext]_folderVars /\ [DeskNext]_deskVars
  BY <1>1, WorkspaceSteps
<1>3. SessionIInv'
  BY <1>1, <1>2, SessionIInvStep DEF WorkspaceIInv
<1>4. DocumentInv'
  BY <1>1, <1>2, DocumentStepKeeps DEF WorkspaceIInv
<1>5. FoldersIInv'
  BY <1>1, <1>2, FoldersStep, FoldersStutter DEF WorkspaceIInv
<1>6. DeskIInv'
  BY <1>1, <1>2, DeskStep DEF WorkspaceIInv
<1> QED BY <1>3, <1>4, <1>5, <1>6 DEF WorkspaceIInv

LEMMA WorkspaceInvariant == MCSpec => []WorkspaceIInv
<1>1. WorkspaceIInv /\ [MCNext]_workspaceVars => WorkspaceIInv'
  BY WorkspaceKeeps
<1> QED BY <1>1, WorkspaceInit, PTL DEF MCSpec, workspaceVars

\* The states of the session, the documents, the folders and the desk are well
\* formed, whichever of them acts (MCClientWorkspace).
THEOREM WorkspaceTyped == MCSpec => []WorkspaceTypeOK
<1>1. ASSUME WorkspaceIInv PROVE WorkspaceTypeOK
  <2>1. SessionTypeOK
    BY <1>1, SessionIInvIsTyped DEF WorkspaceIInv
  <2>2. DocumentsTypeOK
    BY <1>1 DEF WorkspaceIInv, DocumentInv, DocumentTypes, DocumentsTypeOK, Stored, Entry, Screens, SearchStates
  <2>3. FoldersTypeOK
    BY <1>1, FoldersIInvIsSound DEF WorkspaceIInv
  <2>4. DeskTypeOK
    BY <1>1 DEF WorkspaceIInv, DeskIInv, DeskTypes
  <2> QED BY <2>1, <2>2, <2>3, <2>4 DEF WorkspaceTypeOK
<1> QED BY <1>1, WorkspaceInvariant, PTL

\* Put together, the session stays consistent, the results shown are those of the
\* question in force, the folders hang together and agree with the server's, and
\* the groups and layouts of the desk are sound.
THEOREM WorkspaceSound ==
  MCSpec => [](SessionIsConsistent /\ SearchResultsAreCurrent /\ ClientTreeIsSound /\ GroupsAreSound /\ LayoutsAreSound)
<1>1. WorkspaceIInv => SessionIsConsistent /\ SearchResultsAreCurrent /\ ClientTreeIsSound
  BY SessionIInvIsConsistent, FoldersIInvIsSound DEF WorkspaceIInv, DocumentInv
<1>2. WorkspaceIInv => GroupsAreSound /\ LayoutsAreSound
  BY DeskIsGrouped, DeskIsLaidOut DEF WorkspaceIInv
<1> QED BY <1>1, <1>2, WorkspaceInvariant, PTL

\* No step of the workspace shows an answer to an earlier question, loses a document
\* the server has not let go, or takes a node out of the tree that nobody moved or
\* deleted (FolderContext.tsx:123-185, useTrashMutations.ts, FoldersManager.ts:289-384).
THEOREM WorkspaceStepsSound == MCSpec => WorkspaceStepsAreSound
<1>1. [MCNext]_workspaceVars => [DocumentsNext]_documentVars /\ [FoldersNext]_folderVars
  BY WorkspaceSteps
<1>2. WorkspaceIInv => DocumentInv /\ FoldersIInv
  BY DEF WorkspaceIInv
<1>3. DocumentInv /\ [DocumentsNext]_documentVars => [screen'.of # screen.of => screen'.of[1] = screen'.folder]_documentVars
  BY ListingFollowsStep
<1>4. DocumentInv /\ [DocumentsNext]_documentVars
        => [\A c \in Slot : calls[c].op = "list" /\ calls'[c].op = None /\ screen'.of # screen.of
              => screen'.of = ListKey(screen')]_documentVars
  BY AutomaticListingStep
<1>5. DocumentInv /\ [DocumentsNext]_documentVars
        => [\A d \in Docs : cache[d].known /\ ~cache'[d].known
              => \E c \in Slot : /\ d \in calls[c].accepted /\ ~calls[c].failed
                                 /\ calls'[c].op = None]_documentVars
  BY RemovalStep
<1>6. FoldersIInv /\ [FoldersNext]_folderVars
        => [\A f \in Dirs : Known(f) /\ ~Known(f)'
              => \E c \in Asks : asks[c].op \in {"move", "delete"} /\ asks'[c] # asks[c]]_folderVars
  BY NodesStayStep
<1> QED BY <1>1, <1>2, <1>3, <1>4, <1>5, <1>6, WorkspaceInvariant, PTL
        DEF MCSpec, workspaceVars, WorkspaceStepsAreSound, ListingsAreCurrent, ListingIsOfSelectedFolder,
            AutomaticListingIsCurrent, RemovedOnlyOnceAccepted, NodesStay
=============================================================================
